----------------------- MODULE TemperatureSync_proofs -----------------------
(***************************************************************************)
(* Proofs about the temperatures, from the bus to the entities: first the  *)
(* decoder by itself (SnapshotDecoder), for every window, expiry time and  *)
(* gap; then decoder and coordinator together (TemperatureSync), with and  *)
(* without the auxiliary client, for queues of any length.                 *)
(***************************************************************************)
EXTENDS TemperatureSync, TLAPS

-----------------------------------------------------------------------------
\* The decoder.

\* In snapshot mode the sample number is the snapshot's time, and a frame
\* never leaves behind a snapshot older than Expiry.  Words of another block
\* are only taken with a snapshot.
ModeInv ==
    /\ snapshotMode = data.snapshot
    /\ snapshotMode => data.id = snapshotAt /\ now - snapshotAt <= Expiry
    /\ ~snapshotMode => \A k \in Keys : data.temp[k] # Foreign
    /\ snapshotAt <= now
    /\ data.id <= now

\* A pending request with another block's answer under way: the request for
\* that block went unheard after it.
PairInv ==
    /\ requestAt <= now
    /\ bus.missedAt <= now
    /\ requestAt # Never /\ bus.asked = "other" =>
          bus.missedAt # Never /\ requestAt <= bus.missedAt

\* The inductive invariant of the decoder.
DecoderInv ==
    /\ DecoderTypeOK
    /\ ModeInv
    /\ PairInv
    /\ DecodedSampleIsWhole
    /\ ForeignOnlyAfterMissedRequest

LEMMA DecoderInitInv == DecoderInit => DecoderInv
  <1> SUFFICES ASSUME DecoderInit PROVE DecoderInv
    OBVIOUS
  <1> USE DecoderAssumption DEF Never
  <1>1. /\ data.id = 0 /\ data.snapshot = FALSE /\ data.missing = FALSE
        /\ data.temp = [k \in Keys |-> Unset]
        /\ data \in DataType
    BY DEF DecoderInit, NoData, DataType, Readings
  <1>2. DecoderTypeOK
    <2>1. bus \in [asked : Blocks \cup {"nothing"}, missedAt : 0..MaxTime]
      BY DEF DecoderInit
    <2>2. QED
      BY <1>1, <2>1 DEF DecoderInit, DecoderTypeOK
  <1>3. ModeInv
    <2>1. now = 0 /\ snapshotMode = FALSE /\ snapshotAt = 0
      BY DEF DecoderInit
    <2>2. data.id = 0 /\ data.snapshot = FALSE
      BY <1>1
    <2>3. \A k \in Keys : data.temp[k] # Foreign
      BY <1>1 DEF Unset, Foreign
    <2>4. snapshotMode = data.snapshot
      BY <2>1, <2>2
    <2>5. snapshotAt <= now /\ data.id <= now
      BY <2>1, <2>2
    <2>6. QED
      BY <2>1, <2>3, <2>4, <2>5 DEF ModeInv
  <1>4. PairInv
    BY DEF DecoderInit, PairInv
  <1>5. DecodedSampleIsWhole /\ ForeignOnlyAfterMissedRequest
    BY <1>1 DEF DecodedSampleIsWhole, Whole, ForeignOnlyAfterMissedRequest, Keys, Unset, Foreign
  <1>6. QED
    BY <1>2, <1>3, <1>4, <1>5 DEF DecoderInv

\* Clearing an old snapshot keeps the data well formed.
LEMMA AfterExpiryInv ==
  ASSUME DecoderInv, NEW t \in 1..MaxTime, t > now
  PROVE  /\ AfterExpiry(t) \in DataType
         /\ Whole(AfterExpiry(t))
         /\ AfterExpiry(t).snapshot = data.snapshot
         /\ AfterExpiry(t).id = IF Expired(t) THEN t ELSE data.id
         /\ \A k \in Keys : AfterExpiry(t).temp[k] =
                               IF Expired(t) THEN Cleared ELSE data.temp[k]
  <1>1. data \in DataType /\ Whole(data)
    BY DEF DecoderInv, DecoderTypeOK, DecodedSampleIsWhole
  <1>2. CASE Expired(t)
    <2>1. AfterExpiry(t) = [data EXCEPT !.temp = [k \in Keys |-> Cleared], !.id = t]
      BY <1>2 DEF AfterExpiry
    <2>2. Cleared \in Readings
      BY DEF Readings
    <2>3. AfterExpiry(t) \in DataType
      BY <1>1, <2>1, <2>2 DEF DataType
    <2>4. /\ AfterExpiry(t).id = t /\ AfterExpiry(t).snapshot = data.snapshot
          /\ \A k \in Keys : AfterExpiry(t).temp[k] = Cleared
      BY <1>1, <2>1 DEF DataType
    <2>5. Whole(AfterExpiry(t))
      BY <2>4 DEF Whole, Cleared, Keys
    <2>6. QED
      BY <1>2, <2>3, <2>4, <2>5
  <1>3. CASE ~Expired(t)
    BY <1>1, <1>3 DEF AfterExpiry
  <1>4. QED
    BY <1>2, <1>3

\* A frame that leaves the temperatures alone but for an expiry.
LEMMA QuietFrameInv ==
  ASSUME DecoderInv, NEW t \in 1..MaxTime, Hear(t), data' = AfterExpiry(t),
         KeepSnapshotTime(t), UNCHANGED snapshotMode
  PROVE  /\ now' \in 0..MaxTime /\ snapshotMode' \in BOOLEAN
         /\ snapshotAt' \in 0..MaxTime /\ data' \in DataType
         /\ ModeInv' /\ DecodedSampleIsWhole'
         /\ now' > now
         /\ bus'.missedAt = bus.missedAt => ForeignOnlyAfterMissedRequest'
  <1>1. t > now /\ now' = t
    BY DecoderAssumption DEF Hear, DecoderInv, DecoderTypeOK
  <1>2. /\ AfterExpiry(t) \in DataType
        /\ Whole(AfterExpiry(t))
        /\ AfterExpiry(t).snapshot = data.snapshot
        /\ AfterExpiry(t).id = IF Expired(t) THEN t ELSE data.id
        /\ \A k \in Keys : AfterExpiry(t).temp[k] =
                              IF Expired(t) THEN Cleared ELSE data.temp[k]
    BY <1>1, AfterExpiryInv
  <1>3. now' \in 0..MaxTime /\ snapshotMode' \in BOOLEAN /\ snapshotAt' \in 0..MaxTime
    BY <1>1 DEF KeepSnapshotTime, DecoderInv, DecoderTypeOK
  <1>4. ModeInv'
    BY <1>1, <1>2, DecoderAssumption
    DEF ModeInv, DecoderInv, DecoderTypeOK, KeepSnapshotTime, Expired, DataType, Never
  <1>5. DecodedSampleIsWhole'
    BY <1>2 DEF DecodedSampleIsWhole, Whole
  <1>6. bus'.missedAt = bus.missedAt => ForeignOnlyAfterMissedRequest'
    BY <1>2 DEF DecoderInv, ForeignOnlyAfterMissedRequest, Cleared, Foreign
  <1>7. QED
    BY <1>1, <1>2, <1>3, <1>4, <1>5, <1>6

LEMMA DecodeInv ==
  ASSUME DecoderInv, NEW t \in 1..MaxTime, Decode(t)
  PROVE  DecoderInv'
  <1> USE DecoderAssumption DEF Never
  <1>1. ASSUME NEW block \in Blocks, HearRequest(t, block)
        PROVE  DecoderInv'
    <2>1. /\ now' \in 0..MaxTime /\ snapshotMode' \in BOOLEAN
          /\ snapshotAt' \in 0..MaxTime /\ data' \in DataType
          /\ ModeInv' /\ DecodedSampleIsWhole'
          /\ bus'.missedAt = bus.missedAt => ForeignOnlyAfterMissedRequest'
      BY <1>1, QuietFrameInv DEF HearRequest
    <2>2. bus'.missedAt = bus.missedAt /\ bus'.asked = block
      BY <1>1 DEF HearRequest, DecoderInv, DecoderTypeOK
    <2>3. DecoderTypeOK'
      BY <1>1, <2>1 DEF HearRequest, RequestTime, DecoderInv, DecoderTypeOK
    <2>4. PairInv'
      BY <1>1, <2>2 DEF HearRequest, RequestTime, Hear, DecoderInv, PairInv, DecoderTypeOK, Blocks
    <2>5. QED
      BY <2>1, <2>2, <2>3, <2>4 DEF DecoderInv
  <1>2. ASSUME NEW words \in SnapshotWords(t) \cup ForeignWords, HearAnswer(t, words)
        PROVE  DecoderInv'
    <2>1. t > now /\ now' = t
      BY <1>2 DEF HearAnswer, Hear, DecoderInv, DecoderTypeOK
    <2>2. /\ bus' = [bus EXCEPT !.asked = "nothing"] /\ requestAt' = Never
          /\ bus'.missedAt = bus.missedAt /\ bus'.asked = "nothing"
          /\ bus' \in [asked : Blocks \cup {"nothing"}, missedAt : 0..MaxTime]
      BY <1>2 DEF HearAnswer, DecoderInv, DecoderTypeOK
    <2>3. PairInv'
      BY <2>1, <2>2 DEF DecoderInv, PairInv, DecoderTypeOK
    <2>4. CASE ~Paired(t)
      <3>1. /\ now' \in 0..MaxTime /\ snapshotMode' \in BOOLEAN
            /\ snapshotAt' \in 0..MaxTime /\ data' \in DataType
            /\ ModeInv' /\ DecodedSampleIsWhole'
            /\ bus'.missedAt = bus.missedAt => ForeignOnlyAfterMissedRequest'
        BY <1>2, <2>4, QuietFrameInv DEF HearAnswer
      <3>2. QED
        BY <2>2, <2>3, <3>1 DEF DecoderInv, DecoderTypeOK
    <2>5. CASE Paired(t)
      <3>1. /\ data' = [temp |-> words, id |-> t, snapshot |-> TRUE,
                        missing |-> words["room"] = Absent]
            /\ snapshotAt' = t /\ snapshotMode' = TRUE
        BY <1>2, <2>5 DEF HearAnswer
      <3>2. /\ words \in [Keys -> Readings]
            /\ \A k \in Keys : words[k] > 0 => words[k] = t
        BY DEF SnapshotWords, ForeignWords, Keys, Readings, Fault, Absent, Foreign
      <3>3. /\ data' \in DataType /\ DecodedSampleIsWhole'
        BY <3>1, <3>2 DEF DataType, DecodedSampleIsWhole, Whole, Keys
      <3>4. ModeInv'
        BY <2>1, <3>1 DEF ModeInv
      <3>5. ForeignOnlyAfterMissedRequest'
        <4>1. CASE bus.asked = "snapshot"
          <5>1. \A k \in Keys : words[k] # Foreign
            BY <1>2, <4>1 DEF HearAnswer, SnapshotWords, Keys, Fault, Absent, Foreign
          <5>2. QED
            BY <3>1, <5>1 DEF ForeignOnlyAfterMissedRequest
        <4>2. CASE bus.asked = "other"
          <5>1. /\ bus.missedAt # 0 /\ requestAt <= bus.missedAt
                /\ t - requestAt <= RequestWindow
                /\ bus.missedAt \in Nat /\ requestAt \in Nat
            BY <2>5, <4>2 DEF DecoderInv, PairInv, Paired, DecoderTypeOK
          <5>2. t - bus.missedAt <= RequestWindow
            BY <5>1
          <5>3. data'.id = t
            BY <3>1
          <5>4. QED
            BY <2>2, <5>1, <5>2, <5>3 DEF ForeignOnlyAfterMissedRequest
        <4>3. QED
          BY <1>2, <4>1, <4>2 DEF HearAnswer, DecoderInv, DecoderTypeOK, Blocks
      <3>6. QED
        BY <2>1, <2>2, <2>3, <3>1, <3>3, <3>4, <3>5 DEF DecoderInv, DecoderTypeOK
    <2>6. QED
      BY <2>4, <2>5
  <1>3. ASSUME UNCHANGED <<snapshotMode, requestAt, bus>>, Hear(t), KeepSnapshotTime(t),
               data' = AfterExpiry(t)
        PROVE  DecoderInv'
    <2>1. /\ now' \in 0..MaxTime /\ snapshotMode' \in BOOLEAN
          /\ snapshotAt' \in 0..MaxTime /\ data' \in DataType
          /\ ModeInv' /\ DecodedSampleIsWhole' /\ now' > now
          /\ bus'.missedAt = bus.missedAt => ForeignOnlyAfterMissedRequest'
      BY <1>3, QuietFrameInv
    <2>2. PairInv'
      BY <1>3, <2>1 DEF DecoderInv, PairInv, DecoderTypeOK
    <2>3. QED
      BY <1>3, <2>1, <2>2 DEF DecoderInv, DecoderTypeOK
  <1>4. ASSUME NEW reading \in {t, Fault}, HearLegacyAir(t, reading), ~snapshotMode
        PROVE  DecoderInv'
    <2>1. /\ t > now /\ now' = t /\ UNCHANGED <<snapshotMode, snapshotAt, requestAt, bus>>
          /\ data' = [data EXCEPT !.temp["air"] = reading, !.id = t]
      BY <1>4 DEF HearLegacyAir, Legacy, Hear, KeepSnapshotTime, Expired, DecoderInv, DecoderTypeOK
    <2>2. /\ data' \in DataType /\ data'.id = t /\ data'.snapshot = data.snapshot
          /\ data'.temp["air"] = reading
          /\ \A k \in Keys : data'.temp[k] \in {data.temp[k], reading}
      BY <2>1 DEF DecoderInv, DecoderTypeOK, DataType, Keys, Readings, Fault
    <2>3. DecoderTypeOK' /\ ModeInv' /\ PairInv'
      BY <1>4, <2>1, <2>2 DEF DecoderInv, DecoderTypeOK, ModeInv, PairInv, Foreign, Fault
    <2>4. DecodedSampleIsWhole'
      BY <1>4, <2>2, <2>3 DEF DecodedSampleIsWhole, Whole, ModeInv, DecoderInv, Fault
    <2>5. ForeignOnlyAfterMissedRequest'
      BY <1>4, <2>1, <2>3 DEF ForeignOnlyAfterMissedRequest, ModeInv
    <2>6. QED
      BY <2>3, <2>4, <2>5 DEF DecoderInv
  <1>5. ASSUME NEW key \in {"room", "coil"}, NEW reading \in {t, Fault},
               HearLegacySlow(t, key, reading), ~snapshotMode
        PROVE  DecoderInv'
    <2>1. /\ t > now /\ now' = t /\ UNCHANGED <<snapshotMode, snapshotAt, requestAt, bus>>
          /\ data' = [data EXCEPT !.temp[key] = reading]
      BY <1>5 DEF HearLegacySlow, Legacy, Hear, KeepSnapshotTime, Expired, DecoderInv, DecoderTypeOK
    <2>2. /\ data' \in DataType /\ data'.id = data.id /\ data'.snapshot = data.snapshot
          /\ data'.temp["air"] = data.temp["air"]
          /\ \A k \in Keys : data'.temp[k] \in {data.temp[k], reading}
      BY <2>1 DEF DecoderInv, DecoderTypeOK, DataType, Keys, Readings, Fault
    <2>3. DecoderTypeOK' /\ ModeInv' /\ PairInv'
      BY <1>5, <2>1, <2>2
      DEF DecoderInv, DecoderTypeOK, ModeInv, PairInv, DataType, Foreign, Fault
    <2>4. DecodedSampleIsWhole'
      BY <1>5, <2>2 DEF DecodedSampleIsWhole, Whole, ModeInv, DecoderInv, Keys
    <2>5. ForeignOnlyAfterMissedRequest'
      BY <1>5, <2>1, <2>2
      DEF DecoderInv, ForeignOnlyAfterMissedRequest, Foreign, Fault
    <2>6. QED
      BY <2>3, <2>4, <2>5 DEF DecoderInv
  <1>6. ASSUME NEW reading \in {t, Fault}, HearLegacyAir(t, reading)
        PROVE  DecoderInv'
    BY <1>3, <1>4, <1>6 DEF HearLegacyAir, Legacy
  <1>7. ASSUME NEW key \in {"room", "coil"}, NEW reading \in {t, Fault},
               HearLegacySlow(t, key, reading)
        PROVE  DecoderInv'
    BY <1>3, <1>5, <1>7 DEF HearLegacySlow, Legacy
  <1>8. ASSUME HearOther(t)
        PROVE  DecoderInv'
    BY <1>3, <1>8 DEF HearOther
  <1>9. QED
    BY <1>1, <1>2, <1>6, <1>7, <1>8 DEF Decode

LEMMA UnheardInv ==
  ASSUME DecoderInv, Unheard
  PROVE  DecoderInv'
  <1> USE DecoderAssumption DEF Never
  <1>1. /\ UNCHANGED <<now, snapshotMode, snapshotAt, requestAt, data>>
        /\ bus' \in [asked : Blocks \cup {"nothing"}, missedAt : 0..MaxTime]
        /\ \/ bus'.missedAt = now
           \/ bus'.missedAt = bus.missedAt /\ bus'.asked # "other"
    BY DEF Unheard, MissRequest, MissAnswer, DecoderInv, DecoderTypeOK, Blocks
  <1>2. DecoderTypeOK' /\ ModeInv' /\ DecodedSampleIsWhole'
    BY <1>1 DEF DecoderInv, DecoderTypeOK, ModeInv, DecodedSampleIsWhole
  <1>3. PairInv'
    BY <1>1 DEF DecoderInv, DecoderTypeOK, PairInv
  <1>4. ForeignOnlyAfterMissedRequest'
    <2>1. CASE bus'.missedAt = bus.missedAt
      BY <1>1, <2>1 DEF DecoderInv, ForeignOnlyAfterMissedRequest
    <2>2. CASE bus'.missedAt = now
      <3>1. data.id <= now /\ data.id \in Nat /\ now \in Nat
        BY DEF DecoderInv, DecoderTypeOK, ModeInv, DataType
      <3>2. ASSUME NEW k \in Keys, data.temp[k] = Foreign
            PROVE  now # 0
        BY <3>1, <3>2
        DEF DecoderInv, DecoderTypeOK, PairInv, ForeignOnlyAfterMissedRequest
      <3>3. data.id - now <= RequestWindow
        BY <3>1
      <3>4. QED
        BY <1>1, <2>2, <3>2, <3>3 DEF ForeignOnlyAfterMissedRequest
    <2>3. QED
      BY <1>1, <2>1, <2>2
  <1>5. QED
    BY <1>2, <1>3, <1>4 DEF DecoderInv

LEMMA DecoderNextInv == DecoderInv /\ [DecoderNext]_decoderVars => DecoderInv'
  <1>1. ASSUME DecoderInv, UNCHANGED decoderVars
        PROVE  DecoderInv'
    BY <1>1
    DEF decoderVars, DecoderInv, DecoderTypeOK, ModeInv, PairInv, DecodedSampleIsWhole,
        ForeignOnlyAfterMissedRequest
  <1>2. QED
    BY <1>1, DecodeInv, UnheardInv DEF DecoderNext

\* The decoder's invariant holds in every state.
THEOREM DecoderInvariant == DecoderSpec => []DecoderInv
  <1>1. QED
    BY DecoderInitInv, DecoderNextInv, PTL DEF DecoderSpec

\* The decoder never holds temperatures of two frames as one sample: the
\* snapshot replaces all seven, and the legacy frames do not touch it.
THEOREM DecoderSampleIsWhole == DecoderSpec => []DecodedSampleIsWhole
  <1>1. DecoderInv => DecodedSampleIsWhole
    BY DEF DecoderInv
  <1>2. QED
    BY <1>1, DecoderInvariant, PTL

\* No frame leaves a snapshot temperature older than Expiry behind, whatever
\* the times between frames.
THEOREM DecoderIsNeverStale == DecoderSpec => []NoStaleSnapshot
  <1>1. DecoderInv => NoStaleSnapshot
    BY DEF DecoderInv, NoStaleSnapshot, DecodedSampleIsWhole, Whole, ModeInv
  <1>2. QED
    BY <1>1, DecoderInvariant, PTL

\* Another block's words are taken for temperatures only if the request for
\* that block went unheard less than RequestWindow before.
THEOREM DecoderPairsAnswers == DecoderSpec => []ForeignOnlyAfterMissedRequest
  <1>1. DecoderInv => ForeignOnlyAfterMissedRequest
    BY DEF DecoderInv
  <1>2. QED
    BY <1>1, DecoderInvariant, PTL

-----------------------------------------------------------------------------
\* Decoder and coordinator.

\* Updates wait in the order of their sample numbers, whole, between the
\* newest sample handled and the decoder's own.
QueueInv ==
    /\ newest <= data.id
    /\ \A i \in 1..Len(updates) :
          Whole(updates[i]) /\ newest <= updates[i].id /\ updates[i].id <= data.id
    /\ \A i, j \in 1..Len(updates) : i <= j => updates[i].id <= updates[j].id

\* The samples kept beside the queue are whole; a fetch runs for a sample that
\* is newer than the one on show, and exactly while one waits.
FetchInv ==
    /\ Whole(pending) /\ Whole(fetch) /\ Whole(published.sample)
    /\ Auxiliary  => /\ pending.id = sampleId
                     /\ published.sample.id <= sampleId
                     /\ fetch.id <= sampleId
                     /\ NoFetch <=> sampleId = published.sample.id
    /\ ~Auxiliary => NoFetch

\* The inductive invariant of the coordinator.
SyncInv ==
    /\ TypeOK
    /\ DecoderInv
    /\ QueueInv
    /\ FetchInv
    /\ WaterGoesWithAir
    /\ ~Auxiliary => published.water = Never

LEMMA NoSampleType == NoSample \in SampleType /\ NoSample.id = Never /\ Whole(NoSample)
  BY DEF NoSample, SampleOf, NoData, SampleType, Whole, Readings, Keys, Unset, Never

LEMMA SampleOfType ==
  ASSUME NEW d \in DataType
  PROVE  /\ SampleOf(d) \in SampleType /\ SampleOf(d).id = d.id
         /\ Whole(d) => Whole(SampleOf(d))
  BY DEF SampleOf, SampleType, DataType, Whole

LEMMA PublishedType ==
  ASSUME NEW s \in SampleType, NEW m \in BOOLEAN, NEW w \in {Never} \cup 1..MaxTime
  PROVE  /\ Published(s, m, w) \in [ sample  : SampleType, missing : BOOLEAN,
                                     water : {Never} \cup 1..MaxTime,
                                     faults : SUBSET {"air", "room"} ]
         /\ Published(s, m, w).sample = s
         /\ Published(s, m, w).missing = m
         /\ Published(s, m, w).water = w
  BY DEF Published, SensorFaults

LEMMA InitSyncInv == Init => SyncInv
  <1> SUFFICES ASSUME Init PROVE SyncInv
    OBVIOUS
  <1>1. DecoderInv /\ data.id = 0
    BY DecoderInitInv DEF Init, DecoderInit, NoData, Never
  <1>2. updates = <<>> /\ sampleId = 0 /\ pending = NoSample /\ fetch = NoSample
    BY DEF Init, SyncInit, Never
  <1>3. /\ published \in [ sample  : SampleType, missing : BOOLEAN,
                           water : {Never} \cup 1..MaxTime,
                           faults : SUBSET {"air", "room"} ]
        /\ published.sample = NoSample /\ published.water = Never
    <2> DEFINE p == Published(NoSample, FALSE, Never)
    <2>1. /\ p \in [ sample  : SampleType, missing : BOOLEAN,
                     water : {Never} \cup 1..MaxTime,
                     faults : SUBSET {"air", "room"} ]
          /\ p.sample = NoSample /\ p.water = Never
      <3>1. FALSE \in BOOLEAN /\ Never \in {Never} \cup 1..MaxTime
        OBVIOUS
      <3>2. QED
        BY <3>1, NoSampleType DEF Published, SensorFaults
    <2>2. published = p
      BY DEF Init, SyncInit
    <2> HIDE DEF p
    <2>3. QED
      BY <2>1, <2>2
  <1>4. TypeOK
    <2>1. updates \in Seq(DataType)
      BY <1>2
    <2>2. sampleId \in {Never} \cup 1..MaxTime /\ pending \in SampleType /\ fetch \in SampleType
      BY <1>2, NoSampleType DEF Never
    <2>3. QED
      BY <1>1, <1>3, <2>1, <2>2 DEF TypeOK, DecoderInv
  <1>5. QueueInv
    <2>1. newest = 0
      BY <1>2, <1>3, NoSampleType DEF newest, Never
    <2>2. Len(updates) = 0
      BY <1>2
    <2>3. QED
      BY <1>1, <2>1, <2>2 DEF QueueInv
  <1>6. FetchInv /\ WaterGoesWithAir
    <2>1. pending.id = 0 /\ fetch.id = 0 /\ published.sample.id = 0 /\ published.water = 0
      BY <1>2, <1>3, NoSampleType DEF Never
    <2>2. Whole(pending) /\ Whole(fetch) /\ Whole(published.sample)
      BY <1>2, <1>3, NoSampleType
    <2>3. QED
      BY <1>2, <2>1, <2>2 DEF FetchInv, NoFetch, WaterGoesWithAir
  <1>7. QED
    BY <1>1, <1>3, <1>4, <1>5, <1>6 DEF SyncInv

\* What a frame appends to the queue: one or two updates, the second of them
\* the decoder's data, in the order of their numbers.
LEMMA EmittedInv ==
  ASSUME SyncInv, NEW t \in 1..MaxTime, Decode(t)
  PROVE  /\ Emitted(t) \in Seq(DataType)
         /\ Len(Emitted(t)) \in {1, 2}
         /\ \A i \in 1..Len(Emitted(t)) :
               /\ Whole(Emitted(t)[i])
               /\ data.id <= Emitted(t)[i].id
               /\ Emitted(t)[i].id <= data'.id
         /\ \A i, j \in 1..Len(Emitted(t)) :
               i <= j => Emitted(t)[i].id <= Emitted(t)[j].id
         /\ data.id <= data'.id
  <1> USE DEF Never
  <1>1. DecoderInv /\ DecoderInv'
    BY DecodeInv DEF SyncInv
  <1>2. now \in Nat /\ t > now /\ now' = t
    BY <1>1, DecoderAssumption
    DEF Decode, HearRequest, HearAnswer, HearLegacyAir, HearLegacySlow, HearOther, Hear,
        DecoderInv, DecoderTypeOK
  <1>3. /\ AfterExpiry(t) \in DataType /\ Whole(AfterExpiry(t))
        /\ AfterExpiry(t).id = IF Expired(t) THEN t ELSE data.id
    BY <1>1, <1>2, AfterExpiryInv
  <1>4. /\ data \in DataType /\ data' \in DataType /\ Whole(data')
        /\ data.id <= now /\ data.id \in Nat /\ data'.id \in Nat
    BY <1>1 DEF DecoderInv, DecoderTypeOK, DecodedSampleIsWhole, ModeInv, DataType
  <1>5. data' = AfterExpiry(t) \/ data'.id = t \/ (~snapshotMode /\ data'.id = data.id)
    <2> DEFINE Goal == \/ data' = AfterExpiry(t)
                       \/ data'.id = t
                       \/ ~snapshotMode /\ data'.id = data.id
    <2>1. ASSUME NEW block \in Blocks, HearRequest(t, block)
          PROVE  Goal
      BY <2>1 DEF HearRequest
    <2>2. ASSUME NEW words \in SnapshotWords(t) \cup ForeignWords, HearAnswer(t, words)
          PROVE  Goal
      <3>1. CASE Paired(t)
        <4>1. data'.id = t
          BY <2>2, <3>1 DEF HearAnswer
        <4>2. QED
          BY <4>1
      <3>2. CASE ~Paired(t)
        BY <2>2, <3>2 DEF HearAnswer
      <3>3. QED
        BY <3>1, <3>2
    <2>3. ASSUME NEW reading \in {t, Fault}, HearLegacyAir(t, reading)
          PROVE  Goal
      BY <1>4, <2>3 DEF HearLegacyAir, Legacy, DataType
    <2>4. ASSUME NEW key \in {"room", "coil"}, NEW reading \in {t, Fault},
                 HearLegacySlow(t, key, reading)
          PROVE  Goal
      BY <1>4, <2>4 DEF HearLegacySlow, Legacy, DataType
    <2>5. QED
      BY <2>1, <2>2, <2>3, <2>4 DEF Decode, HearOther
  <1>6. data'.id \in {data.id, t} /\ (~Expired(t) \/ data'.id = t)
    BY <1>3, <1>5 DEF Expired
  <1>7. data.id <= AfterExpiry(t).id /\ AfterExpiry(t).id <= data'.id /\ data.id <= data'.id
    BY <1>2, <1>3, <1>4, <1>5, <1>6
  <1>8. AfterExpiry(t).id \in Nat
    BY <1>3, <1>4
  <1>9. CASE data' = AfterExpiry(t)
    <2>1. Emitted(t) = <<data'>>
      BY <1>9 DEF Emitted
    <2>2. QED
      BY <1>3, <1>4, <1>7, <1>8, <2>1
  <1>10. CASE data' # AfterExpiry(t)
    <2>1. Emitted(t) = <<AfterExpiry(t), data'>>
      BY <1>10 DEF Emitted
    <2>2. QED
      BY <1>3, <1>4, <1>7, <1>8, <2>1
  <1>11. QED
    BY <1>9, <1>10

LEMMA HearFrameInv ==
  ASSUME SyncInv, NEW t \in 1..MaxTime, HearFrame(t)
  PROVE  SyncInv'
  <1> DEFINE e == Emitted(t)
  <1>1. Decode(t) /\ updates' = updates \o e
        /\ UNCHANGED <<sampleId, pending, fetch, published>>
    BY DEF HearFrame
  <1>2. /\ e \in Seq(DataType)
        /\ \A i \in 1..Len(e) :
              Whole(e[i]) /\ data.id <= e[i].id /\ e[i].id <= data'.id
        /\ \A i, j \in 1..Len(e) : i <= j => e[i].id <= e[j].id
        /\ data.id <= data'.id
    BY <1>1, EmittedInv
  <1>3. DecoderInv'
    BY <1>1, DecodeInv DEF SyncInv
  <1>4. updates \in Seq(DataType) /\ data \in DataType /\ data' \in DataType
    BY <1>3 DEF SyncInv, TypeOK, DecoderInv, DecoderTypeOK
  <1>5. newest' = newest /\ newest \in Nat
    BY <1>1 DEF newest, SyncInv, TypeOK, SampleType, Never
  <1> HIDE DEF e
  <1>6. /\ updates' \in Seq(DataType)
        /\ Len(updates') = Len(updates) + Len(e)
        /\ \A i \in 1..Len(updates') :
              updates'[i] = IF i <= Len(updates) THEN updates[i] ELSE e[i - Len(updates)]
    BY <1>1, <1>2, <1>4
  <1>7. /\ \A i \in 1..Len(updates) : updates[i].id \in Nat
        /\ \A i \in 1..Len(e) : e[i].id \in Nat
        /\ data.id \in Nat /\ data'.id \in Nat
    <2>1. \A d \in DataType : d.id \in Nat
      BY DEF DataType, Never
    <2>2. QED
      BY <1>2, <1>4, <2>1
  <1>8. TypeOK'
    BY <1>1, <1>3, <1>6 DEF SyncInv, TypeOK, DecoderInv
  <1>9. QueueInv'
    <2>1. newest' <= data'.id
      BY <1>2, <1>5, <1>7 DEF SyncInv, QueueInv
    <2>2. ASSUME NEW i \in 1..Len(updates')
          PROVE  Whole(updates'[i]) /\ newest' <= updates'[i].id /\ updates'[i].id <= data'.id
      <3>1. CASE i <= Len(updates)
        <4>1. i \in 1..Len(updates) /\ updates'[i] = updates[i]
          BY <1>4, <1>6, <3>1
        <4>2. QED
          BY <1>2, <1>5, <1>7, <4>1 DEF SyncInv, QueueInv
      <3>2. CASE i > Len(updates)
        <4>1. i - Len(updates) \in 1..Len(e) /\ updates'[i] = e[i - Len(updates)]
          BY <1>2, <1>4, <1>6, <3>2
        <4>2. newest <= data.id
          BY DEF SyncInv, QueueInv
        <4>3. QED
          BY <1>2, <1>5, <1>7, <4>1, <4>2
      <3>3. QED
        BY <1>4, <3>1, <3>2
    <2>3. ASSUME NEW i \in 1..Len(updates'), NEW j \in 1..Len(updates'), i <= j
          PROVE  updates'[i].id <= updates'[j].id
      <3>1. CASE j <= Len(updates)
        <4>1. /\ i \in 1..Len(updates) /\ j \in 1..Len(updates)
              /\ updates'[i] = updates[i] /\ updates'[j] = updates[j]
          BY <1>4, <1>6, <2>3, <3>1
        <4>2. QED
          BY <2>3, <4>1 DEF SyncInv, QueueInv
      <3>2. CASE i <= Len(updates) /\ j > Len(updates)
        <4>1. /\ i \in 1..Len(updates) /\ j - Len(updates) \in 1..Len(e)
              /\ updates'[i] = updates[i] /\ updates'[j] = e[j - Len(updates)]
          BY <1>2, <1>4, <1>6, <3>2
        <4>2. updates[i].id <= data.id
          BY <4>1 DEF SyncInv, QueueInv
        <4>3. QED
          BY <1>2, <1>7, <4>1, <4>2
      <3>3. CASE i > Len(updates)
        <4>1. /\ i - Len(updates) \in 1..Len(e) /\ j - Len(updates) \in 1..Len(e)
              /\ i - Len(updates) <= j - Len(updates)
              /\ updates'[i] = e[i - Len(updates)] /\ updates'[j] = e[j - Len(updates)]
          BY <1>2, <1>4, <1>6, <2>3, <3>3
        <4>2. QED
          BY <1>2, <4>1
      <3>4. QED
        BY <1>4, <3>1, <3>2, <3>3
    <2>4. QED
      BY <2>1, <2>2, <2>3 DEF QueueInv
  <1>10. FetchInv' /\ WaterGoesWithAir' /\ (~Auxiliary => published'.water = Never)
    BY <1>1 DEF SyncInv, FetchInv, NoFetch, WaterGoesWithAir
  <1>11. QED
    BY <1>3, <1>8, <1>9, <1>10 DEF SyncInv

LEMMA BusOnlyInv ==
  ASSUME SyncInv, BusOnly
  PROVE  SyncInv'
  <1>1. DecoderInv' /\ UNCHANGED syncVars /\ UNCHANGED data
    BY UnheardInv DEF SyncInv, BusOnly, Unheard, MissRequest, MissAnswer
  <1>2. QED
    BY <1>1
    DEF SyncInv, TypeOK, DecoderInv, QueueInv, newest, FetchInv, NoFetch,
        WaterGoesWithAir, syncVars

LEMMA HandleUpdateInv ==
  ASSUME SyncInv, HandleUpdate
  PROVE  SyncInv'
  <1> DEFINE d == Head(updates)
  <1>1. updates # <<>> /\ updates \in Seq(DataType)
    BY DEF SyncInv, TypeOK, HandleUpdate
  <1>2. /\ d \in DataType /\ d = updates[1] /\ 1 \in 1..Len(updates)
        /\ Len(updates) \in Nat
    BY <1>1
  <1>3. /\ updates' = Tail(updates)
        /\ UNCHANGED decoderVars
        /\ published' = Published(IF Auxiliary THEN published.sample ELSE SampleOf(d),
                                  d.missing, published.water)
        /\ Auxiliary /\ IsNew(d) =>
              /\ sampleId' = d.id /\ pending' = SampleOf(d)
              /\ fetch' = IF NoFetch THEN SampleOf(d) ELSE fetch
        /\ ~(Auxiliary /\ IsNew(d)) => UNCHANGED <<sampleId, pending, fetch>>
    BY DEF HandleUpdate, Shown, KeptWater
  <1>4. /\ Whole(d) /\ newest <= d.id /\ d.id <= data.id /\ newest \in Nat
        /\ d.id \in Nat /\ d.missing \in BOOLEAN
        /\ d.id \in {Never} \cup 1..MaxTime
    BY <1>2 DEF SyncInv, QueueInv, TypeOK, newest, SampleType, DataType, Never
  <1>5. SampleOf(d) \in SampleType /\ SampleOf(d).id = d.id /\ Whole(SampleOf(d))
    BY <1>2, <1>4, SampleOfType
  <1> HIDE DEF d
  <1>6. /\ published' \in [ sample  : SampleType, missing : BOOLEAN,
                            water : {Never} \cup 1..MaxTime,
                            faults : SUBSET {"air", "room"} ]
        /\ published'.sample = IF Auxiliary THEN published.sample ELSE SampleOf(d)
        /\ published'.water = published.water
    <2>1. (IF Auxiliary THEN published.sample ELSE SampleOf(d)) \in SampleType
      BY <1>5 DEF SyncInv, TypeOK
    <2>2. published.water \in {Never} \cup 1..MaxTime
      BY DEF SyncInv, TypeOK
    <2>3. QED
      BY <1>3, <1>4, <2>1, <2>2, PublishedType
  <1>7. DecoderInv' /\ data' = data
    BY <1>3
    DEF SyncInv, decoderVars, DecoderInv, DecoderTypeOK, ModeInv, PairInv,
        DecodedSampleIsWhole, ForeignOnlyAfterMissedRequest
  <1>8. TypeOK'
    <2>1. updates' \in Seq(DataType)
      BY <1>1, <1>3
    <2>2. /\ sampleId' \in {Never} \cup 1..MaxTime
          /\ pending' \in SampleType /\ fetch' \in SampleType
      BY <1>3, <1>4, <1>5 DEF SyncInv, TypeOK
    <2>3. QED
      BY <1>6, <1>7, <2>1, <2>2 DEF TypeOK, DecoderInv
  <1>9. newest' = d.id \/ (newest' = newest /\ newest = d.id) \/ d.id = Never
    BY <1>3, <1>4, <1>5, <1>6 DEF newest, IsNew
  <1>10. newest' = d.id
    BY <1>3, <1>4, <1>5, <1>6, <1>9 DEF newest, IsNew, Never
  <1>11. QueueInv'
    <2>1. /\ Len(updates') = Len(updates) - 1
          /\ \A i \in 1..Len(updates') : /\ i + 1 \in 1..Len(updates)
                                         /\ updates'[i] = updates[i + 1]
      BY <1>1, <1>2, <1>3
    <2>2. ASSUME NEW i \in 1..Len(updates')
          PROVE  Whole(updates'[i]) /\ newest' <= updates'[i].id /\ updates'[i].id <= data'.id
      BY <1>2, <1>7, <1>10, <2>1 DEF SyncInv, QueueInv
    <2>3. ASSUME NEW i \in 1..Len(updates'), NEW j \in 1..Len(updates'), i <= j
          PROVE  updates'[i].id <= updates'[j].id
      BY <1>2, <2>1, <2>3 DEF SyncInv, QueueInv
    <2>4. newest' <= data'.id
      BY <1>4, <1>7, <1>10
    <2>5. QED
      BY <2>2, <2>3, <2>4 DEF QueueInv
  <1>12. FetchInv'
    <2>1. Whole(pending') /\ Whole(fetch') /\ Whole(published'.sample)
      BY <1>3, <1>5, <1>6 DEF SyncInv, FetchInv
    <2>2. CASE ~Auxiliary
      BY <1>3, <2>1, <2>2 DEF SyncInv, FetchInv, NoFetch
    <2>3. CASE Auxiliary /\ ~IsNew(d)
      BY <1>3, <1>6, <2>1, <2>3 DEF SyncInv, FetchInv, NoFetch
    <2>4. CASE Auxiliary /\ IsNew(d)
      <3>1. /\ sampleId < d.id /\ published.sample.id <= sampleId /\ fetch.id <= sampleId
            /\ sampleId \in Nat /\ published.sample.id \in Nat /\ fetch.id \in Nat
        BY <1>4, <2>4 DEF SyncInv, FetchInv, TypeOK, SampleType, newest, IsNew, Never
      <3>2. /\ sampleId' = d.id /\ pending'.id = d.id
            /\ published'.sample.id = published.sample.id
        BY <1>3, <1>5, <1>6, <2>4
      <3>3. fetch'.id <= d.id /\ fetch' # NoSample
        BY <1>3, <1>4, <1>5, <2>4, <3>1, NoSampleType DEF NoFetch, Never
      <3>4. QED
        BY <1>4, <2>1, <2>4, <3>1, <3>2, <3>3 DEF FetchInv, NoFetch
    <2>5. QED
      BY <2>2, <2>3, <2>4
  <1>13. WaterGoesWithAir' /\ (~Auxiliary => published'.water = Never)
    BY <1>6 DEF SyncInv, WaterGoesWithAir
  <1>14. QED
    BY <1>7, <1>8, <1>11, <1>12, <1>13 DEF SyncInv

\* An update handled never has an older sample than the newest before it.
LEMMA HandleUpdateGrows ==
  ASSUME SyncInv, HandleUpdate
  PROVE  newest <= newest'
  <1> DEFINE d == Head(updates)
  <1>1. updates # <<>> /\ updates \in Seq(DataType)
    BY DEF SyncInv, TypeOK, HandleUpdate
  <1>2. d \in DataType /\ d = updates[1] /\ 1 \in 1..Len(updates)
    BY <1>1
  <1>3. newest <= d.id /\ newest \in Nat
    BY <1>2 DEF SyncInv, QueueInv, TypeOK, newest, SampleType, Never
  <1>4. CASE Auxiliary
    BY <1>3, <1>4 DEF HandleUpdate, newest
  <1>5. CASE ~Auxiliary
    BY <1>3, <1>5 DEF HandleUpdate, Shown, newest, Published, SampleOf
  <1>6. QED
    BY <1>4, <1>5

\* The fetch always publishes the newest sample.
LEMMA FetchDoneInv ==
  ASSUME SyncInv, NEW gotWater \in BOOLEAN, FetchDone(gotWater)
  PROVE  /\ SyncInv'
         /\ Auxiliary /\ UNCHANGED sampleId
         /\ published.sample.id < published'.sample.id
         /\ published'.sample.id = sampleId
  <1> DEFINE sample == Chosen
             water  == IF gotWater THEN sample.id ELSE Never
  <1>1. Auxiliary /\ ~NoFetch
    BY DEF FetchDone, SyncInv, FetchInv
  <1>2. sample \in SampleType /\ sample.id = sampleId /\ Whole(sample)
    BY <1>1 DEF SyncInv, TypeOK, FetchInv, Chosen
  <1>3. /\ published' = Published(sample, published.missing, water)
        /\ fetch' = NoSample
        /\ UNCHANGED <<decoderVars, updates, sampleId, pending>>
    BY <1>2 DEF FetchDone
  <1>4. water \in {Never} \cup 1..MaxTime /\ published.missing \in BOOLEAN
    BY <1>2 DEF SyncInv, TypeOK
  <1> HIDE DEF sample, water
  <1>5. /\ published' \in [ sample  : SampleType, missing : BOOLEAN,
                            water : {Never} \cup 1..MaxTime,
                            faults : SUBSET {"air", "room"} ]
        /\ published'.sample = sample /\ published'.water = water
    BY <1>2, <1>3, <1>4, PublishedType
  <1>6. DecoderInv' /\ data' = data
    BY <1>3
    DEF SyncInv, decoderVars, DecoderInv, DecoderTypeOK, ModeInv, PairInv,
        DecodedSampleIsWhole, ForeignOnlyAfterMissedRequest
  <1>7. TypeOK'
    BY <1>3, <1>5, <1>6, NoSampleType DEF SyncInv, TypeOK, DecoderInv
  <1>8. newest' = newest
    BY <1>1, <1>3 DEF newest
  <1>9. QueueInv'
    BY <1>3, <1>6, <1>8 DEF SyncInv, QueueInv
  <1>10. /\ sampleId \in Nat /\ published.sample.id \in Nat
         /\ published.sample.id < sampleId
    BY <1>1 DEF SyncInv, FetchInv, TypeOK, SampleType, Never
  <1>11. FetchInv'
    BY <1>1, <1>2, <1>3, <1>5, <1>10, NoSampleType DEF SyncInv, FetchInv, NoFetch, Never
  <1>12. WaterGoesWithAir'
    BY <1>5 DEF WaterGoesWithAir, water
  <1>13. QED
    BY <1>1, <1>2, <1>3, <1>5, <1>6, <1>7, <1>9, <1>10, <1>11, <1>12 DEF SyncInv

LEMMA NextSyncInv == SyncInv /\ [Next]_vars => SyncInv'
  <1>1. ASSUME SyncInv, UNCHANGED vars
        PROVE  SyncInv'
    BY <1>1
    DEF vars, syncVars, decoderVars, SyncInv, TypeOK, DecoderInv, DecoderTypeOK, ModeInv,
        PairInv, DecodedSampleIsWhole, ForeignOnlyAfterMissedRequest, QueueInv, newest,
        FetchInv, NoFetch, WaterGoesWithAir
  <1>2. QED
    BY <1>1, HearFrameInv, BusOnlyInv, HandleUpdateInv, FetchDoneInv DEF Next

THEOREM SyncInvariant == Safety => []SyncInv
  <1>1. QED
    BY InitSyncInv, NextSyncInv, PTL DEF Safety

\* Every variable of decoder and coordinator keeps its type.
THEOREM TypeCorrect == Safety => []TypeOK
  <1>1. SyncInv => TypeOK
    BY DEF SyncInv
  <1>2. QED
    BY <1>1, SyncInvariant, PTL

\* The entities only ever show one whole sample, with or without the auxiliary
\* client, whichever updates arrive while a sample waits.
THEOREM PublishesWholeSamples == Safety => []PublishedSampleIsWhole
  <1>1. SyncInv => PublishedSampleIsWhole
    BY DEF SyncInv, FetchInv, PublishedSampleIsWhole
  <1>2. QED
    BY <1>1, SyncInvariant, PTL

\* The water temperatures shown belong to the air sample shown.
THEOREM PublishesWaterWithAir == Safety => []WaterGoesWithAir
  <1>1. SyncInv => WaterGoesWithAir
    BY DEF SyncInv
  <1>2. QED
    BY <1>1, SyncInvariant, PTL

\* A sample waits exactly while a fetch runs, so none is forgotten.
THEOREM NoSampleIsForgotten == Safety => []WaitingIsFetched
  <1>1. SyncInv => WaitingIsFetched
    BY DEF SyncInv, FetchInv, WaitingIsFetched, Settled, newest
  <1>2. QED
    BY <1>1, SyncInvariant, PTL

\* Water temperatures change only when a newer sample goes on show.
THEOREM WaterFollowsSample == Safety => WaterChangesWithSample
  <1> DEFINE A == published'.water # published.water =>
                      published'.sample.id > published.sample.id
  <1>1. SyncInv /\ [Next]_vars => [A]_vars
    <2> SUFFICES ASSUME SyncInv, [Next]_vars
                 PROVE  A
      OBVIOUS
    <2>1. CASE HandleUpdate
      BY <2>1 DEF HandleUpdate, KeptWater, Published
    <2>2. ASSUME NEW gotWater \in BOOLEAN, FetchDone(gotWater)
          PROVE  A
      <3>1. published.sample.id < published'.sample.id
        BY <2>2, FetchDoneInv
      <3>2. published.sample.id \in Nat /\ published'.sample.id \in Nat
        BY NextSyncInv DEF SyncInv, TypeOK, SampleType, Never
      <3>3. QED
        BY <3>1, <3>2
    <2>3. QED
      BY <2>1, <2>2 DEF Next, HearFrame, BusOnly, syncVars, vars
  <1>2. QED
    BY <1>1, SyncInvariant, PTL DEF Safety, WaterChangesWithSample

\* Every step of decoder, coordinator and fetch is a step of the sample feed or
\* changes nothing of it: samples on show are never skipped back.
THEOREM RefinesFeed == Safety => Feed!FeedSafety
  <1>1. Init => Feed!FeedInit
    <2> SUFFICES ASSUME Init PROVE Feed!FeedInit
      OBVIOUS
    <2>2. sampleId = Never
      BY DEF Init, SyncInit
    <2>3. published = Published(NoSample, FALSE, Never)
      BY DEF Init, SyncInit
    <2>4. Published(NoSample, FALSE, Never).sample = NoSample
      BY DEF Published
    <2>5. published.sample.id = Never
      BY <2>3, <2>4, NoSampleType
    <2>6. QED
      BY <2>2, <2>5 DEF Feed!FeedInit, newest, Never
  <1>2. SyncInv /\ [Next]_vars => [Feed!FeedNext]_(Feed!feedVars)
    <2> SUFFICES ASSUME SyncInv, [Next]_vars
                 PROVE  [Feed!FeedNext]_(Feed!feedVars)
      OBVIOUS
    <2>1. SyncInv'
      BY NextSyncInv
    <2>2. /\ newest \in Nat /\ newest' \in 0..MaxTime
          /\ published.sample.id \in Nat /\ published'.sample.id \in Nat
      BY <2>1, DecoderAssumption DEF SyncInv, TypeOK, SampleType, newest, Never
    <2>3. CASE UNCHANGED <<sampleId, published>>
      BY <2>3 DEF Feed!feedVars, newest
    <2>4. CASE HandleUpdate
      <3>1. published'.sample = IF Auxiliary THEN published.sample
                                             ELSE SampleOf(Head(updates))
        BY <2>4 DEF HandleUpdate, Shown, Published
      <3>2. newest <= newest'
        BY <2>1, <2>2, <2>4, HandleUpdateGrows
      <3>3. CASE Auxiliary
        BY <2>2, <3>1, <3>2, <3>3
        DEF Feed!FeedNext, Feed!Arrive, Feed!feedVars
      <3>4. CASE ~Auxiliary
        BY <2>2, <3>2, <3>4
        DEF Feed!FeedNext, Feed!Arrive, Feed!feedVars, newest
      <3>5. QED
        BY <3>3, <3>4
    <2>5. ASSUME NEW gotWater \in BOOLEAN, FetchDone(gotWater)
          PROVE  Feed!Show
      BY <2>5, FetchDoneInv DEF Feed!Show, newest
    <2>6. QED
      BY <2>3, <2>4, <2>5
      DEF Next, HearFrame, BusOnly, syncVars, vars, Feed!FeedNext
  <1>3. QED
    BY <1>1, <1>2, SyncInvariant, PTL DEF Safety, Feed!FeedSafety

-----------------------------------------------------------------------------
\* The decoder beside the coordinator.

\* Every step of the whole is a step of the decoder, or none.
LEMMA DecoderStepsOn == [Next]_vars => [DecoderNext]_decoderVars
  <1>1. ASSUME NEW t \in 1..MaxTime, HearFrame(t) PROVE DecoderNext
    BY <1>1 DEF HearFrame, DecoderNext
  <1>2. ASSUME NEW gotWater \in BOOLEAN, FetchDone(gotWater) PROVE UNCHANGED decoderVars
    BY <1>2 DEF FetchDone
  <1> QED
    BY <1>1, <1>2 DEF Next, BusOnly, HandleUpdate, DecoderNext, vars

\* The coordinator never acts on the decoder: together they do nothing that the
\* decoder could not do by itself.
THEOREM DecoderIsItsOwn == Safety => DecoderSpec
  <1>1. Init => DecoderInit
    BY DEF Init
  <1> QED
    BY <1>1, DecoderStepsOn, PTL DEF Safety, DecoderSpec

\* A frame is heard after everything the decoder holds.
LEMMA FrameTime ==
  ASSUME DecoderInv, NEW t \in 1..MaxTime, Decode(t)
  PROVE  now \in Nat /\ t > now /\ now' = t /\ data.id <= now /\ data.id \in Nat
  <1>1. now \in Nat /\ t > now /\ now' = t
    BY DecoderAssumption
    DEF Decode, HearRequest, HearAnswer, HearLegacyAir, HearLegacySlow, HearOther, Hear,
        DecoderInv, DecoderTypeOK
  <1>2. data.id <= now /\ data.id \in Nat
    BY DEF DecoderInv, DecoderTypeOK, ModeInv, DataType, Never
  <1> QED
    BY <1>1, <1>2

\* The parts of SnapshotReplacesWhole, for one frame heard in snapshot mode.
LEMMA SnapshotFrame ==
  ASSUME DecoderInv, snapshotMode, NEW t \in 1..MaxTime, Decode(t)
  PROVE  /\ snapshotMode'
         /\ data'.temp # data.temp => data'.id = now' /\ data'.id > data.id
  <1> USE DEF Never
  <1>1. now \in Nat /\ t > now /\ now' = t /\ data.id <= now /\ data.id \in Nat
    BY FrameTime
  <1>2. AfterExpiry(t) = data \/ AfterExpiry(t).id = t
    BY <1>1, AfterExpiryInv DEF AfterExpiry
  <1>3. ASSUME data' = AfterExpiry(t), UNCHANGED snapshotMode
        PROVE  /\ snapshotMode'
               /\ data'.temp # data.temp => data'.id = now' /\ data'.id > data.id
    BY <1>1, <1>2, <1>3
  <1>4. ASSUME NEW words \in SnapshotWords(t) \cup ForeignWords, HearAnswer(t, words)
        PROVE  /\ snapshotMode'
               /\ data'.temp # data.temp => data'.id = now' /\ data'.id > data.id
    <2>1. CASE Paired(t)
      <3>1. data'.id = t /\ snapshotMode'
        BY <1>4, <2>1 DEF HearAnswer
      <3> QED
        BY <1>1, <3>1
    <2>2. CASE ~Paired(t)
      BY <1>3, <1>4, <2>2 DEF HearAnswer
    <2> QED
      BY <2>1, <2>2
  <1> QED
    BY <1>3, <1>4 DEF Decode, HearRequest, HearLegacyAir, HearLegacySlow, HearOther, Legacy

\* The mode is never left, and while it lasts temperatures only change with the
\* sample number: SnapshotReplacesWhole of SnapshotDecoder.tla.
THEOREM ReplacesWhole == DecoderSpec => SnapshotReplacesWhole
  <1> DEFINE A == snapshotMode =>
                    /\ snapshotMode'
                    /\ data'.temp # data.temp => data'.id = now' /\ data'.id > data.id
  <1>1. DecoderInv /\ [DecoderNext]_decoderVars => [A]_decoderVars
    <2> SUFFICES ASSUME DecoderInv, DecoderNext PROVE A
      OBVIOUS
    <2>1. CASE Unheard
      BY <2>1 DEF Unheard, MissRequest, MissAnswer
    <2>2. ASSUME NEW t \in 1..MaxTime, Decode(t) PROVE A
      BY <2>2, SnapshotFrame
    <2> QED
      BY <2>1, <2>2 DEF DecoderNext
  <1> QED
    BY <1>1, DecoderInvariant, PTL DEF DecoderSpec, SnapshotReplacesWhole

-----------------------------------------------------------------------------
\* The alarms on show.

\* A snapshot sample goes with a room_sensor_missing flag.
Fits(s, missing) ==
    s.snapshot => /\ s.id # Never
                  /\ s.temp["air"] # Absent
                  /\ s.temp["room"] = Absent => missing
                  /\ s.temp["room"] = Fault => ~missing

\* A sample kept goes with every flag that comes or came with its number.
FlagsFit(s) ==
    /\ s.id = newest => Fits(s, published.missing)
    /\ s.id = data.id => Fits(s, data.missing)
    /\ \A i \in 1..Len(updates) : s.id = updates[i].id => Fits(s, updates[i].missing)

\* So do the samples in the queue, for the updates behind them.
QueueFits ==
    \A i \in 1..Len(updates) :
        /\ updates[i].id = data.id => Fits(updates[i], data.missing)
        /\ \A j \in i..Len(updates) :
              updates[i].id = updates[j].id => Fits(updates[i], updates[j].missing)

FlagInv ==
    /\ Fits(data, data.missing)
    /\ FlagsFit(pending) /\ FlagsFit(fetch) /\ FlagsFit(published.sample)
    /\ QueueFits
    /\ published.faults = SensorFaults(published.sample, published.missing)
    /\ ~Auxiliary => pending = NoSample

LEMMA NoSampleFits == FlagsFit(NoSample) /\ FlagsFit(NoSample)'
  BY DEF FlagsFit, Fits, NoSample, SampleOf, NoData

LEMMA FitsOfSample ==
  ASSUME NEW d \in DataType, NEW missing
  PROVE  Fits(SampleOf(d), missing) <=> Fits(d, missing)
  BY DEF Fits, SampleOf

LEMMA FaultsOfPublished ==
  ASSUME NEW s, NEW missing, NEW water
  PROVE  Published(s, missing, water).faults = SensorFaults(s, missing)
  BY DEF Published

LEMMA InitFlags == Init => FlagInv
  <1> SUFFICES ASSUME Init PROVE FlagInv
    OBVIOUS
  <1>1. /\ data.snapshot = FALSE /\ updates = <<>> /\ pending = NoSample /\ fetch = NoSample
        /\ published = Published(NoSample, FALSE, Never)
    BY DEF Init, DecoderInit, NoData, SyncInit
  <1>2. /\ published.sample = NoSample /\ published.missing = FALSE
        /\ published.faults = SensorFaults(NoSample, FALSE)
    BY <1>1 DEF Published
  <1>3. QueueFits
    BY <1>1 DEF QueueFits
  <1>4. FlagsFit(pending) /\ FlagsFit(fetch) /\ FlagsFit(published.sample)
    BY <1>1, <1>2, NoSampleFits
  <1>5. published.faults = SensorFaults(published.sample, published.missing)
    BY <1>2
  <1> QED
    BY <1>1, <1>3, <1>4, <1>5 DEF FlagInv, Fits

\* What a frame leaves fits, and changes the flag only under a new number.
LEMMA FrameFits ==
  ASSUME DecoderInv, Fits(data, data.missing), NEW t \in 1..MaxTime, Decode(t)
  PROVE  /\ t > data.id
         /\ \/ AfterExpiry(t) = data
            \/ /\ AfterExpiry(t).id = t
               /\ \A missing \in BOOLEAN : Fits(AfterExpiry(t), missing)
         /\ Fits(AfterExpiry(t), AfterExpiry(t).missing)
         /\ Fits(data', data'.missing)
         /\ \/ data' = AfterExpiry(t)
            \/ data'.id = t
            \/ ~data.snapshot /\ data'.id = data.id /\ data'.missing = data.missing
  <1> USE DEF Never
  <1>1. now \in Nat /\ t > now /\ now' = t /\ data.id <= now /\ data.id \in Nat
    BY FrameTime
  <1>2. data \in DataType /\ (snapshotMode <=> data.snapshot)
    BY DEF DecoderInv, DecoderTypeOK, ModeInv
  <1>3. \/ AfterExpiry(t) = data
        \/ /\ AfterExpiry(t).id = t
           /\ \A missing \in BOOLEAN : Fits(AfterExpiry(t), missing)
    <2>1. CASE Expired(t)
      <3>1. /\ AfterExpiry(t).id = t
            /\ \A k \in Keys : AfterExpiry(t).temp[k] = Cleared
        BY <1>1, <2>1, AfterExpiryInv
      <3> QED
        BY <3>1 DEF Fits, Keys, Cleared, Absent, Fault
    <2>2. CASE ~Expired(t)
      BY <2>2 DEF AfterExpiry
    <2> QED
      BY <2>1, <2>2
  <1>4. AfterExpiry(t) \in DataType
    BY <1>1, AfterExpiryInv
  <1>5. Fits(AfterExpiry(t), AfterExpiry(t).missing)
    BY <1>3, <1>4 DEF DataType
  <1> DEFINE Goal == /\ Fits(data', data'.missing)
                     /\ \/ data' = AfterExpiry(t)
                        \/ data'.id = t
                        \/ ~data.snapshot /\ data'.id = data.id /\ data'.missing = data.missing
  <1>6. ASSUME data' = AfterExpiry(t) PROVE Goal
    BY <1>5, <1>6
  <1>7. ASSUME NEW words \in SnapshotWords(t) \cup ForeignWords, HearAnswer(t, words)
        PROVE  Goal
    <2>1. CASE Paired(t)
      <3>1. data' = [temp |-> words, id |-> t, snapshot |-> TRUE,
                     missing |-> words["room"] = Absent]
        BY <1>7, <2>1 DEF HearAnswer
      <3>2. words["air"] # Absent
        BY DecoderAssumption DEF SnapshotWords, ForeignWords, Keys, Absent, Fault, Foreign
      <3>3. data'.id = t /\ data'.temp = words /\ t # 0
        BY <3>1, <1>1
      <3>4. data'.missing = (words["room"] = Absent)
        BY <3>1
      <3>5. words["room"] = Fault => words["room"] # Absent
        BY DEF Fault, Absent
      <3>6. Fits(data', data'.missing)
        BY <3>2, <3>3, <3>4, <3>5, Zenon DEF Fits
      <3> QED
        BY <3>3, <3>6
    <2>2. CASE ~Paired(t)
      BY <1>6, <1>7, <2>2 DEF HearAnswer
    <2> QED
      BY <2>1, <2>2
  <1>8. ASSUME NEW reading \in {t, Fault}, HearLegacyAir(t, reading) PROVE Goal
    <2>1. CASE snapshotMode
      BY <1>6, <1>8, <2>1 DEF HearLegacyAir, Legacy
    <2>2. CASE ~snapshotMode
      <3>1. data'.id = t /\ ~data'.snapshot
        BY <1>2, <1>8, <2>2 DEF HearLegacyAir, Legacy, DataType
      <3> QED
        BY <3>1 DEF Fits
    <2> QED
      BY <2>1, <2>2
  <1>9. ASSUME NEW key \in {"room", "coil"}, NEW reading \in {t, Fault},
               HearLegacySlow(t, key, reading)
        PROVE  Goal
    <2>1. CASE snapshotMode
      BY <1>6, <1>9, <2>1 DEF HearLegacySlow, Legacy
    <2>2. CASE ~snapshotMode
      <3>1. ~data.snapshot /\ ~data'.snapshot /\ data'.id = data.id /\ data'.missing = data.missing
        BY <1>2, <1>9, <2>2 DEF HearLegacySlow, Legacy, DataType
      <3> QED
        BY <3>1 DEF Fits
    <2> QED
      BY <2>1, <2>2
  <1>10. Goal
    BY <1>6, <1>7, <1>8, <1>9 DEF Decode, HearRequest, HearOther
  <1> QED
    BY <1>1, <1>3, <1>5, <1>10

\* The flag changes only under a new number, and the updates a frame emits fit
\* the flags of those behind them.
LEMMA EmittedFits ==
  ASSUME SyncInv, FlagInv, NEW t \in 1..MaxTime, Decode(t)
  PROVE  /\ Fits(data', data'.missing)
         /\ data'.id = data.id => data'.missing = data.missing
         /\ \A i \in 1..Len(Emitted(t)) :
               /\ Emitted(t)[i].id = data.id => Emitted(t)[i].missing = data.missing
               /\ Emitted(t)[i].id = data'.id => Fits(Emitted(t)[i], data'.missing)
               /\ \A j \in i..Len(Emitted(t)) :
                     Emitted(t)[i].id = Emitted(t)[j].id =>
                         Fits(Emitted(t)[i], Emitted(t)[j].missing)
  <1>1. DecoderInv /\ Fits(data, data.missing)
    BY DEF SyncInv, FlagInv
  <1> DEFINE a == AfterExpiry(t)
  <1>2. /\ t > data.id
        /\ a = data \/ (a.id = t /\ \A missing \in BOOLEAN : Fits(a, missing))
        /\ Fits(a, a.missing) /\ Fits(data', data'.missing)
        /\ \/ data' = a
           \/ data'.id = t
           \/ ~data.snapshot /\ data'.id = data.id /\ data'.missing = data.missing
    BY <1>1, FrameFits
  <1>3. data.id \in Nat /\ data'.missing \in BOOLEAN
    BY <1>1, FrameTime, DecodeInv DEF DecoderInv, DecoderTypeOK, DataType
  <1>4. Emitted(t) = IF data' = a THEN <<data'>> ELSE <<a, data'>>
    BY DEF Emitted
  <1> HIDE DEF a
  <1>5. /\ a.id = data.id => a.missing = data.missing
        /\ data'.id = data.id => data'.missing = data.missing
    BY <1>2, <1>3
  <1>6. a.id = data'.id => Fits(a, data'.missing)
    <2>1. CASE data' = a
      BY <1>2, <2>1
    <2>2. CASE a.id = t /\ \A missing \in BOOLEAN : Fits(a, missing)
      BY <1>3, <2>2
    <2>3. CASE a = data /\ data'.id = t
      BY <1>2, <1>3, <2>3
    <2>4. CASE a = data /\ ~data.snapshot
      BY <2>4 DEF Fits
    <2> QED
      BY <1>2, <2>1, <2>2, <2>3, <2>4
  <1>7. CASE data' = a
    BY <1>2, <1>4, <1>5, <1>7
  <1>8. CASE data' # a
    <2>1. Len(Emitted(t)) = 2 /\ Emitted(t)[1] = a /\ Emitted(t)[2] = data'
      BY <1>4, <1>8
    <2> QED
      BY <1>2, <1>5, <1>6, <2>1
  <1> QED
    BY <1>7, <1>8

LEMMA HearFrameFlags ==
  ASSUME SyncInv, FlagInv, NEW t \in 1..MaxTime, HearFrame(t)
  PROVE  FlagInv'
  <1> DEFINE e == Emitted(t)
  <1>1. Decode(t) /\ updates' = updates \o e
        /\ UNCHANGED <<sampleId, pending, fetch, published>>
    BY DEF HearFrame
  <1>2. /\ e \in Seq(DataType) /\ data.id <= data'.id
        /\ \A i \in 1..Len(e) : data.id <= e[i].id
    BY <1>1, EmittedInv
  <1>3. /\ Fits(data', data'.missing)
        /\ data'.id = data.id => data'.missing = data.missing
        /\ \A i \in 1..Len(e) :
              /\ e[i].id = data.id => e[i].missing = data.missing
              /\ e[i].id = data'.id => Fits(e[i], data'.missing)
              /\ \A j \in i..Len(e) : e[i].id = e[j].id => Fits(e[i], e[j].missing)
    BY <1>1, EmittedFits
  <1>4. updates \in Seq(DataType) /\ data.id \in Nat /\ data'.id \in Nat
    BY <1>1, DecodeInv DEF SyncInv, TypeOK, DecoderInv, DecoderTypeOK, DataType, Never
  <1> HIDE DEF e
  <1>5. /\ Len(updates') = Len(updates) + Len(e)
        /\ \A i \in 1..Len(updates') :
              \/ i \in 1..Len(updates) /\ updates'[i] = updates[i]
              \/ /\ i > Len(updates)
                 /\ i - Len(updates) \in 1..Len(e) /\ updates'[i] = e[i - Len(updates)]
    BY <1>1, <1>2, <1>4
  <1>6. /\ \A i \in 1..Len(updates) : updates[i].id \in Nat /\ updates[i].id <= data.id
        /\ \A i \in 1..Len(e) : e[i].id \in Nat
    <2>1. \A d \in DataType : d.id \in Nat
      BY DEF DataType, Never
    <2> QED
      BY <1>2, <1>4, <2>1 DEF SyncInv, QueueInv
  \* What is not newer than the decoder's data meets no new flag.
  <1>7. ASSUME NEW s, s.id \in Nat, s.id <= data.id, s.id = data.id => Fits(s, data.missing)
        PROVE  /\ s.id = data'.id => Fits(s, data'.missing)
               /\ \A i \in 1..Len(e) : s.id = e[i].id => Fits(s, e[i].missing)
    BY <1>2, <1>3, <1>4, <1>6, <1>7
  <1>8. newest' = newest
    BY <1>1 DEF newest
  <1>9. ASSUME NEW s, s.id \in Nat, s.id <= data.id, FlagsFit(s)
        PROVE  /\ s.id = newest' => Fits(s, published'.missing)
               /\ s.id = data'.id => Fits(s, data'.missing)
               /\ \A i \in 1..Len(updates') : s.id = updates'[i].id => Fits(s, updates'[i].missing)
    <2>1. /\ s.id = data'.id => Fits(s, data'.missing)
          /\ \A i \in 1..Len(e) : s.id = e[i].id => Fits(s, e[i].missing)
      BY <1>7, <1>9 DEF FlagsFit
    <2> QED
      BY <1>1, <1>5, <1>8, <1>9, <2>1 DEF FlagsFit
  <1>10. /\ pending.id \in Nat /\ fetch.id \in Nat /\ published.sample.id \in Nat
         /\ newest \in Nat /\ newest <= data.id
    BY DEF SyncInv, TypeOK, SampleType, QueueInv, newest, Never
  <1>11. pending.id <= data.id /\ fetch.id <= data.id /\ published.sample.id <= data.id
    <2>1. CASE Auxiliary
      BY <1>4, <1>10, <2>1 DEF SyncInv, FetchInv, newest
    <2>2. CASE ~Auxiliary
      <3>1. pending.id = 0 /\ fetch.id = 0 /\ published.sample.id = newest
        BY <2>2, NoSampleType DEF SyncInv, FetchInv, FlagInv, NoFetch, newest, Never
      <3> QED
        BY <3>1, <1>4, <1>10
    <2> QED
      BY <2>1, <2>2
  <1>12. FlagsFit(pending)' /\ FlagsFit(fetch)' /\ FlagsFit(published.sample)'
    BY <1>1, <1>9, <1>10, <1>11 DEF FlagInv, FlagsFit
  <1>13. QueueFits'
    <2>1. ASSUME NEW i \in 1..Len(updates'), updates'[i].id = data'.id
          PROVE  Fits(updates'[i], data'.missing)
      <3>1. CASE i \in 1..Len(updates) /\ updates'[i] = updates[i]
        BY <1>6, <1>7, <2>1, <3>1 DEF FlagInv, QueueFits
      <3>2. CASE i - Len(updates) \in 1..Len(e) /\ updates'[i] = e[i - Len(updates)]
        BY <1>3, <2>1, <3>2
      <3> QED
        BY <1>5, <3>1, <3>2
    <2>2. ASSUME NEW i \in 1..Len(updates'), NEW j \in i..Len(updates'),
                 updates'[i].id = updates'[j].id
          PROVE  Fits(updates'[i], updates'[j].missing)
      <3>1. j \in 1..Len(updates') /\ i \in Nat /\ j \in Nat /\ i <= j
            /\ Len(updates) \in Nat /\ Len(e) \in Nat
        BY <1>2, <1>4, <1>5
      <3>2. CASE i \in 1..Len(updates) /\ j \in 1..Len(updates)
        <4>1. updates'[i] = updates[i] /\ updates'[j] = updates[j] /\ j \in i..Len(updates)
          BY <1>5, <3>1, <3>2
        <4> QED
          BY <2>2, <3>2, <4>1 DEF FlagInv, QueueFits
      <3>3. CASE i \in 1..Len(updates) /\ j > Len(updates)
        <4>1. /\ updates'[i] = updates[i]
              /\ j - Len(updates) \in 1..Len(e) /\ updates'[j] = e[j - Len(updates)]
          BY <1>5, <3>1, <3>3
        <4> QED
          BY <1>6, <1>7, <2>2, <3>3, <4>1 DEF FlagInv, QueueFits
      <3>4. CASE i > Len(updates)
        <4>1. /\ i - Len(updates) \in 1..Len(e) /\ updates'[i] = e[i - Len(updates)]
              /\ j - Len(updates) \in (i - Len(updates))..Len(e)
              /\ updates'[j] = e[j - Len(updates)]
          BY <1>5, <3>1, <3>4
        <4> QED
          BY <1>3, <2>2, <4>1
      <3> QED
        BY <1>5, <3>1, <3>2, <3>3, <3>4
    <2> QED
      BY <2>1, <2>2 DEF QueueFits
  <1> QED
    BY <1>1, <1>3, <1>12, <1>13 DEF FlagInv

LEMMA HandleUpdateFlags ==
  ASSUME SyncInv, FlagInv, HandleUpdate
  PROVE  FlagInv'
  <1> DEFINE d == Head(updates)
             shown == IF Auxiliary THEN published.sample ELSE SampleOf(d)
  <1>1. updates # <<>> /\ updates \in Seq(DataType)
    BY DEF SyncInv, TypeOK, HandleUpdate
  <1>2. /\ d \in DataType /\ d = updates[1] /\ 1 \in 1..Len(updates)
        /\ Len(updates) \in Nat
    BY <1>1
  <1>3. /\ UNCHANGED data
        /\ published' = Published(shown, d.missing, published.water)
        /\ Auxiliary /\ IsNew(d) =>
              /\ sampleId' = d.id /\ pending' = SampleOf(d)
              /\ fetch' = IF NoFetch THEN SampleOf(d) ELSE fetch
        /\ ~(Auxiliary /\ IsNew(d)) => UNCHANGED <<sampleId, pending, fetch>>
    BY DEF HandleUpdate, Shown, KeptWater, decoderVars
  <1>4. /\ Len(updates') = Len(updates) - 1
        /\ \A i \in 1..Len(updates') : /\ i + 1 \in 1..Len(updates)
                                       /\ updates'[i] = updates[i + 1]
    BY <1>1, <1>2 DEF HandleUpdate
  <1>5. newest <= d.id /\ newest \in Nat /\ d.id \in Nat
    BY <1>2 DEF SyncInv, QueueInv, TypeOK, newest, SampleType, DataType, Never
  <1>6. SampleOf(d) \in SampleType /\ SampleOf(d).id = d.id
    BY <1>2, SampleOfType
  <1>7. /\ published'.sample = shown /\ published'.missing = d.missing
        /\ published'.faults = SensorFaults(shown, d.missing)
    BY <1>3 DEF Published
  <1> DEFINE Fitting(s) == /\ s.id = d.id => Fits(s, d.missing)
                           /\ s.id = data.id => Fits(s, data.missing)
                           /\ \A i \in 1..Len(updates') :
                                 s.id = updates'[i].id => Fits(s, updates'[i].missing)
  <1>8. \A s : FlagsFit(s) => Fitting(s)
    BY <1>2, <1>4 DEF FlagsFit
  <1>9. Fitting(SampleOf(d))
    <2>1. /\ d.id = d.id => Fits(d, d.missing)
          /\ d.id = data.id => Fits(d, data.missing)
          /\ \A j \in 1..Len(updates) : d.id = updates[j].id => Fits(d, updates[j].missing)
      BY <1>2 DEF FlagInv, QueueFits
    <2>2. \A missing : Fits(SampleOf(d), missing) <=> Fits(d, missing)
      BY <1>2, FitsOfSample
    <2> QED
      BY <1>4, <1>6, <2>1, <2>2
  <1>10. Fitting(pending) /\ Fitting(fetch) /\ Fitting(published.sample)
    BY <1>8 DEF FlagInv
  <1>11. newest' = d.id
    <2>1. CASE Auxiliary /\ IsNew(d)
      BY <1>3, <2>1 DEF newest
    <2>2. CASE Auxiliary /\ ~IsNew(d)
      BY <1>3, <1>5, <2>2 DEF newest, IsNew, Never
    <2>3. CASE ~Auxiliary
      BY <1>6, <1>7, <2>3 DEF newest
    <2> QED
      BY <2>1, <2>2, <2>3
  <1> HIDE DEF d
  <1>12. Fitting(pending') /\ Fitting(fetch') /\ Fitting(shown)
    BY <1>3, <1>9, <1>10
  <1> HIDE DEF shown
  <1>13. FlagsFit(pending)' /\ FlagsFit(fetch)' /\ FlagsFit(published.sample)'
    BY <1>3, <1>7, <1>11, <1>12 DEF FlagsFit
  <1>14. QueueFits'
    <2>1. ASSUME NEW i \in 1..Len(updates'), NEW j \in i..Len(updates')
          PROVE  /\ i + 1 \in 1..Len(updates) /\ updates'[i] = updates[i + 1]
                 /\ j + 1 \in (i + 1)..Len(updates) /\ updates'[j] = updates[j + 1]
      BY <1>2, <1>4
    <2>2. \A i \in 1..Len(updates') : updates'[i].id = data'.id => Fits(updates'[i], data'.missing)
      BY <1>3, <1>4 DEF FlagInv, QueueFits
    <2>3. \A i \in 1..Len(updates') : \A j \in i..Len(updates') :
              updates'[i].id = updates'[j].id => Fits(updates'[i], updates'[j].missing)
      BY <2>1 DEF FlagInv, QueueFits
    <2> QED
      BY <2>2, <2>3 DEF QueueFits
  <1>15. ~Auxiliary => pending' = NoSample
    BY <1>3 DEF FlagInv
  <1> QED
    BY <1>3, <1>7, <1>13, <1>14, <1>15 DEF FlagInv

\* The sample the fetch publishes is one of those kept.
LEMMA FetchDoneFlags ==
  ASSUME SyncInv, FlagInv, NEW gotWater \in BOOLEAN, FetchDone(gotWater)
  PROVE  FlagInv'
  <1>1. /\ published'.sample = Chosen /\ published'.missing = published.missing
        /\ published'.faults = SensorFaults(Chosen, published.missing)
        /\ fetch' = NoSample /\ UNCHANGED <<data, updates, sampleId, pending>>
    BY DEF FetchDone, Published, decoderVars
  <1>2. newest' = newest
    BY <1>1, FetchDoneInv DEF newest
  <1>3. Chosen \in {fetch, pending}
    BY DEF Chosen
  <1>4. \A s : FlagsFit(s) =>
                  /\ s.id = newest' => Fits(s, published'.missing)
                  /\ s.id = data'.id => Fits(s, data'.missing)
                  /\ \A i \in 1..Len(updates') :
                        s.id = updates'[i].id => Fits(s, updates'[i].missing)
    BY <1>1, <1>2 DEF FlagsFit
  <1>5. FlagsFit(pending)' /\ FlagsFit(published.sample)'
    BY <1>1, <1>3, <1>4 DEF FlagInv, FlagsFit
  <1>6. FlagsFit(fetch)'
    BY <1>1, NoSampleFits DEF FlagsFit
  <1>7. QueueFits'
    BY <1>1 DEF FlagInv, QueueFits
  <1> QED
    BY <1>1, <1>5, <1>6, <1>7 DEF FlagInv

LEMMA NextFlags == SyncInv /\ FlagInv /\ [Next]_vars => FlagInv'
  <1>1. ASSUME SyncInv, FlagInv, UNCHANGED <<data, syncVars>>
        PROVE  FlagInv'
    BY <1>1 DEF FlagInv, FlagsFit, QueueFits, newest, syncVars
  <1>2. ASSUME SyncInv, FlagInv, BusOnly PROVE FlagInv'
    BY <1>1, <1>2 DEF BusOnly, Unheard, MissRequest, MissAnswer
  <1> QED
    BY <1>1, <1>2, HearFrameFlags, HandleUpdateFlags, FetchDoneFlags DEF Next, vars, decoderVars

\* Once no sample waits, every sensor fault on show is one of the sample on show
\* and none is missing: SettledAlarms of TemperatureSync.tla.
THEOREM AlarmsSettle == Safety => []SettledAlarms
  <1>1. SyncInv /\ FlagInv => SettledAlarms
    <2> SUFFICES ASSUME SyncInv, FlagInv, Settled, published.sample.snapshot,
                        NEW k \in {"air", "room"}
                 PROVE  /\ published.sample.temp[k] = Fault => k \in published.faults
                        /\ published.sample.temp[k] > 0 \/ published.sample.temp[k] = Absent =>
                              k \notin published.faults
      BY DEF SettledAlarms, AlarmsFitSample
    <2>1. Fits(published.sample, published.missing)
      BY DEF FlagInv, FlagsFit, Settled
    <2>2. /\ published.sample.id # Never
          /\ published.sample.temp["air"] # Absent
          /\ published.sample.temp["room"] = Absent => published.missing
          /\ published.sample.temp["room"] = Fault => ~published.missing
      BY <2>1 DEF Fits
    <2>3. published.faults = {f \in {"air", "room"} : ~IsNumber(published.sample.temp[f])}
                                \ (IF published.missing THEN {"room"} ELSE {})
      BY <2>2 DEF FlagInv, SensorFaults
    <2> QED
      BY <2>2, <2>3 DEF IsNumber, Fault, Absent, Foreign
  <1> QED
    BY <1>1, InitFlags, NextFlags, SyncInvariant, PTL DEF Safety
=============================================================================
