-------------------------- MODULE SnapshotDecoder --------------------------
(***************************************************************************)
(* The temperature side of DanthermDecoder (parser.py): how requests and   *)
(* answers overheard on the RS485 bus become the decoder's data.           *)
(*                                                                         *)
(* The decoder only listens.  The HAC1 snapshot (registers 180..209) is an *)
(* answer that does not name the registers it carries, so the decoder      *)
(* pairs it with the last request it heard, within RequestWindow seconds.  *)
(* Once a snapshot was accepted the slow legacy frames no longer count,    *)
(* and a snapshot older than Expiry seconds is cleared by the next frame.  *)
(*                                                                         *)
(* A temperature is abstracted to where it comes from: a positive reading  *)
(* is a number decoded from the frame heard at that time.  Time advances   *)
(* by a gap with every frame heard, since the decoder reads its clock once *)
(* per frame and does nothing between two frames.                          *)
(*                                                                         *)
(* An operator named X_Bug is the definition X with a plausible bug in it; *)
(* no specification uses it, PROJECT.json says which property it breaks.   *)
(***************************************************************************)
EXTENDS Integers

CONSTANTS
    RequestWindow,  \* seconds a request may wait for its answer (code: 2)
    Expiry,         \* seconds after which a snapshot is cleared (code: 30)
    Gaps,           \* possible times between two heard frames
    LossyBus,       \* may the decoder fail to hear frames?
    MaxTime         \* bound: the run hears no frame after this time

ASSUME DecoderAssumption ==
    /\ RequestWindow \in Nat
    /\ Expiry \in Nat
    /\ Gaps \subseteq Nat \ {0}
    /\ LossyBus \in BOOLEAN
    /\ MaxTime \in Nat

\* The sensor families of TEMPERATURE_KEYS: the four air sensors (one legacy
\* frame carries them together), the room sensor and the coil sensors.
Keys == {"air", "room", "coil"}

\* Readings that are no number of a frame, and the times that mean "never".
Unset   == 0    \* the key has not been decoded yet
Fault   == -1   \* the unit's fault word, or a value out of range
Absent  == -2   \* no HRC2 remote: the room register holds no room value
Cleared == -3   \* set to None because the snapshot expired
Foreign == -4   \* a word of another register block, taken for a temperature
Never   == 0

Readings == {Unset, Fault, Absent, Cleared, Foreign} \cup 1..MaxTime

\* What isinstance(value, (int, float)) sees.
IsNumber(r) == r > 0 \/ r = Foreign

VARIABLES
    now,            \* clock of the last frame heard
    snapshotMode,   \* _snapshot_mode
    snapshotAt,     \* _snapshot_at
    requestAt,      \* _snapshot_request_at
    data,           \* the temperature keys of DanthermDecoder.data
    bus             \* the RS485 bus itself: the block being asked for, and
                    \* when a request for another block last went unheard

decoderVars == <<now, snapshotMode, snapshotAt, requestAt, data, bus>>

Blocks == {"snapshot", "other"}

DataType ==
    [ temp     : [Keys -> Readings],
      id       : {Never} \cup 1..MaxTime,   \* temperature_sample_monotonic
      snapshot : BOOLEAN,                   \* temperature_source is the HAC1
      missing  : BOOLEAN ]                  \* room_sensor_missing

NoData == [ temp     |-> [k \in Keys |-> Unset],
            id       |-> Never,
            snapshot |-> FALSE,
            missing  |-> FALSE ]

DecoderInit ==
    /\ now = 0
    /\ snapshotMode = FALSE
    /\ snapshotAt = Never
    /\ requestAt = Never
    /\ data = NoData
    /\ bus = [asked |-> "nothing", missedAt |-> Never]

-----------------------------------------------------------------------------
\* What every frame does first.

Expired_OffByOne(t) == snapshotMode /\ t - snapshotAt > Expiry + 1
Expired(t) == snapshotMode /\ t - snapshotAt > Expiry

AfterExpiry_SameNumber(t) ==
    IF Expired(t) THEN [data EXCEPT !.temp = [k \in Keys |-> Cleared]] ELSE data
AfterExpiry(t) ==
    IF Expired(t)
    THEN [data EXCEPT !.temp = [k \in Keys |-> Cleared], !.id = t]
    ELSE data

Hear(t) ==
    /\ t \in {now + g : g \in Gaps}
    /\ t <= MaxTime
    /\ now' = t

KeepSnapshotTime(t) == snapshotAt' = IF Expired(t) THEN t ELSE snapshotAt

-----------------------------------------------------------------------------
\* Requests and answers.

RequestTime(t, block) == IF block = "snapshot" THEN t ELSE Never

\* A read request of eight bytes to the HAC1: any block but 180..209 clears
\* the pending request.
HearRequest(t, block) ==
    /\ Hear(t)
    /\ requestAt' = RequestTime(t, block)
    /\ data' = AfterExpiry(t)
    /\ KeepSnapshotTime(t)
    /\ bus' = [bus EXCEPT !.asked = block]
    /\ UNCHANGED snapshotMode

\* A request the CRC check or a reconnect drops.
MissRequest(block) ==
    /\ bus' = [ asked    |-> block,
                missedAt |-> IF block = "other" THEN now ELSE bus.missedAt ]
    /\ UNCHANGED <<now, snapshotMode, snapshotAt, requestAt, data>>

Paired_NoWindow(t) == requestAt # Never
Paired(t) == requestAt # Never /\ t - requestAt <= RequestWindow

\* The words an answer may carry.  A room value outside 5..40 degrees counts
\* as a missing HRC2, in the words of another block too.
SnapshotWords(t) ==
    { [k \in Keys |-> CASE k = "air"  -> air
                        [] k = "room" -> room
                        [] k = "coil" -> t] :
        air \in {t, Fault}, room \in {t, Fault, Absent} }

ForeignWords ==
    { [k \in Keys |-> IF k = "room" THEN room ELSE Foreign] : room \in {Foreign, Absent} }

\* The answer of 65 bytes, heard and paired or discarded.
HearAnswer(t, words) ==
    /\ bus.asked # "nothing"
    /\ words \in IF bus.asked = "snapshot" THEN SnapshotWords(t) ELSE ForeignWords
    /\ Hear(t)
    /\ requestAt' = Never
    /\ IF Paired(t)
       THEN /\ data' = [ temp     |-> words,
                         id       |-> t,
                         snapshot |-> TRUE,
                         missing  |-> words["room"] = Absent ]
            /\ snapshotAt' = t
            /\ snapshotMode' = TRUE
       ELSE /\ data' = AfterExpiry(t)
            /\ KeepSnapshotTime(t)
            /\ UNCHANGED snapshotMode
    /\ bus' = [bus EXCEPT !.asked = "nothing"]

\* The answer is lost, or the HAC1 never gives it.
MissAnswer ==
    /\ bus.asked # "nothing"
    /\ bus' = [bus EXCEPT !.asked = "nothing"]
    /\ UNCHANGED <<now, snapshotMode, snapshotAt, requestAt, data>>

-----------------------------------------------------------------------------
\* Frames of a bus without snapshots, and everything else.

\* What such a frame leaves: its values d count only without snapshots.
Legacy_Always(t, d) == d
Legacy(t, d) == IF snapshotMode THEN AfterExpiry(t) ELSE d

\* The four air temperatures in one frame: a sample of its own.
HearLegacyAir(t, reading) ==
    /\ Hear(t)
    /\ data' = Legacy(t, [data EXCEPT !.temp["air"] = reading, !.id = t])
    /\ KeepSnapshotTime(t)
    /\ UNCHANGED <<snapshotMode, requestAt, bus>>

\* Register 184 (room) or the block from 180 (coil): no new sample number.
HearLegacySlow(t, key, reading) ==
    /\ Hear(t)
    /\ data' = Legacy(t, [data EXCEPT !.temp[key] = reading])
    /\ KeepSnapshotTime(t)
    /\ UNCHANGED <<snapshotMode, requestAt, bus>>

\* Any other frame only lets an old snapshot expire.
HearOther(t) ==
    /\ Hear(t)
    /\ data' = AfterExpiry(t)
    /\ KeepSnapshotTime(t)
    /\ UNCHANGED <<snapshotMode, requestAt, bus>>

\* One frame heard by decode(), at time t.
Decode(t) ==
    \/ \E block \in Blocks : HearRequest(t, block)
    \/ \E words \in SnapshotWords(t) \cup ForeignWords : HearAnswer(t, words)
    \/ \E reading \in {t, Fault} : HearLegacyAir(t, reading)
    \/ HearLegacySlow(t, "room", t)
    \/ \E reading \in {t, Fault} : HearLegacySlow(t, "coil", reading)
    \/ HearOther(t)

\* What happens on the bus without the decoder hearing it.
Unheard ==
    /\ LossyBus
    /\ \/ \E block \in Blocks : MissRequest(block)
       \/ MissAnswer

DecoderNext ==
    \/ \E t \in 1..MaxTime : Decode(t)
    \/ Unheard

DecoderSpec == DecoderInit /\ [][DecoderNext]_decoderVars

-----------------------------------------------------------------------------
\* Properties.

\* Every variable keeps its type.
DecoderTypeOK ==
    /\ now \in 0..MaxTime
    /\ snapshotMode \in BOOLEAN
    /\ snapshotAt \in 0..MaxTime
    /\ requestAt \in 0..MaxTime
    /\ data \in DataType
    /\ bus \in [asked : Blocks \cup {"nothing"}, missedAt : 0..MaxTime]

\* A sample s is whole: its air readings come from the frame that numbered it,
\* and in a snapshot so do the room and coil readings (the legacy room and
\* coil frames have no number of their own).
Whole(s) ==
    /\ s.temp["air"] > 0 => s.temp["air"] = s.id
    /\ s.snapshot => \A k \in Keys : s.temp[k] > 0 => s.temp[k] = s.id

\* The decoder never holds a mixture of two snapshots, nor of a snapshot and
\* the legacy frames still heard beside it (parser.py decode, the
\* _snapshot_mode tests).
DecodedSampleIsWhole == Whole(data)

\* In snapshot mode, whatever frame was heard last, no temperature is older
\* than Expiry: the check at the head of decode clears it in time.
NoStaleSnapshot ==
    snapshotMode => \A k \in Keys : data.temp[k] > 0 => now - data.temp[k] <= Expiry

\* The words of another block pass for temperatures only in one way: the
\* request for that block was not heard, and it came within RequestWindow
\* before the answer.  A foreign block whose request was heard never does.
ForeignOnlyAfterMissedRequest ==
    (\E k \in Keys : data.temp[k] = Foreign) =>
        /\ bus.missedAt # Never
        /\ data.id - bus.missedAt <= RequestWindow \/ bus.missedAt > data.id

\* The mode is never left, and while it lasts the room and coil readings
\* change only together with the sample number.
SnapshotReplacesWhole ==
    [][snapshotMode => /\ snapshotMode'
                       /\ data'.temp # data.temp => data'.id = now' /\ data'.id > data.id
      ]_decoderVars
=============================================================================
