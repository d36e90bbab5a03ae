-------------------------- MODULE TemperatureSync --------------------------
(***************************************************************************)
(* How the coordinator (coordinator.py async_handle_update and             *)
(* _async_update_auxiliary) turns the decoder's updates into the data the  *)
(* entities show, when a Raspberry Pi also serves water temperatures.      *)
(*                                                                         *)
(* The decoder hands every change of its data to the coordinator: directly *)
(* for the TCP client, through the event loop's queue for the serial       *)
(* client, whose decoder runs in a thread of its own (client.py).  With    *)
(* the auxiliary client a new sample is held back until one HTTP fetch of  *)
(* the water temperatures has ended, and air and water are published       *)
(* together; other bus values are published at once beside the old sample. *)
(***************************************************************************)
EXTENDS SnapshotDecoder, Sequences

CONSTANTS
    Auxiliary,      \* is the auxiliary client configured?
    Threaded,       \* serial client (TRUE) or TCP client (FALSE)
    MaxQueue        \* bound on updates waiting in the event loop's queue

ASSUME SyncAssumption ==
    /\ Auxiliary \in BOOLEAN
    /\ Threaded \in BOOLEAN
    /\ MaxQueue \in Nat

VARIABLES
    updates,        \* updates of the decoder not yet handled
    sampleId,       \* _temperature_sample
    pending,        \* _pending_temperature_sample
    fetch,          \* the sample _temperature_task was started with, or none
    published       \* the coordinator's data

syncVars == <<updates, sampleId, pending, fetch, published>>
vars == <<decoderVars, syncVars>>

\* The keys of SAMPLE_KEYS in an update.
SampleOf(d) == [temp |-> d.temp, id |-> d.id, snapshot |-> d.snapshot]

SampleType == [ temp     : [Keys -> Readings],
                id       : {Never} \cup 1..MaxTime,
                snapshot : BOOLEAN ]

NoSample == SampleOf(NoData)

\* derive_alarm_values: the sensors whose fault alarm is on.  The coil sensors
\* have no such alarm.
SensorFaults_NoRemote(s, missing) ==
    IF s.snapshot /\ s.id # Never THEN {k \in {"air", "room"} : ~IsNumber(s.temp[k])} ELSE {}
SensorFaults(s, missing) ==
    IF s.snapshot /\ s.id # Never
    THEN {k \in {"air", "room"} : ~IsNumber(s.temp[k])}
            \ (IF missing THEN {"room"} ELSE {})
    ELSE {}

\* Published data: a sample, the flag of parser.py that goes with it, the
\* number of the sample the water temperatures were fetched for, the alarms.
Published(s, missing, water) ==
    [ sample |-> s, missing |-> missing, water |-> water,
      faults |-> SensorFaults(s, missing) ]

SyncInit ==
    /\ updates = <<>>
    /\ sampleId = Never
    /\ pending = NoSample
    /\ fetch = NoSample
    /\ published = Published(NoSample, FALSE, Never)

Init == DecoderInit /\ SyncInit

-----------------------------------------------------------------------------
\* Every frame makes the decoder call on_update at least once, before it looks
\* at the frame's content (the frame counters change), and once more when the
\* content changed something.
Emitted(t) ==
    IF data' = AfterExpiry(t) THEN <<data'>> ELSE <<AfterExpiry(t), data'>>

\* The TCP client's decoder runs on the event loop: its updates are handled
\* before anything else happens there.
LoopIsFree == Threaded \/ updates = <<>>

HearFrame(t) ==
    /\ LoopIsFree
    /\ Len(updates) < MaxQueue
    /\ Decode(t)
    /\ updates' = updates \o Emitted(t)
    /\ UNCHANGED <<sampleId, pending, fetch, published>>

BusOnly ==
    /\ Unheard
    /\ UNCHANGED syncVars

NoFetch == fetch = NoSample

IsNew(d) == d.id # Never /\ d.id # sampleId

\* The sample an update leaves on show: with the auxiliary client it may not
\* bring a waiting sample forward.
Shown_Leak(d) == SampleOf(d)
Shown_RoomKeyForgotten(d) ==
    IF Auxiliary THEN [published.sample EXCEPT !.temp["room"] = d.temp["room"]] ELSE SampleOf(d)
Shown(d) == IF Auxiliary THEN published.sample ELSE SampleOf(d)

\* AUXILIARY_KEYS are not in the decoder's data: an update carries them over.
KeptWater == published.water

\* async_handle_update for one update.
HandleUpdate ==
    /\ updates # <<>>
    /\ LET d == Head(updates) IN
        /\ IF Auxiliary /\ IsNew(d)
           THEN /\ sampleId' = d.id
                /\ pending' = SampleOf(d)
                /\ fetch' = IF NoFetch THEN SampleOf(d) ELSE fetch
           ELSE UNCHANGED <<sampleId, pending, fetch>>
        /\ published' = Published(Shown(d), d.missing, KeptWater)
    /\ updates' = Tail(updates)
    /\ UNCHANGED decoderVars

\* If a newer sample came during the fetch, that one is published.  (The code
\* also checks that the pending sample is the newest; both are set together.)
Chosen_Own == fetch
Chosen == IF fetch.id = sampleId THEN fetch ELSE pending

\* The fetch ends, with water temperatures or without.
FetchDone(gotWater) ==
    /\ LoopIsFree
    /\ ~NoFetch
    /\ published' = Published(Chosen, published.missing,
                              IF gotWater THEN Chosen.id ELSE Never)
    /\ fetch' = NoSample
    /\ UNCHANGED <<decoderVars, updates, sampleId, pending>>

Next ==
    \/ \E t \in 1..MaxTime : HearFrame(t)
    \/ BusOnly
    \/ HandleUpdate
    \/ \E gotWater \in BOOLEAN : FetchDone(gotWater)

\* The event loop runs what is queued on it, and async_fetch gives up after
\* five seconds at the latest.
Fairness ==
    /\ WF_vars(HandleUpdate)
    /\ WF_vars(\E gotWater \in BOOLEAN : FetchDone(gotWater))

Safety == Init /\ [][Next]_vars
Spec == Safety /\ Fairness

-----------------------------------------------------------------------------
\* Properties.

\* Every variable keeps its type.
TypeOK ==
    /\ DecoderTypeOK
    /\ updates \in Seq(DataType)
    /\ sampleId \in {Never} \cup 1..MaxTime
    /\ pending \in SampleType
    /\ fetch \in SampleType
    /\ published \in [ sample  : SampleType,
                       missing : BOOLEAN,
                       water   : {Never} \cup 1..MaxTime,
                       faults  : SUBSET {"air", "room"} ]

\* The number of the newest sample the coordinator was handed.
newest == IF Auxiliary THEN sampleId ELSE published.sample.id

\* No sample waits for the water temperatures.
Settled == newest = published.sample.id

\* The data shown is one whole sample, although updates keep coming while its
\* successor waits (async_handle_update, coordinator.py:285).
PublishedSampleIsWhole == Whole(published.sample)

\* Air and water are published together: the water temperatures on show were
\* fetched for the sample on show.
WaterGoesWithAir == published.water \in {Never, published.sample.id}

\* The alarms fit the sample on show: a sensor whose fault word it carries has
\* its alarm on; one it has a number for, or a missing HRC2, has it off.
AlarmsFitSample ==
    published.sample.snapshot =>
        \A k \in {"air", "room"} :
            LET r == published.sample.temp[k] IN
            /\ r = Fault => k \in published.faults
            /\ r > 0 \/ r = Absent => k \notin published.faults

\* Once no sample waits the alarms fit: _async_update_auxiliary derives them
\* anew from the sample it publishes and the flag that came with it.
SettledAlarms == Settled => AlarmsFitSample

\* A sample that waits is being fetched for: it cannot be forgotten.
WaitingIsFetched == Settled <=> NoFetch

\* The coordinator implements the sample feed.
Feed == INSTANCE SampleFeed WITH
            latest <- newest, shown <- published.sample.id, LastSample <- MaxTime
ImplementsFeed == Feed!FeedSpec

\* Water temperatures are only replaced when a newer sample is published:
\* no bus update in between drops them or brings them back.
WaterChangesWithSample ==
    [][published'.water # published.water =>
          published'.sample.id > published.sample.id]_vars

\* Every sample the decoder numbers is overtaken on show sooner or later.
EverySampleIsOvertaken ==
    \A t \in 1..MaxTime : data.id = t ~> published.sample.id >= t
=============================================================================
