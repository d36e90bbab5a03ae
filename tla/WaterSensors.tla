---------------------------- MODULE WaterSensors ----------------------------
(***************************************************************************)
(* The service for the water temperatures on the Raspberry Pi              *)
(* (onewire_temperature_server.py) and its client in Home Assistant        *)
(* (auxiliary.py).  A background thread decides which of the attached      *)
(* sensors is flow and which is return, reads both and publishes an        *)
(* answer; a request takes the latest answer, whatever the thread does.    *)
(*                                                                         *)
(* The assignment is the owner's choice in the WebUI, else /etc, else the  *)
(* file saved earlier, else the first two sensors found.  Sensors come and *)
(* go, the WebUI comes and goes, the disk may refuse a write, the service  *)
(* may be restarted or its thread fail or hang at any point.               *)
(*                                                                         *)
(* Time is counted in units of CONTROLLER_CACHE_SECONDS; ages stop at a    *)
(* cap above every limit they are compared with.                           *)
(***************************************************************************)
EXTENDS Naturals, FiniteSets, FiniteSetsExt

CONSTANTS
    Sensors,        \* 1-Wire ids; their order is the order of sorted()
    WebUIChoices,   \* what the owner may choose in the WebUI
    Configs,        \* what /etc/dantherm-passivelink/onewire.json may hold
    CacheFor,       \* CONTROLLER_CACHE_SECONDS
    StaleAfter,     \* STALE_AFTER_SECONDS
    MaxRead,        \* bound on the time from the first sample to the answer
    MaxFaults       \* bound on restarts and on refreshes that fail

NoPair == <<0, 0>>      \* None, None
Pairs == (Sensors \cup {0}) \X (Sensors \cup {0})

ASSUME SensorAssumption ==
    /\ IsFiniteSet(Sensors) /\ Sensors \subseteq Nat \ {0}
    /\ WebUIChoices \subseteq Pairs
    /\ Configs \subseteq Pairs
    /\ CacheFor \in Nat \ {0} /\ StaleAfter \in Nat
    /\ MaxRead \in Nat /\ MaxFaults \in Nat

VARIABLES
    attached,       \* sensors on the bus
    webui,          \* the choice the WebUI would answer with, NoPair if down
    config,         \* flow_id and return_id
    file,           \* the assignment in STATE_PATH
    saved,          \* saved_flow_id and saved_return_id
    choice,         \* _controller_choice
    choiceAge,      \* time since _controller_checked
    phase,          \* where the reader's thread is
    used,           \* the assignment of this refresh
    sampled,        \* has the flow sensor answered in this refresh?
    readFor,        \* time since it was asked
    answer,         \* _payload: assignment, available, age of its flow sample
    answerAge,      \* time since _read_at
    last,           \* (history) the last assignment to two sensors
    refused,        \* (history) did the disk refuse to save it?
    faults          \* restarts and failed refreshes so far

world == <<attached, webui, config>>
memory == <<saved, choice, choiceAge>>
reading == <<phase, used, sampled, readFor>>
history == <<last, refused>>
vars == <<world, file, memory, reading, answer, answerAge, history, faults>>

Cap == Max({CacheFor, StaleAfter + MaxRead + 1})
Aged(n) == IF n < Cap THEN n + 1 ELSE n
Reverse(p) == <<p[2], p[1]>>

Answers == [pair : Pairs, available : BOOLEAN, age : 0..Cap]
NoAnswer == [pair |-> NoPair, available |-> FALSE, age |-> 0]

\* Every attribute of a reader that was just constructed.
Fresh ==
    /\ choice' = NoPair
    /\ choiceAge' = Cap
    /\ phase' = "wait" /\ used' = NoPair /\ sampled' = FALSE /\ readFor' = 0
    /\ answer' = NoAnswer /\ answerAge' = 0

Init ==
    /\ attached \in SUBSET Sensors
    /\ webui \in WebUIChoices \cup {NoPair}
    /\ config \in Configs
    /\ file = NoPair /\ saved = NoPair
    /\ choice = NoPair /\ choiceAge = Cap
    /\ phase = "wait" /\ used = NoPair /\ sampled = FALSE /\ readFor = 0
    /\ answer = NoAnswer /\ answerAge = 0
    /\ last = NoPair /\ refused = FALSE
    /\ faults = 0

-----------------------------------------------------------------------------
\* _controller_ids: the choice, asked for again when it is older than the cache.
Asked(a) == a >= CacheFor
ControllerIds == IF Asked(choiceAge) THEN webui ELSE choice

Found(p, discovered) == p[1] \in discovered /\ p[2] \in discovered

\* _sensor_ids: the assignment, given what the WebUI says.
SensorIds_ConfigFirst(chosen) ==
    IF Found(config, attached) THEN config
    ELSE IF Found(chosen, attached) /\ chosen[1] # chosen[2] THEN chosen
    ELSE IF Found(saved, attached) THEN saved
    ELSE NoPair
SensorIds(chosen) ==
    IF Found(chosen, attached) /\ chosen[1] # chosen[2] THEN chosen
    ELSE IF Found(config, attached) THEN config
    ELSE IF Found(saved, attached) THEN saved
    ELSE IF Cardinality(attached) >= 2
         THEN <<Min(attached), Min(attached \ {Min(attached)})>>
    ELSE NoPair

\* Which of them _sensor_ids saves: a choice, and what it found by itself.
Saves_FoundOnly(chosen, ids) ==
    ids \notin {NoPair, saved, chosen} /\ ~Found(config, attached)
Saves(chosen, ids) ==
    /\ ids \notin {NoPair, saved}
    /\ ids = chosen \/ ~Found(config, attached)

\* The thread wakes up and decides; _save_state replaces the file or keeps it.
Choose ==
    /\ phase = "wait"
    /\ LET chosen == ControllerIds
           ids == SensorIds(chosen) IN
       /\ choice' = chosen
       /\ choiceAge' = IF Asked(choiceAge) THEN 0 ELSE choiceAge
       /\ used' = ids
       /\ last' = IF ids = NoPair THEN last ELSE ids
       /\ \/ /\ Saves(chosen, ids)
             /\ file' = ids /\ saved' = ids
             /\ refused' = FALSE
          \/ /\ Saves(chosen, ids)
             /\ UNCHANGED <<file, saved>>
             /\ refused' = TRUE
          \/ /\ ~Saves(chosen, ids)
             /\ UNCHANGED <<file, saved>>
             /\ refused' = (refused /\ last' # saved)
    /\ phase' = "flow" /\ sampled' = FALSE /\ readFor' = 0
    /\ UNCHANGED <<world, answer, answerAge, faults>>

\* _read of the flow sensor: none, a good value, or none although it is there.
ReadFlow ==
    /\ phase = "flow"
    /\ phase' = "return" /\ readFor' = 0
    /\ sampled' \in BOOLEAN /\ (sampled' => used[1] \in attached)
    /\ UNCHANGED <<world, file, memory, used, answer, answerAge, history, faults>>

\* _read of the return sensor, and the answer is published under the lock.
ReadReturn ==
    /\ phase = "return"
    /\ phase' = "wait" /\ sampled' = FALSE /\ readFor' = 0 /\ UNCHANGED used
    /\ \E ok \in BOOLEAN :
         /\ ok => sampled /\ used[2] \in attached
         /\ answer' = [pair |-> used, available |-> ok, age |-> IF ok THEN readFor ELSE 0]
    /\ answerAge' = 0
    /\ UNCHANGED <<world, file, memory, history, faults>>

\* An exception in refresh(): the thread goes on, the answer stays as it is.
AfterFailure_Renewed == 0
AfterFailure == answerAge
RefreshFails ==
    /\ phase # "wait" /\ faults < MaxFaults
    /\ phase' = "wait" /\ sampled' = FALSE /\ readFor' = 0 /\ UNCHANGED used
    /\ answerAge' = AfterFailure
    /\ faults' = faults + 1
    /\ UNCHANGED <<world, file, memory, answer, history>>

\* The service or the Pi is restarted; the file survives.
Restart ==
    /\ faults < MaxFaults
    /\ Fresh
    /\ saved' = file
    /\ faults' = faults + 1
    /\ UNCHANGED <<world, file, history>>

\* Time passes.  The thread may be anywhere, but between its first sample and
\* its answer no longer than MaxRead.
Tick ==
    /\ phase = "return" => readFor < MaxRead
    /\ choiceAge' = Aged(choiceAge)
    /\ answerAge' = Aged(answerAge)
    /\ answer' = [answer EXCEPT !.age = IF answer.available THEN Aged(@) ELSE 0]
    /\ readFor' = IF phase = "return" THEN readFor + 1 ELSE readFor
    /\ UNCHANGED <<world, file, saved, choice, phase, used, sampled, history, faults>>

\* What is not the service: sensors, and the WebUI with its owner.
Plug ==
    /\ \E s \in Sensors : attached' = SymDiff(attached, {s})
    /\ UNCHANGED <<webui, config, file, memory, reading, answer, answerAge, history, faults>>
WebUIChanges ==
    /\ webui' \in (WebUIChoices \cup {NoPair}) \ {webui}
    /\ UNCHANGED <<attached, config, file, memory, reading, answer, answerAge, history, faults>>

Step == Choose \/ ReadFlow \/ ReadReturn
Next == Step \/ RefreshFails \/ Restart \/ Tick \/ Plug \/ WebUIChanges

Spec == Init /\ [][Next]_vars

\* The thread is a daemon that only the end of the process stops; sensors and
\* disk answer; and time passes.
FairSpec == Spec /\ WF_vars(Step) /\ WF_vars(Tick)

-----------------------------------------------------------------------------
\* CachedReader.payload: what a request is answered now.
Usable == answer.available /\ answerAge <= StaleAfter

\* AuxiliaryClient.async_fetch: whose temperatures Home Assistant shows as those
\* of flow and return, with and without the option to swap them.
Fetched(swap) ==
    IF ~Usable THEN NoPair
    ELSE IF swap THEN Reverse(answer.pair)
    ELSE answer.pair

TypeOK ==
    /\ attached \subseteq Sensors
    /\ webui \in Pairs /\ config \in Pairs
    /\ file \in Pairs /\ saved \in Pairs /\ choice \in Pairs
    /\ choiceAge \in 0..Cap
    /\ phase \in {"wait", "flow", "return"}
    /\ used \in Pairs /\ sampled \in BOOLEAN /\ readFor \in 0..MaxRead
    /\ answer \in Answers /\ answerAge \in 0..Cap
    /\ last \in Pairs /\ refused \in BOOLEAN
    /\ faults \in 0..MaxFaults

\* A temperature handed out is never older than the limit and the longest read,
\* although the thread may hang, fail or be restarted at any point (comment on
\* STALE_AFTER_SECONDS, CachedReader).
NoStaleTemperature == Usable => answer.age <= StaleAfter + MaxRead

\* As long as both sensors of an assignment are there, no other one takes its
\* place, over restarts and outages of the WebUI, unless the owner asked for it
\* in the WebUI or in /etc, or the disk refused to save it (_sensor_ids).
AssignmentIsKept ==
    [][ last' # last /\ last # NoPair /\ Found(last, attached)
            => last' \in {choice', config} \/ refused ]_vars

\* The owner's choice is in force in the end: if the WebUI keeps it and its sensors
\* stay, answers are made from it for good and Home Assistant never again shows
\* another sensor in its place (_controller_ids, _sensor_ids, async_fetch).
Valid(p) == Found(p, attached) /\ p[1] # p[2]
ChoiceIsFollowed ==
    \A c \in WebUIChoices :
        <>[](webui = c /\ Valid(c))
            => <>[](/\ answer.pair = c
                    /\ \A swap \in BOOLEAN :
                         Fetched(swap) \in {NoPair, IF swap THEN Reverse(c) ELSE c})

=============================================================================
