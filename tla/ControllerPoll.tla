--------------------------- MODULE ControllerPoll ---------------------------
(***************************************************************************)
(* The state of the Raspberry Pi's controller in Home Assistant:           *)
(* controller_api.py ControllerApiClient with its poll loop run(), and     *)
(* smart_coordinator.py async_handle_controller_update with the alarm      *)
(* notifications.                                                          *)
(*                                                                         *)
(* The Pi answers every request with its whole state: a poll, but also     *)
(* commands and the pushes of rooms and signals, which do not wait for     *)
(* each other.  Each answer replaces the state on show when it arrives.    *)
(* The state is reduced to the alarms in it.                               *)
(*                                                                         *)
(* Time counts in seconds; a step due at a time is taken before time goes  *)
(* on.  X_Bug is the definition X with a plausible bug, used by no action. *)
(***************************************************************************)
EXTENDS Integers

CONSTANTS
    Codes,          \* codes of the Pi's alarms
    Others,         \* senders of other requests than polls
    Timeout,        \* of one request (code: 10)
    Poll,           \* poll_seconds (code: 5)
    MaxDelay        \* longest pause after a failed poll (code: 30)

ASSUME PollAssumption ==
    /\ Timeout \in Nat \ {0} /\ Poll \in Nat \ {0} /\ MaxDelay \in Nat \ {0}
    /\ "poll" \notin Others

VARIABLES
    active,         \* the Pi's state: its alarms
    requests,       \* the request each sender waits for
    polling,        \* is the poll loop alive?
    delay,          \* its next pause after a failure
    pause,          \* seconds left of its pause
    connected,      \* the API client's flag
    shown,          \* the alarms in controller_state
    codes,          \* _alarm_codes
    oldCodes,       \* _alarm_codes of the coordinator unloaded last
    notes,          \* notifications on show in Home Assistant
    removed,        \* history: active alarms whose note someone else removed
    ago             \* history: how many seconds ago the Pi's state was this one

pollVars == <<polling, delay, pause>>
alarmVars == <<codes, oldCodes, notes, removed>>
vars == <<active, requests, pollVars, connected, shown, alarmVars, ago>>

Senders == {"poll"} \cup Others

\* A request is made by the coordinator in place or by the one before it.
Request(step) == [step |-> step, alarms |-> {}, age |-> 0, old |-> FALSE]
Idle == Request("idle")
Sent == Request("sent")

Larger(m, n) == IF m > n THEN m ELSE n
Longest == Larger(Poll, MaxDelay)

\* The state on show is at most this old (code: 50): its answer took the timeout,
\* a pause began (after a failed poll, when a push or command was answered at
\* that moment), and so does the next poll.
StaleTime == Longest + 2 * Timeout

Init ==
    /\ active \in SUBSET Codes
    /\ requests = [s \in Senders |-> IF s = "poll" THEN Sent ELSE Idle]
    /\ polling = TRUE /\ delay = 1 /\ pause = 0
    /\ connected = FALSE /\ shown = {}
    /\ codes = {} /\ oldCodes = {} /\ notes = {}
    /\ removed = {}
    /\ ago = [state \in SUBSET Codes |-> IF state = active THEN 0 ELSE StaleTime + 1]

-----------------------------------------------------------------------------
\* The Pi.

\* An alarm comes or goes, or a command or the WebUI changes the state.
Change ==
    /\ active' \in SUBSET Codes /\ active' # active
    /\ ago' = [ago EXCEPT ![active'] = 0]
    /\ UNCHANGED <<requests, pollVars, connected, shown, alarmVars>>

\* The answer may be something other than JSON.
Answer(s) ==
    /\ requests[s].step = "sent"
    /\ \E step \in {"good", "bad"} :
           requests' = [requests EXCEPT ![s].step = step, ![s].alarms = active]
    /\ UNCHANGED <<active, pollVars, connected, shown, alarmVars, ago>>

-----------------------------------------------------------------------------
\* An answer arrives: async_handle_controller_update.

\* _sync_alarm_notifications, given the codes it knows.
NotesAfter(before, alarms) == (notes \cup (alarms \ before)) \ (before \ alarms)

Show(alarms) ==
    /\ connected' = TRUE
    /\ shown' = alarms
    /\ codes' = alarms
    /\ notes' = NotesAfter(codes, alarms)
    /\ removed' = removed \cap alarms \cap codes
    /\ UNCHANGED oldCodes

\* The answer to a request of the coordinator before: it has its own state, but
\* the notifications are shared.
ShowOld(alarms) ==
    /\ oldCodes' = alarms
    /\ notes' = NotesAfter(oldCodes, alarms)
    /\ removed' = (removed \cup (oldCodes \ alarms)) \cap codes
    /\ UNCHANGED <<connected, shown, codes>>

-----------------------------------------------------------------------------
\* The poll loop: run().

PollPauses(time) ==
    /\ requests' = [requests EXCEPT !["poll"] = Idle]
    /\ pause' = time
    /\ UNCHANGED <<active, polling, ago>>

PollAnswered ==
    /\ requests["poll"].step = "good"
    /\ Show(requests["poll"].alarms)
    /\ delay' = 1
    /\ PollPauses(Poll)

NextDelay_Uncapped == 2 * delay
NextDelay == IF 2 * delay > MaxDelay THEN MaxDelay ELSE 2 * delay

\* An error, an error status or the timeout.
PollFails ==
    /\ requests["poll"].step # "idle"
    /\ connected' = FALSE
    /\ delay' = NextDelay
    /\ PollPauses(delay)
    /\ UNCHANGED <<shown, alarmVars>>

\* Not JSON: a ValueError, which run() does not catch.
PollUnreadable ==
    /\ requests["poll"].step = "bad"
    /\ requests' = [requests EXCEPT !["poll"] = Idle]
    /\ polling' = FALSE
    /\ UNCHANGED <<active, delay, pause, connected, shown, alarmVars, ago>>

NextPoll ==
    /\ polling /\ requests["poll"] = Idle /\ pause = 0
    /\ requests' = [requests EXCEPT !["poll"] = Sent]
    /\ UNCHANGED <<active, pollVars, connected, shown, alarmVars, ago>>

-----------------------------------------------------------------------------
\* Commands and pushes.

Send(s) ==
    /\ requests[s] = Idle
    /\ requests' = [requests EXCEPT ![s] = Sent]
    /\ UNCHANGED <<active, pollVars, connected, shown, alarmVars, ago>>

Answered(s) ==
    /\ requests[s].step = "good"
    /\ requests' = [requests EXCEPT ![s] = Idle]
    /\ IF requests[s].old THEN ShowOld(requests[s].alarms) ELSE Show(requests[s].alarms)
    /\ UNCHANGED <<active, pollVars, ago>>

\* Any error ends the request and is shown to the caller or dropped.
Fails(s) ==
    /\ requests[s].step # "idle"
    /\ requests' = [requests EXCEPT ![s] = Idle]
    /\ UNCHANGED <<active, pollVars, connected, shown, alarmVars, ago>>

-----------------------------------------------------------------------------
\* The user removes a notification.
Dismiss ==
    \E code \in notes :
        /\ notes' = notes \ {code}
        /\ removed' = removed \cup ({code} \cap codes)
        /\ UNCHANGED <<active, requests, pollVars, connected, shown, codes, oldCodes, ago>>

\* A new coordinator knows no alarm codes.
FirstCodes_Kept == codes
FirstCodes == {}

SetUp ==
    /\ polling' = TRUE /\ delay' = 1 /\ pause' = 0
    /\ connected' = FALSE /\ shown' = {}
    /\ codes' = FirstCodes
    /\ removed' = {}
    /\ UNCHANGED <<active, ago>>

\* The poll loop is cancelled; other requests go on, for at most one coordinator
\* that is unloaded.  A loop that has ended by an exception raises it again out of
\* async_shutdown, so the unload fails and nothing is set up: then only a restart
\* of Home Assistant polls again.
Reload ==
    /\ polling
    /\ \A s \in Senders : ~requests[s].old
    /\ SetUp
    /\ requests' = [s \in Senders |->
                       IF s = "poll" THEN Sent
                       ELSE [requests[s] EXCEPT !.old = requests[s] # Idle]]
    /\ oldCodes' = codes
    /\ UNCHANGED notes

\* Notifications do not outlive Home Assistant.
Restart ==
    /\ SetUp
    /\ requests' = [s \in Senders |-> IF s = "poll" THEN Sent ELSE Idle]
    /\ oldCodes' = {}
    /\ notes' = {}

-----------------------------------------------------------------------------
Older(time) == IF time <= StaleTime THEN time + 1 ELSE time

Tick ==
    /\ \A s \in Senders : requests[s] # Idle => requests[s].age < Timeout
    /\ polling => requests["poll"] # Idle \/ pause > 0
    /\ requests' = [s \in Senders |-> IF requests[s] = Idle THEN Idle
                                      ELSE [requests[s] EXCEPT !.age = @ + 1]]
    /\ pause' = IF pause > 0 THEN pause - 1 ELSE 0
    /\ ago' = [state \in SUBSET Codes |-> IF state = active THEN 0 ELSE Older(ago[state])]
    /\ UNCHANGED <<active, polling, delay, connected, shown, alarmVars>>

Next ==
    \/ Change
    \/ \E s \in Senders : Answer(s)
    \/ PollAnswered \/ PollFails \/ PollUnreadable \/ NextPoll
    \/ \E s \in Others : Send(s) \/ Answered(s) \/ Fails(s)
    \/ Dismiss \/ Reload \/ Restart
    \/ Tick

Spec == Init /\ [][Next]_vars

-----------------------------------------------------------------------------
\* Properties.

\* Every variable keeps its type.
TypeOK ==
    /\ {active, shown, codes, oldCodes, notes, removed} \subseteq SUBSET Codes
    /\ requests \in [Senders -> [ step   : {"idle", "sent", "good", "bad"},
                                  alarms : SUBSET Codes,
                                  age    : 0..Timeout,
                                  old    : BOOLEAN ]]
    /\ polling \in BOOLEAN /\ connected \in BOOLEAN
    /\ delay \in 1..MaxDelay /\ pause \in 0..Longest
    /\ ago \in [SUBSET Codes -> 0..(StaleTime + 1)]

\* While the poll loop is alive and the entities are available, what they show
\* was the Pi's state a moment ago, in whatever order the answers arrived.  After
\* an unreadable answer (controller_api.py:108) they stay available and keep the
\* old state, although README.md:31 promises changes with the next poll.
ShownIsRecent == polling /\ connected => ago[shown] <= StaleTime

\* Every alarm on show has its notification, until somebody removes it.
AlarmsAreTold == shown \ removed \subseteq notes
=============================================================================
