------------------------------ MODULE RoomPush ------------------------------
(***************************************************************************)
(* The push of the room sensors' values to the controller on the Pi        *)
(* (smart_coordinator.py).  A changed value and a timer start a task that  *)
(* waits a second and sends the values of that moment; while it runs,      *)
(* nothing starts another, so the change of a value may go unheard.  A     *)
(* request may be answered, lost, or handled after its sender gave up.     *)
(*                                                                         *)
(* The values of all rooms are one number that counts their changes; what  *)
(* is sent is that number with the number of the options in force.         *)
(***************************************************************************)
EXTENDS Naturals

CONSTANT MaxChanges     \* bound on changes of the values

ASSUME ChangeAssumption == MaxChanges \in Nat

VARIABLES
    value,          \* the values of the room sensors
    push,           \* the task: none or done, asleep, awaiting its request
    body,           \* what it has sent
    late,           \* a request whose sender has given up; one at a time
    told            \* what the Pi has handled last

pushVars == <<value, push, body, late, told>>

Bodies == Nat \X (0..MaxChanges)
Nothing == <<>>

PushInit ==
    /\ value = 0
    /\ push = "none" /\ body = Nothing
    /\ late = Nothing /\ told = <<0, 0>>

\* _schedule_room_push: a task that is not done goes on alone.
Scheduled == IF push = "none" THEN "waiting" ELSE push

\* A sensor changes; `listening' says whether the listener is registered.
ValueChanges(listening) ==
    /\ value < MaxChanges
    /\ value' = value + 1
    /\ push' = IF listening THEN Scheduled ELSE push
    /\ UNCHANGED <<body, late, told>>

\* The timer of a minute.
OnTimer_Unheard == push
OnTimer == Scheduled
Minute ==
    /\ push = "none"
    /\ push' = OnTimer
    /\ UNCHANGED <<value, body, late, told>>

\* The second is over: the payload is built and sent.
Sends(options) ==
    /\ push = "waiting"
    /\ push' = "sending"
    /\ body' = <<options, value>>
    /\ UNCHANGED <<value, late, told>>

Answered ==
    /\ push = "sending"
    /\ push' = "none" /\ body' = Nothing
    /\ told' = body
    /\ UNCHANGED <<value, late>>

\* The request is given up, or the task is cancelled wherever it is: the Pi may
\* still handle what was sent.
Ends ==
    /\ push' = "none" /\ body' = Nothing
    /\ late' \in IF late = Nothing THEN {late, body} ELSE {late}
    /\ UNCHANGED <<value, told>>

Fails == push = "sending" /\ Ends

LateEnds ==
    /\ late # Nothing
    /\ late' = Nothing
    /\ told' \in {told, late}
    /\ UNCHANGED <<value, push, body>>

PushTypeOK ==
    /\ value \in 0..MaxChanges
    /\ push \in {"none", "waiting", "sending"}
    /\ body \in Bodies \cup {Nothing} /\ (push = "sending" => body # Nothing)
    /\ late \in Bodies \cup {Nothing} /\ told \in Bodies
=============================================================================
