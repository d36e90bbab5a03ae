----------------------------- MODULE LifeCycle -----------------------------
(***************************************************************************)
(* The life of a config entry (__init__.py): it is set up with the options *)
(* of that moment, its options are replaced when a dialog is finished      *)
(* (config_flow.py), an update listener then asks for a reload, and the    *)
(* reload unloads it and sets it up again with a new client.               *)
(*                                                                         *)
(* The serial client (client.py PassiveSerialClient) reads in a thread     *)
(* that cancelling its task does not stop.  It ends when it notices        *)
(* _stopped, at the end of a read of at most one second; until then it     *)
(* holds the adapter, which no other may open, and hands updates to a      *)
(* coordinator that was shut down.  Clients are numbered in the order of   *)
(* their set-ups.  The push of the rooms begins and ends with the entry;   *)
(* a request of the entry before may still reach the Pi.                   *)
(***************************************************************************)
EXTENDS RoomPush

CONSTANTS
    MaxLoads,       \* bound on set-ups
    MaxSaves,       \* bound on changes of the options
    RoomsWith       \* connections (USB or not) with which rooms are configured

ASSUME LifeAssumption ==
    MaxLoads \in Nat \ {0} /\ MaxSaves \in Nat /\ RoomsWith \subseteq BOOLEAN

Clients == 1..MaxLoads
Nobody == 0

VARIABLES
    serial,         \* is the connection a USB adapter (else TCP)?
    plugged,        \* is the adapter there, with traffic on the bus?
    version,        \* number of the options as saved last
    entry,          \* where the entry's life is
    client,         \* the latest client
    running,        \* the options it was set up with
    listening,      \* is the update listener registered?
    reloads,        \* reloads asked for and not begun
    missed,         \* (history) options were saved in the middle of the set-up
    thread,         \* what every client's thread does
    task,           \* what every client's run() does
    holder,         \* whose thread has the adapter open
    queued,         \* clients with an update in the event loop's queue
    editing         \* is a dialog on its first page?

entryVars == <<version, entry, client, running, listening, reloads, missed>>
clientVars == <<thread, task, holder, queued>>
vars == <<serial, plugged, entryVars, clientVars, pushVars, editing>>

Threads == {"none", "opening", "reading", "failed", "ended"}
Tasks == {"none", "thread", "sleeping", "ended"}

Init ==
    /\ serial \in BOOLEAN
    /\ plugged = TRUE
    /\ version = 0
    /\ entry = "starting"
    /\ client = 0
    /\ running = 0
    /\ listening = FALSE /\ reloads = 0 /\ missed = FALSE
    /\ thread = [c \in Clients |-> "none"]
    /\ task = [c \in Clients |-> "none"]
    /\ holder = Nobody
    /\ queued = {}
    /\ editing = FALSE
    /\ PushInit

-----------------------------------------------------------------------------
HasRooms == serial \in RoomsWith

\* stop() was called for client c, _stopped is set.
Stopped(c) == c < client \/ entry \in {"unloading", "starting"}

\* async_setup_entry reads the options, makes a client and starts its task.
BeginSetup ==
    /\ entry = "starting"
    /\ entry' = "setup"
    /\ client' = client + 1
    /\ running' = version
    /\ missed' = FALSE
    /\ thread' = [thread EXCEPT ![client + 1] = IF serial THEN "opening" ELSE @]
    /\ task' = [task EXCEPT ![client + 1] = "thread"]
    /\ push' = IF HasRooms THEN Scheduled ELSE push
    /\ UNCHANGED <<serial, plugged, version, listening, reloads, holder, queued, value,
                   body, late, told, editing>>

\* The platforms are set up and the listener is registered.
Registers_Once == client = 1
Registers == TRUE
EndSetup ==
    /\ entry = "setup"
    /\ entry' = "loaded"
    /\ listening' = Registers
    /\ UNCHANGED <<serial, plugged, version, client, running, reloads, missed,
                   clientVars, pushVars, editing>>

\* The entry is reloaded because the listener or the user asked for it: stop(), ...
BeginUnload ==
    /\ entry = "loaded" /\ reloads > 0 /\ client < MaxLoads
    /\ entry' = "unloading"
    /\ reloads' = reloads - 1
    /\ Ends
    /\ UNCHANGED <<serial, plugged, version, client, running, listening, missed,
                   clientVars, editing>>

\* ... the coordinator is shut down and the task is cancelled, wherever it is; the
\* platforms are unloaded and the listener with them.
EndUnload ==
    /\ entry = "unloading"
    /\ entry' = "starting"
    /\ task' = [task EXCEPT ![client] = "ended"]
    /\ listening' = FALSE
    /\ UNCHANGED <<serial, plugged, version, client, running, reloads, missed, thread,
                   holder, queued, pushVars, editing>>

UserReloads ==
    /\ entry = "loaded" /\ reloads = 0 /\ client < MaxLoads
    /\ reloads' = 1
    /\ UNCHANGED <<serial, plugged, version, entry, client, running, listening, missed,
                   clientVars, pushVars, editing>>

-----------------------------------------------------------------------------
\* The first page of the options and its probe.  The probe opens the adapter for
\* itself; over TCP the gateway takes another connection.
ProbeSucceeds == ~serial \/ (plugged /\ holder = Nobody)

OpenDialog ==
    /\ ~editing /\ version < MaxSaves
    /\ editing' = TRUE
    /\ UNCHANGED <<serial, plugged, entryVars, clientVars, pushVars>>

\* async_step_init with a probe that succeeds; the later pages lead to the same
\* end, in which the options are replaced and the listener, if any, is called.
Save ==
    /\ editing /\ ProbeSucceeds
    /\ editing' = FALSE
    /\ version' = version + 1
    /\ reloads' = IF listening THEN reloads + 1 ELSE reloads
    /\ missed' = (missed \/ entry = "setup")
    /\ UNCHANGED <<serial, plugged, entry, client, running, listening, clientVars,
                   pushVars>>

\* The rooms: listener and timer live from async_start_controller to
\* async_shutdown, if there are rooms at all.
Active == HasRooms /\ entry \in {"setup", "loaded"}
World == <<serial, plugged, entryVars, clientVars, editing>>

RoomChanges == ValueChanges(Active) /\ UNCHANGED World
PushRuns == ((Active /\ Minute) \/ Sends(running)) /\ UNCHANGED World
PushAnswered == Answered /\ UNCHANGED World
PushFails == (Fails \/ LateEnds) /\ UNCHANGED World
Push == RoomChanges \/ PushRuns \/ PushAnswered \/ PushFails

-----------------------------------------------------------------------------
\* _read_blocking: the adapter is opened, or it is not there, or it is taken.
ThreadOpens(c) ==
    /\ thread[c] = "opening" /\ plugged /\ holder = Nobody
    /\ thread' = [thread EXCEPT ![c] = "reading"]
    /\ holder' = c
    /\ queued' = queued \cup {c}
    /\ UNCHANGED <<serial, plugged, entryVars, task, pushVars, editing>>

ThreadFails(c) ==
    /\ \/ thread[c] = "opening" /\ (~plugged \/ holder # Nobody)
       \/ thread[c] = "reading" /\ ~plugged
    /\ thread' = [thread EXCEPT ![c] = "failed"]
    /\ holder' = IF holder = c THEN Nobody ELSE holder
    /\ UNCHANGED <<serial, plugged, entryVars, task, queued, pushVars, editing>>

\* A read brings frames, whether or not the client was stopped meanwhile.
ThreadReads(c) ==
    /\ thread[c] = "reading" /\ plugged
    /\ queued' = queued \cup {c}
    /\ UNCHANGED <<serial, plugged, entryVars, thread, task, holder, pushVars, editing>>

\* A read ends and the client was stopped.
ToldToStop_Never(c) == FALSE
ToldToStop(c) == Stopped(c)
ThreadEnds(c) ==
    /\ thread[c] = "reading" /\ ToldToStop(c)
    /\ thread' = [thread EXCEPT ![c] = "ended"]
    /\ holder' = Nobody
    /\ UNCHANGED <<serial, plugged, entryVars, task, queued, pushVars, editing>>

\* run(): the error of the thread is caught; nobody takes it if the task has gone.
TaskCatches(c) ==
    /\ thread[c] = "failed"
    /\ thread' = [thread EXCEPT ![c] = "ended"]
    /\ task' = [task EXCEPT ![c] = IF @ = "thread" THEN "sleeping" ELSE @]
    /\ queued' = IF task[c] = "thread" THEN queued \cup {c} ELSE queued
    /\ UNCHANGED <<serial, plugged, entryVars, holder, pushVars, editing>>

\* ... and after the pause it starts the next thread, unless the client is stopped.
GoesOn_Once(c) == c > 1 /\ ~Stopped(c)
GoesOn(c) == ~Stopped(c)
TaskWakes(c) ==
    /\ task[c] = "sleeping"
    /\ task' = [task EXCEPT ![c] = IF GoesOn(c) THEN "thread" ELSE "ended"]
    /\ thread' = [thread EXCEPT ![c] = IF GoesOn(c) THEN "opening" ELSE @]
    /\ UNCHANGED <<serial, plugged, entryVars, holder, queued, pushVars, editing>>

\* async_handle_update of the coordinator of client c.
HandleUpdate(c) ==
    /\ c \in queued
    /\ queued' = queued \ {c}
    /\ UNCHANGED <<serial, plugged, entryVars, thread, task, holder, pushVars, editing>>

Plug ==
    /\ serial
    /\ plugged' = ~plugged
    /\ UNCHANGED <<serial, entryVars, clientVars, pushVars, editing>>

EntryStep == BeginSetup \/ EndSetup \/ BeginUnload \/ EndUnload
ThreadStep(c) == ThreadOpens(c) \/ ThreadFails(c) \/ ThreadEnds(c)
TaskStep(c) == TaskCatches(c) \/ TaskWakes(c)

Next ==
    \/ EntryStep \/ UserReloads
    \/ OpenDialog \/ Save \/ Push \/ Plug
    \/ \E c \in Clients :
        ThreadStep(c) \/ ThreadReads(c) \/ TaskStep(c) \/ HandleUpdate(c)

Spec == Init /\ [][Next]_vars

\* The event loop runs its tasks, its timer and its queue; a thread comes back from
\* open() and read(), whose time is limited; of many pushes the Pi answers some.
FairSpec ==
    /\ Spec
    /\ WF_vars(EntryStep)
    /\ WF_vars(PushRuns) /\ SF_vars(PushAnswered)
    /\ \A c \in Clients :
        WF_vars(ThreadStep(c)) /\ WF_vars(TaskStep(c)) /\ WF_vars(HandleUpdate(c))

\* ... and the user does not give up.
PatientSpec == FairSpec /\ SF_vars(Save)

-----------------------------------------------------------------------------
TypeOK ==
    /\ serial \in BOOLEAN /\ plugged \in BOOLEAN /\ editing \in BOOLEAN
    /\ version \in 0..MaxSaves /\ running \in 0..version
    /\ entry \in {"starting", "setup", "loaded", "unloading"}
    /\ client \in 0..MaxLoads
    /\ listening \in BOOLEAN /\ reloads \in 0..MaxSaves + 1 /\ missed \in BOOLEAN
    /\ thread \in [Clients -> Threads] /\ task \in [Clients -> Tasks]
    /\ holder \in Clients \cup {Nobody} /\ queued \subseteq Clients
    /\ PushTypeOK

\* Exactly one client is at work: those that were replaced have no task, and the one
\* of an entry that is set up goes on, reading, waiting for its thread's error or for
\* the next attempt, whatever failed before (run, async_unload_entry).
OneClientIsAtWork ==
    /\ \A c \in Clients : c < client => task[c] = "ended"
    /\ entry \in {"setup", "loaded"} /\ serial =>
        \/ task[client] = "sleeping"
        \/ task[client] = "thread" /\ thread[client] \in {"opening", "reading", "failed"}

\* The adapter comes back: if it stays plugged in, the client of the entry as it
\* was loaded last has it open for good, although a thread of an earlier client may
\* have outlived its entry (PassiveSerialClient.run, async_unload_entry).
AdapterComesBack ==
    <>[](serial /\ plugged) => <>[](entry = "loaded" => holder = client)

\* A client that was replaced falls silent: no thread of it reads any more, no task
\* of it waits, and its coordinator, which was shut down, gets no more updates.
OldClientsFallSilent ==
    \A c \in Clients :
        (c < client) ~> [](thread[c] \in {"none", "ended"} /\ task[c] = "ended" /\ c \notin queued)

\* What is in force follows what was saved, over any number of saves and reloads,
\* although "Reload after connection/controller options change" (_async_reload_entry)
\* is not done for options that are saved in the middle of a set-up, when there is
\* no listener.
OptionsAreInForce ==
    []<>(client = MaxLoads \/ missed \/ running = version)

\* When neither sensors nor options change any more, the Pi has their last values
\* for good, with the options in force: although a value may change while a push
\* is under way and starts none, pushes fail, and one of the entry before may
\* arrive after those of the next (_schedule_room_push, async_shutdown).
PiIsUpToDate == HasRooms => <>[](told = <<running, value>>)

\* "To use the controller, open the integration's Configure flow" (README.md:215).
\* With a USB adapter that stays plugged in, the first page is never left: the client
\* has the adapter open and the probe cannot open it.
OptionsCanBeSaved == <>[]plugged => (editing ~> ~editing)
=============================================================================
