-------------------------- MODULE LifeCycle_proofs --------------------------
(***************************************************************************)
(* Theorems about LifeCycle: every variable keeps its type, exactly one    *)
(* client is at work, one thread has the adapter and a client that fell    *)
(* silent stays so, for any number of set-ups and changes of the options,  *)
(* under the assumptions on the constants alone.                           *)
(*                                                                         *)
(* And about OptionsFlow, the dialogs whose end LifeCycle calls Save: how  *)
(* the rooms of several dialogs reach the same options, for any names, any *)
(* number of rooms and any number of dialogs.                              *)
(***************************************************************************)
EXTENDS LifeCycle, OptionsFlow, SequenceTheorems, TLAPS

\* The numbers of set-ups, changes and reloads that are asked for fit together.
CountsFit ==
    /\ editing => version < MaxSaves
    /\ reloads <= version + 1
    /\ entry \in {"starting", "unloading"} => client < MaxLoads
    /\ entry # "starting" => client > 0

\* The task of a client ends with its entry, and no other begins before its own.
TasksFollowEntry ==
    /\ \A c \in Clients : c < client \/ (c = client /\ entry = "starting") => task[c] = "ended"
    /\ \A c \in Clients : c > client => task[c] = "none" /\ thread[c] = "none"

\* The task of the client of an entry that is set up or being unloaded goes on.
ReaderIsAlive ==
    entry \in {"setup", "loaded"} /\ serial =>
        \/ task[client] = "sleeping"
        \/ task[client] = "thread" /\ thread[client] \in {"opening", "reading", "failed"}

LifeInv == TypeOK /\ CountsFit /\ TasksFollowEntry /\ ReaderIsAlive

-----------------------------------------------------------------------------
LEMMA InitHolds == Init => LifeInv
<1> SUFFICES ASSUME Init PROVE LifeInv
  OBVIOUS
<1>1. TypeOK
  <2>1. /\ serial \in BOOLEAN /\ plugged \in BOOLEAN /\ editing \in BOOLEAN
        /\ listening \in BOOLEAN /\ missed \in BOOLEAN
    BY Zenon DEF Init
  <2>2. /\ version \in 0..MaxSaves /\ running \in 0..version
        /\ client \in 0..MaxLoads /\ reloads \in 0..MaxSaves + 1
    BY LifeAssumption DEF Init
  <2>3. PushTypeOK
    BY ChangeAssumption DEF Init, PushInit, PushTypeOK, Bodies
  <2> QED
    BY <2>1, <2>2, <2>3 DEF Init, TypeOK, Nobody, Threads, Tasks
<1>2. CountsFit /\ TasksFollowEntry /\ ReaderIsAlive
  BY LifeAssumption DEF Init, CountsFit, TasksFollowEntry, ReaderIsAlive, Clients
<1> QED
  BY <1>1, <1>2 DEF LifeInv

\* The room push keeps the types of its own variables, whatever the entry does.
LEMMA PushKeepsType ==
    ASSUME LifeInv, Push \/ BeginSetup \/ BeginUnload \/ UNCHANGED pushVars
    PROVE  PushTypeOK'
<1>1. PushTypeOK /\ running \in Nat /\ Nothing \notin Bodies
  BY LifeAssumption DEF LifeInv, TypeOK, Nothing, Bodies
<1>2. CASE Push
  <2>1. CASE RoomChanges
    BY <1>1, <2>1, ChangeAssumption DEF RoomChanges, ValueChanges, Scheduled, PushTypeOK
  <2>2. CASE PushRuns
    <3>1. <<running, value>> \in Bodies
      BY <1>1 DEF PushTypeOK, Bodies
    <3> QED
      BY <1>1, <2>2, <3>1 DEF PushRuns, Minute, OnTimer, Scheduled, Sends, PushTypeOK
  <2>3. CASE PushAnswered
    BY <1>1, <2>3 DEF PushAnswered, Answered, PushTypeOK
  <2>4. CASE PushFails
    BY <1>1, <2>4 DEF PushFails, Fails, Ends, LateEnds, PushTypeOK
  <2> QED
    BY <1>2, <2>1, <2>2, <2>3, <2>4 DEF Push
<1>3. CASE BeginSetup
  BY <1>1, <1>3 DEF BeginSetup, Scheduled, PushTypeOK
<1>4. CASE BeginUnload
  BY <1>1, <1>4 DEF BeginUnload, Ends, PushTypeOK
<1>5. CASE UNCHANGED pushVars
  BY <1>1, <1>5 DEF pushVars, PushTypeOK
<1> QED
  BY <1>2, <1>3, <1>4, <1>5

\* Set-up: the new client's number is the next one, and it begins to read.
LEMMA SetupKeepsInv == ASSUME LifeInv, BeginSetup PROVE LifeInv'
<1>1. client + 1 \in Clients /\ client \in Nat /\ client < MaxLoads
  BY LifeAssumption DEF LifeInv, TypeOK, CountsFit, BeginSetup, Clients
<1>2. TypeOK'
  <2>1. missed' \in BOOLEAN
    BY Zenon DEF BeginSetup
  <2>2. client' \in 0..MaxLoads /\ running' \in 0..version'
    BY <1>1, LifeAssumption DEF LifeInv, TypeOK, BeginSetup
  <2>3. thread' \in [Clients -> Threads] /\ task' \in [Clients -> Tasks]
    BY <1>1 DEF LifeInv, TypeOK, BeginSetup, Threads, Tasks
  <2>4. PushTypeOK'
    BY PushKeepsType
  <2> QED
    BY <2>1, <2>2, <2>3, <2>4 DEF LifeInv, TypeOK, BeginSetup
<1>3. CountsFit'
  BY <1>1 DEF LifeInv, CountsFit, BeginSetup
<1>4. TasksFollowEntry'
  <2>1. ASSUME NEW c \in Clients, c < client' PROVE task'[c] = "ended"
    BY <1>1, <2>1 DEF LifeInv, TypeOK, TasksFollowEntry, BeginSetup, Clients
  <2>2. ASSUME NEW c \in Clients, c > client' PROVE task'[c] = "none" /\ thread'[c] = "none"
    BY <1>1, <2>2 DEF LifeInv, TypeOK, TasksFollowEntry, BeginSetup, Clients
  <2> QED
    BY <2>1, <2>2 DEF TasksFollowEntry, BeginSetup
<1>5. ReaderIsAlive'
  BY <1>1 DEF LifeInv, TypeOK, BeginSetup, ReaderIsAlive
<1> QED
  BY <1>2, <1>3, <1>4, <1>5 DEF LifeInv

\* ... and leaves the entry, its clients and its dialog alone.
LEMMA PushKeepsInv == ASSUME LifeInv, Push PROVE LifeInv'
<1>1. UNCHANGED World
  BY DEF Push, RoomChanges, PushRuns, PushAnswered, PushFails
<1>2. PushTypeOK'
  BY PushKeepsType
<1> QED
  BY <1>1, <1>2 DEF World, entryVars, clientVars, LifeInv, TypeOK, CountsFit, TasksFollowEntry,
                    ReaderIsAlive

\* The other steps of the entry, and the user's.
LEMMA EntryKeepsInv ==
    ASSUME LifeInv, EndSetup \/ BeginUnload \/ EndUnload \/ UserReloads \/ OpenDialog \/ Save
    PROVE  LifeInv'
<1>0. PushTypeOK'
  BY PushKeepsType DEF EndSetup, EndUnload, UserReloads, OpenDialog, Save
<1>1. /\ client \in Nat /\ version \in Nat /\ reloads \in Nat
      /\ version' \in Nat /\ client' = client /\ thread' = thread /\ serial' = serial
  BY LifeAssumption DEF LifeInv, TypeOK, EndSetup, BeginUnload, EndUnload, UserReloads, OpenDialog,
                        Save, clientVars, entryVars
<1>2. TypeOK'
  <2>1. CASE EndSetup \/ BeginUnload \/ UserReloads \/ OpenDialog
    <3>1. reloads' \in 0..MaxSaves + 1
      BY <1>1, <2>1, LifeAssumption
         DEF LifeInv, TypeOK, EndSetup, BeginUnload, UserReloads, OpenDialog, entryVars
    <3>2. listening' \in BOOLEAN /\ editing' \in BOOLEAN
      BY <2>1, Zenon DEF LifeInv, TypeOK, EndSetup, Registers, BeginUnload, UserReloads, OpenDialog,
                         entryVars
    <3> QED
      BY <1>0, <2>1, <3>1, <3>2
         DEF LifeInv, TypeOK, EndSetup, BeginUnload, UserReloads, OpenDialog, clientVars, entryVars
  <2>2. CASE EndUnload
    BY <1>0, <2>2, LifeAssumption DEF LifeInv, TypeOK, EndUnload, Tasks
  <2>3. CASE Save
    <3>1. version < MaxSaves /\ reloads <= version + 1
      BY <2>3 DEF LifeInv, CountsFit, Save
    <3>2. missed' \in BOOLEAN
      BY <2>3, Zenon DEF LifeInv, TypeOK, Save
    <3>3. version' \in 0..MaxSaves /\ running' \in 0..version'
      BY <1>1, <2>3, <3>1, LifeAssumption DEF LifeInv, TypeOK, Save
    <3>4. reloads' \in 0..MaxSaves + 1
      BY <1>1, <2>3, <3>1, LifeAssumption DEF LifeInv, TypeOK, Save
    <3> QED
      BY <1>0, <2>3, <3>2, <3>3, <3>4 DEF LifeInv, TypeOK, Save, clientVars
  <2> QED
    BY <2>1, <2>2, <2>3
<1>3. CountsFit'
  BY <1>1, LifeAssumption
     DEF LifeInv, TypeOK, CountsFit, EndSetup, BeginUnload, EndUnload, UserReloads, OpenDialog, Save,
         clientVars, entryVars
<1>4. TasksFollowEntry'
  <2>1. CASE EndUnload
    BY <1>1, <2>1 DEF LifeInv, TypeOK, TasksFollowEntry, EndUnload, Clients
  <2>2. CASE ~EndUnload
    BY <1>1, <2>2
       DEF LifeInv, TasksFollowEntry, EndSetup, BeginUnload, UserReloads, OpenDialog, Save,
           clientVars, entryVars
  <2> QED
    BY <2>1, <2>2
<1>5. ReaderIsAlive'
  BY <1>1 DEF LifeInv, ReaderIsAlive, EndSetup, BeginUnload, EndUnload, UserReloads, OpenDialog,
              Save, clientVars, entryVars
<1> QED
  BY <1>2, <1>3, <1>4, <1>5 DEF LifeInv

\* The steps of a client: a thread ends without an error only if it was told to.
LEMMA ClientKeepsInv ==
    ASSUME LifeInv, NEW c \in Clients,
           ThreadStep(c) \/ ThreadReads(c) \/ TaskStep(c) \/ HandleUpdate(c)
    PROVE  LifeInv'
<1>1. UNCHANGED <<serial, plugged, entryVars, pushVars, editing>>
  BY DEF ThreadStep, ThreadOpens, ThreadFails, ThreadEnds, ThreadReads, TaskStep, TaskCatches,
         TaskWakes, HandleUpdate
<1>2. client \in Nat /\ c \in Nat
  BY LifeAssumption DEF LifeInv, TypeOK, Clients
<1>3. TypeOK'
  <2>1. thread' \in [Clients -> Threads] /\ task' \in [Clients -> Tasks]
    BY DEF LifeInv, TypeOK, ThreadStep, ThreadOpens, ThreadFails, ThreadEnds, ThreadReads, TaskStep,
           TaskCatches, TaskWakes, HandleUpdate, Threads, Tasks
  <2>2. holder' \in Clients \cup {Nobody} /\ queued' \subseteq Clients
    BY DEF LifeInv, TypeOK, ThreadStep, ThreadOpens, ThreadFails, ThreadEnds, ThreadReads, TaskStep,
           TaskCatches, TaskWakes, HandleUpdate
  <2> QED
    BY <1>1, <2>1, <2>2, PushKeepsType DEF LifeInv, TypeOK, entryVars
<1>4. CountsFit'
  BY <1>1 DEF LifeInv, CountsFit, entryVars
<1>5. \A d \in Clients \ {c} : thread'[d] = thread[d] /\ task'[d] = task[d]
  BY DEF LifeInv, TypeOK, ThreadStep, ThreadOpens, ThreadFails, ThreadEnds, ThreadReads, TaskStep,
         TaskCatches, TaskWakes, HandleUpdate
<1>6. TasksFollowEntry'
  <2>1. task[c] = "ended" => task'[c] = "ended"
    BY DEF LifeInv, TypeOK, ThreadStep, ThreadOpens, ThreadFails, ThreadEnds, ThreadReads, TaskStep,
           TaskCatches, TaskWakes, HandleUpdate
  <2>2. thread[c] = "none" /\ task[c] = "none" => thread'[c] = "none" /\ task'[c] = "none"
    BY DEF LifeInv, TypeOK, ThreadStep, ThreadOpens, ThreadFails, ThreadEnds, ThreadReads, TaskStep,
           TaskCatches, TaskWakes, HandleUpdate
  <2> QED
    BY <1>1, <1>5, <2>1, <2>2 DEF LifeInv, TasksFollowEntry, entryVars
<1>7. ReaderIsAlive'
  <2> SUFFICES ASSUME entry \in {"setup", "loaded"}, serial
               PROVE  \/ task'[client] = "sleeping"
                      \/ /\ task'[client] = "thread"
                         /\ thread'[client] \in {"opening", "reading", "failed"}
    BY <1>1 DEF ReaderIsAlive, entryVars
  <2>1. client \in Clients
    BY <1>2 DEF LifeInv, TypeOK, CountsFit, Clients
  <2>2. \/ task[client] = "sleeping"
        \/ task[client] = "thread" /\ thread[client] \in {"opening", "reading", "failed"}
    BY DEF LifeInv, ReaderIsAlive
  <2>3. CASE c # client
    BY <1>5, <2>1, <2>2, <2>3
  <2>4. CASE c = client
    <3>1. ~Stopped(c)
      BY <1>2, <2>4 DEF Stopped
    <3> QED
      BY <2>2, <2>4, <3>1
         DEF LifeInv, TypeOK, ThreadStep, ThreadOpens, ThreadFails, ThreadEnds, ToldToStop, ThreadReads,
             TaskStep, TaskCatches, TaskWakes, GoesOn, HandleUpdate
  <2> QED
    BY <2>3, <2>4
<1> QED
  BY <1>3, <1>4, <1>6, <1>7 DEF LifeInv

-----------------------------------------------------------------------------
\* LifeInv holds in every reachable state.
THEOREM LifeInvariant == Spec => []LifeInv
<1>1. LifeInv /\ [Next]_vars => LifeInv'
  <2> SUFFICES ASSUME LifeInv, [Next]_vars PROVE LifeInv'
    OBVIOUS
  <2>1. CASE BeginSetup
    BY <2>1, SetupKeepsInv
  <2>2. CASE EndSetup \/ BeginUnload \/ EndUnload \/ UserReloads \/ OpenDialog \/ Save
    BY <2>2, EntryKeepsInv
  <2>6. CASE Push
    BY <2>6, PushKeepsInv
  <2>3. CASE Plug
    <3>1. plugged' \in BOOLEAN
      BY <2>3, Zenon DEF Plug
    <3> QED
      BY <2>3, <3>1, PushKeepsType DEF Plug, entryVars, clientVars, LifeInv, TypeOK, CountsFit, TasksFollowEntry,
                        ReaderIsAlive
  <2>4. ASSUME NEW c \in Clients, ThreadStep(c) \/ ThreadReads(c) \/ TaskStep(c) \/ HandleUpdate(c)
        PROVE  LifeInv'
    BY <2>4, ClientKeepsInv
  <2>5. CASE UNCHANGED vars
    BY <2>5, PushKeepsType DEF vars, entryVars, clientVars, LifeInv, TypeOK, CountsFit, TasksFollowEntry,
                ReaderIsAlive
  <2> QED
    BY <2>1, <2>2, <2>3, <2>4, <2>5, <2>6 DEF Next, EntryStep
<1> QED
  BY InitHolds, <1>1, PTL DEF Spec

\* Every variable keeps its type: no more clients than set-ups, no more reloads asked
\* for than there are reasons.
THEOREM TypeCorrect == Spec => []TypeOK
<1>1. LifeInv => TypeOK
  BY DEF LifeInv
<1> QED
  BY <1>1, LifeInvariant, PTL

\* Exactly one client is at work, in every order of failures, reloads and saves.
THEOREM OneWorksAtATime == Spec => []OneClientIsAtWork
<1>1. LifeInv => OneClientIsAtWork
  BY DEF LifeInv, TasksFollowEntry, ReaderIsAlive, OneClientIsAtWork
<1> QED
  BY <1>1, LifeInvariant, PTL

\* Only one thread has the adapter open, whichever clients' threads are left over
\* (_read_blocking opens it for itself alone).
AdapterIsExclusive == \A c \in Clients : thread[c] = "reading" <=> holder = c

\* ... for the thread of a task that pauses has ended.
Readers ==
    AdapterIsExclusive /\ \A c \in Clients : task[c] = "sleeping" => thread[c] = "ended"

\* One thread at a time reads from the adapter.
THEOREM OneReader == Spec => []AdapterIsExclusive
<1>1. Init => Readers
  BY LifeAssumption DEF Init, Readers, AdapterIsExclusive, Clients, Nobody
<1>2. LifeInv /\ Readers /\ [Next]_vars => Readers'
  <2> SUFFICES ASSUME LifeInv, Readers, [Next]_vars PROVE Readers'
    OBVIOUS
  <2>1. Nobody \notin Clients /\ client \in Nat
    BY LifeAssumption DEF Nobody, Clients, LifeInv, TypeOK
  <2>2. CASE BeginSetup
    <3>1. client + 1 \in Clients /\ thread[client + 1] = "none"
      BY <2>1, <2>2, LifeAssumption
         DEF LifeInv, TypeOK, CountsFit, TasksFollowEntry, BeginSetup, Clients
    <3>2. /\ holder' = holder /\ thread'[client + 1] \in {"none", "opening"}
          /\ task'[client + 1] = "thread"
      BY <2>2, <3>1 DEF BeginSetup, LifeInv, TypeOK
    <3>3. \A c \in Clients \ {client + 1} : thread'[c] = thread[c] /\ task'[c] = task[c]
      BY <2>2, <3>1 DEF BeginSetup, LifeInv, TypeOK
    <3> QED
      BY <3>1, <3>2, <3>3 DEF Readers, AdapterIsExclusive
  <2>3. ASSUME NEW c \in Clients,
               ThreadStep(c) \/ ThreadReads(c) \/ TaskStep(c) \/ HandleUpdate(c)
        PROVE  Readers'
    <3>1. \A d \in Clients \ {c} : thread'[d] = thread[d] /\ task'[d] = task[d]
      BY <2>3 DEF LifeInv, TypeOK, ThreadStep, ThreadOpens, ThreadFails, ThreadEnds, ThreadReads,
                  TaskStep, TaskCatches, TaskWakes, HandleUpdate
    <3>2. \/ thread[c] # "reading" /\ thread'[c] # "reading" /\ holder' = holder
          \/ thread[c] = "reading" /\ thread'[c] = "reading" /\ holder' = holder
          \/ thread[c] = "reading" /\ thread'[c] # "reading" /\ holder' = Nobody
          \/ holder = Nobody /\ thread'[c] = "reading" /\ holder' = c
      BY <2>3 DEF LifeInv, TypeOK, Readers, AdapterIsExclusive, ThreadStep, ThreadOpens,
                  ThreadFails, ThreadEnds, ThreadReads, TaskStep, TaskCatches, TaskWakes,
                  HandleUpdate
    <3>3. task'[c] = "sleeping" => thread'[c] = "ended"
      BY <2>3 DEF LifeInv, TypeOK, Readers, ThreadStep, ThreadOpens, ThreadFails, ThreadEnds,
                  ThreadReads, TaskStep, TaskCatches, TaskWakes, HandleUpdate
    <3> QED
      BY <2>1, <3>1, <3>2, <3>3 DEF Readers, AdapterIsExclusive
  <2>4. CASE EndUnload
    BY <2>4 DEF EndUnload, LifeInv, TypeOK, Readers, AdapterIsExclusive
  <2>5. CASE UNCHANGED <<thread, task, holder>>
    BY <2>5 DEF Readers, AdapterIsExclusive
  <2> QED
    BY <2>2, <2>3, <2>4, <2>5
       DEF Next, EntryStep, EndSetup, BeginUnload, UserReloads, OpenDialog, Save, Push,
           RoomChanges, PushRuns, PushAnswered, PushFails, World, Plug, clientVars, entryVars, vars
<1>3. Readers => AdapterIsExclusive
  BY DEF Readers
<1> QED
  BY <1>1, <1>2, <1>3, LifeInvariant, PTL DEF Spec

\* A client that was replaced and fell silent stays so: no step of any other client
\* or of the entry wakes its thread, its task or its coordinator.
Fallen(c) ==
    c < client /\ thread[c] \in {"none", "ended"} /\ task[c] = "ended" /\ c \notin queued
SilenceIsFinal == [][ \A c \in Clients : Fallen(c) => Fallen(c)' ]_vars

THEOREM StaysSilent == Spec => SilenceIsFinal
<1>1. ASSUME LifeInv, [Next]_vars, NEW c \in Clients, Fallen(c) PROVE Fallen(c)'
  <2>1. client \in Nat /\ c \in Nat /\ c < client
    BY <1>1, LifeAssumption DEF LifeInv, TypeOK, Clients, Fallen
  <2>2. CASE BeginSetup
    BY <1>1, <2>1, <2>2 DEF BeginSetup, LifeInv, TypeOK, Fallen
  <2>3. CASE EndUnload
    BY <1>1, <2>1, <2>3 DEF EndUnload, LifeInv, TypeOK, Fallen
  <2>4. ASSUME NEW d \in Clients,
               ThreadStep(d) \/ ThreadReads(d) \/ TaskStep(d) \/ HandleUpdate(d)
        PROVE  Fallen(c)'
    <3>1. client' = client
      BY <2>4 DEF ThreadStep, ThreadOpens, ThreadFails, ThreadEnds, ThreadReads, TaskStep,
                  TaskCatches, TaskWakes, HandleUpdate, entryVars
    <3>2. thread'[c] = thread[c] /\ task'[c] = task[c] /\ c \notin queued'
      BY <1>1, <2>4 DEF LifeInv, TypeOK, Fallen, ThreadStep, ThreadOpens, ThreadFails, ThreadEnds,
                        ThreadReads, TaskStep, TaskCatches, TaskWakes, HandleUpdate
    <3> QED
      BY <1>1, <3>1, <3>2 DEF Fallen
  <2>5. CASE UNCHANGED <<client, thread, task, queued>>
    BY <1>1, <2>5 DEF Fallen
  <2> QED
    BY <1>1, <2>2, <2>3, <2>4, <2>5
       DEF Next, EntryStep, EndSetup, BeginUnload, UserReloads, OpenDialog, Save, Push,
           RoomChanges, PushRuns, PushAnswered, PushFails, World, Plug, clientVars, entryVars, vars
<1>2. ASSUME LifeInv, [Next]_vars PROVE \A c \in Clients : Fallen(c) => Fallen(c)'
  BY <1>1, <1>2
<1> QED
  BY <1>2, LifeInvariant, PTL DEF Spec, SilenceIsFinal

-----------------------------------------------------------------------------
(***************************************************************************)
(* The dialogs whose end LifeCycle calls Save.                             *)
(***************************************************************************)
Pages == {"closed", "init", "controller", "controller_menu", "rooms_menu",
          "add_room", "edit_room", "room_detail", "remove_room"}

\* A list as the options and every dialog keep it: names are cut, one that ends with a
\* space is what is left of a longer one, and so are two that are the same.
Orderly(list) ==
    /\ list \in RoomLists
    /\ \A i \in DOMAIN list : Cut(list[i]) = list[i]
    /\ \A i \in DOMAIN list : Strip(list[i]) # list[i] => Shortened(list[i])
    /\ \A i, j \in DOMAIN list :
          i # j /\ Same(list[i], list[j]) => Shortened(list[i])

\* A dialog on page p keeps an orderly list, in which every room its user left alone
\* is still there; a room is selected on its page only.
Fits(p, list, room, kept) ==
    /\ Orderly(list)
    /\ p = "room_detail" => room \in DOMAIN list
    /\ p # "room_detail" => room = 0
    /\ p = "add_room" => Len(list) < MaxRooms
    /\ kept \subseteq Stripped(list)

FlowInv ==
    /\ FlowTypeOK
    /\ Orderly(options)
    /\ \A d \in Dialogs : Fits(page[d], rooms[d], selected[d], untouched[d])

-----------------------------------------------------------------------------
\* What the dialogs do to an orderly list.

LEMMA RoomList ==
    ASSUME NEW list
    PROVE  /\ list \in RoomLists <=> list \in Seq(Names) /\ Len(list) <= MaxRooms
           /\ list \in RoomLists => Len(list) \in Nat /\ DOMAIN list = 1..Len(list)
                                         /\ list \in [1..Len(list) -> Names]
<1>1. list \in RoomLists <=> list \in Seq(Names) /\ Len(list) <= MaxRooms
  BY SeqDef DEF RoomLists, SeqOf
<1>2. ASSUME list \in RoomLists
      PROVE  Len(list) \in Nat /\ DOMAIN list = 1..Len(list) /\ list \in [1..Len(list) -> Names]
  <2>1. list \in Seq(Names)
    BY <1>1, <1>2
  <2> QED
    BY <2>1, LenProperties
<1> QED
  BY <1>1, <1>2

LEMMA EmptyIsOrderly == Orderly(<<>>)
<1>1. <<>> \in RoomLists
  <2>1. MaxRooms \in Nat
    BY RoomAssumption
  <2>2. <<>> \in Seq(Names) /\ Len(<<>>) = 0
    BY EmptySeq
  <2>3. Len(<<>>) <= MaxRooms
    BY <2>1, <2>2
  <2> QED
    BY <2>2, <2>3, RoomList, Zenon
<1> QED
  BY <1>1 DEF Orderly

\* What is left of a longer name is so whatever the case of its letters and the spaces
\* at its end.
LEMMA ShortenedIsShared ==
    ASSUME NEW m, NEW n, Same(m, n), Shortened(m)
    PROVE  Shortened(n)
BY DEF Same, Shortened

LEMMA StripTwice ==
    ASSUME NEW m \in Names, NEW n
    PROVE  Same(Strip(m), n) <=> Same(m, n)
BY RoomAssumption DEF Same

\* _load_rooms leaves out no room of a list it has saved, and keeps it orderly.
LEMMA LoadsAll ==
    ASSUME NEW list, Orderly(list)
    PROVE  /\ Orderly(LoadRooms(list))
           /\ Stripped(list) \subseteq Stripped(LoadRooms(list))
<1> DEFINE new == LoadRooms(list)
<1>1. /\ Len(list) \in Nat /\ DOMAIN list = 1..Len(list) /\ list \in [1..Len(list) -> Names]
      /\ Len(list) <= MaxRooms /\ MaxRooms \in Nat
  BY RoomList, RoomAssumption DEF Orderly
<1>2. Min({Len(list), MaxRooms}) = Len(list)
  <2>1. \A m, n \in Nat : m <= n => Min({m, n}) = m
    BY DEF Min
  <2> QED
    BY <1>1, <2>1
<1>3. new = [i \in 1..Len(list) |-> Cut(Strip(list[i]))]
  BY <1>2 DEF LoadRooms
<1> HIDE DEF new
<1>4. \A i \in 1..Len(list) :
          /\ list[i] \in Names /\ Strip(list[i]) \in Names
          /\ new[i] = Strip(list[i]) /\ Strip(new[i]) = new[i] /\ Cut(new[i]) = new[i]
  BY <1>1, <1>3, RoomAssumption DEF Orderly
<1>5. /\ new \in [1..Len(list) -> Names] /\ DOMAIN new = 1..Len(list)
      /\ new \in Seq(Names) /\ Len(new) = Len(list)
  <2>1. new \in [1..Len(list) -> Names] /\ DOMAIN new = 1..Len(list)
    BY <1>3, <1>4
  <2>2. new \in Seq(Names)
    BY <1>1, <2>1, SeqDef
  <2> QED
    BY <1>1, <2>1, <2>2, LenProperties
<1>6. ASSUME NEW i \in DOMAIN new, NEW j \in DOMAIN new, i # j, Same(new[i], new[j])
      PROVE  Shortened(new[i])
  <2>1. Same(list[i], list[j]) /\ Same(list[i], new[i])
    BY <1>4, <1>5, <1>6 DEF Same
  <2>2. Shortened(list[i])
    BY <1>1, <1>5, <1>6, <2>1 DEF Orderly
  <2> QED
    BY <2>1, <2>2, ShortenedIsShared
<1>7. Stripped(list) \subseteq Stripped(new)
  BY <1>1, <1>4, <1>5 DEF Stripped
<1>8. new \in RoomLists
  BY <1>1, <1>5, RoomList
<1> QED
  BY <1>4, <1>5, <1>6, <1>7, <1>8 DEF Orderly, new

\* A name that is new in a list but shared by another of its rooms was shortened, or
\* that room was.
LEMMA SharedIsShortened ==
    ASSUME NEW list, Orderly(list), NEW j \in DOMAIN list, list[j] \in Names,
           NEW name \in Typed, Fold(list[j]) # Fold(name), Same(Cut(name), list[j])
    PROVE  Shortened(Cut(name)) /\ Shortened(list[j])
<1>1. CASE name # Cut(name)
  <2>1. Same(Cut(name), Cut(name))
    BY DEF Same
  <2>2. Shortened(Cut(name))
    BY <1>1, <2>1 DEF Shortened
  <2> QED
    BY <2>2, ShortenedIsShared
<1>2. CASE name = Cut(name)
  <2>1. Fold(name) = Fold(Strip(list[j]))
    BY <1>2 DEF Same, Typed
  <2>2. Strip(list[j]) # list[j]
    BY <2>1
  <2>3. Shortened(list[j]) /\ Same(list[j], Cut(name))
    BY <2>2 DEF Orderly, Same
  <2> QED
    BY <2>3, ShortenedIsShared
<1> QED
  BY <1>1, <1>2

\* A name that ends with a space after the cut was shortened.
LEMMA CutIsShortened ==
    ASSUME NEW name \in Typed, Strip(Cut(name)) # Cut(name)
    PROVE  Shortened(Cut(name))
<1>1. name # Cut(name) /\ Same(Cut(name), Cut(name))
  BY DEF Typed, Same
<1> QED
  BY <1>1 DEF Shortened

\* AddRoom.
LEMMA AppendedIsOrderly ==
    ASSUME NEW list, Orderly(list), Len(list) < MaxRooms,
           NEW name \in Typed, \A j \in DOMAIN list : Fold(list[j]) # Fold(name)
    PROVE  /\ Orderly(Append(list, Cut(name)))
           /\ Stripped(list) \subseteq Stripped(Append(list, Cut(name)))
<1> DEFINE new == Append(list, Cut(name))
<1>1. /\ Len(list) \in Nat /\ DOMAIN list = 1..Len(list) /\ list \in Seq(Names)
      /\ list \in [1..Len(list) -> Names]
      /\ MaxRooms \in Nat /\ Cut(name) \in Names /\ Cut(Cut(name)) = Cut(name)
  BY RoomList, RoomAssumption DEF Orderly, Typed
<1>2. /\ new \in Seq(Names) /\ Len(new) = Len(list) + 1 /\ DOMAIN new = 1..Len(list) + 1
      /\ \A i \in 1..Len(list) : new[i] = list[i]
      /\ new[Len(list) + 1] = Cut(name)
  BY <1>1, AppendProperties, LenProperties
<1> HIDE DEF new
<1>3. new \in RoomLists
  BY <1>1, <1>2, RoomList
<1>4. \A i \in DOMAIN new : Cut(new[i]) = new[i]
  BY <1>1, <1>2 DEF Orderly
<1>5. \A i \in DOMAIN new : Strip(new[i]) # new[i] => Shortened(new[i])
  BY <1>1, <1>2, CutIsShortened DEF Orderly
<1>6. ASSUME NEW j \in DOMAIN list, Same(Cut(name), list[j])
      PROVE  Shortened(Cut(name)) /\ Shortened(list[j])
  BY <1>1, <1>6, SharedIsShortened
<1>7. ASSUME NEW i \in DOMAIN new, NEW j \in DOMAIN new, i # j, Same(new[i], new[j])
      PROVE  Shortened(new[i])
  <2>1. CASE i \in DOMAIN list /\ j \in DOMAIN list
    BY <1>1, <1>2, <1>7, <2>1 DEF Orderly
  <2>2. CASE i = Len(list) + 1
    BY <1>1, <1>2, <1>6, <1>7, <2>2
  <2>3. CASE j = Len(list) + 1
    <3>1. i \in DOMAIN list /\ new[i] = list[i] /\ Same(Cut(name), list[i])
      BY <1>1, <1>2, <1>7, <2>3 DEF Same
    <3> QED
      BY <1>6, <3>1
  <2> QED
    BY <1>1, <1>2, <2>1, <2>2, <2>3
<1>8. Stripped(list) \subseteq Stripped(new)
  BY <1>1, <1>2 DEF Stripped
<1> QED
  BY <1>3, <1>4, <1>5, <1>7, <1>8 DEF Orderly, new

\* EditRoom.
LEMMA RenamedIsOrderly ==
    ASSUME NEW list, Orderly(list), NEW room \in DOMAIN list,
           NEW name \in Typed, \A j \in DOMAIN list \ {room} : Fold(list[j]) # Fold(name)
    PROVE  /\ Orderly([list EXCEPT ![room] = Cut(name)])
           /\ Stripped(list) \ ({Strip(list[room])} \ {Strip(Cut(name))})
                 \subseteq Stripped([list EXCEPT ![room] = Cut(name)])
<1> DEFINE new == [list EXCEPT ![room] = Cut(name)]
<1>1. /\ Len(list) \in Nat /\ DOMAIN list = 1..Len(list) /\ list \in Seq(Names)
      /\ list \in [1..Len(list) -> Names] /\ Len(list) <= MaxRooms
      /\ Cut(name) \in Names /\ Cut(Cut(name)) = Cut(name)
  BY RoomList, RoomAssumption DEF Orderly, Typed
<1>2. /\ new \in Seq(Names) /\ Len(new) = Len(list) /\ DOMAIN new = DOMAIN list
      /\ \A i \in DOMAIN list : new[i] = IF i = room THEN Cut(name) ELSE list[i]
  BY <1>1, ExceptSeq
<1> HIDE DEF new
<1>3. new \in RoomLists
  BY <1>1, <1>2, RoomList
<1>4. \A i \in DOMAIN new : Cut(new[i]) = new[i]
  BY <1>1, <1>2 DEF Orderly
<1>5. \A i \in DOMAIN new : Strip(new[i]) # new[i] => Shortened(new[i])
  BY <1>1, <1>2, CutIsShortened DEF Orderly
<1>6. ASSUME NEW j \in DOMAIN list \ {room}, Same(Cut(name), list[j])
      PROVE  Shortened(Cut(name)) /\ Shortened(list[j])
  BY <1>1, <1>6, SharedIsShortened
<1>7. ASSUME NEW i \in DOMAIN new, NEW j \in DOMAIN new, i # j, Same(new[i], new[j])
      PROVE  Shortened(new[i])
  <2>1. CASE i # room /\ j # room
    BY <1>2, <1>7, <2>1 DEF Orderly
  <2>2. CASE i = room
    BY <1>2, <1>6, <1>7, <2>2
  <2>3. CASE j = room
    <3>1. i \in DOMAIN list \ {room} /\ new[i] = list[i] /\ Same(Cut(name), list[i])
      BY <1>2, <1>7, <2>3 DEF Same
    <3> QED
      BY <1>6, <3>1
  <2> QED
    BY <2>1, <2>2, <2>3
<1>8. Stripped(list) \ ({Strip(list[room])} \ {Strip(Cut(name))}) \subseteq Stripped(new)
  BY <1>1, <1>2 DEF Stripped
<1> QED
  BY <1>3, <1>4, <1>5, <1>7, <1>8 DEF Orderly, new

\* RemoveRoom.
LEMMA RemovedIsOrderly ==
    ASSUME NEW list, Orderly(list), NEW room \in DOMAIN list
    PROVE  /\ Orderly(RemoveAt(list, room))
           /\ Stripped(list) \ {Strip(list[room])} \subseteq Stripped(RemoveAt(list, room))
<1> DEFINE new == RemoveAt(list, room)
           head == SubSeq(list, 1, room - 1)
           tail == SubSeq(list, room + 1, Len(list))
<1>1. /\ Len(list) \in Nat /\ DOMAIN list = 1..Len(list) /\ list \in Seq(Names)
      /\ list \in [1..Len(list) -> Names] /\ Len(list) <= MaxRooms /\ MaxRooms \in Nat
  BY RoomList, RoomAssumption DEF Orderly
<1>2. room \in 1..Len(list)
  BY <1>1
<1>3. /\ head \in Seq(Names) /\ Len(head) = room - 1
      /\ \A i \in 1..(room - 1) : head[i] = list[i]
  <2>1. \A i \in 1..(room - 1) : list[i] \in Names
    BY <1>1, <1>2
  <2>2. /\ head \in Seq(Names) /\ Len(head) = IF 1 <= room - 1 THEN room - 1 - 1 + 1 ELSE 0
        /\ \A i \in 1..(room - 1 - 1 + 1) : head[i] = list[1 + i - 1]
    BY <1>2, <2>1, SubSeqProperties
  <2> HIDE DEF head
  <2> QED
    BY <1>1, <1>2, <2>2
<1>4. /\ tail \in Seq(Names) /\ Len(tail) = Len(list) - room
      /\ \A i \in 1..(Len(list) - room) : tail[i] = list[i + room]
  <2>1. \A i \in (room + 1)..Len(list) : list[i] \in Names
    BY <1>1, <1>2
  <2>2. /\ tail \in Seq(Names)
        /\ Len(tail) = IF room + 1 <= Len(list) THEN Len(list) - (room + 1) + 1 ELSE 0
        /\ \A i \in 1..(Len(list) - (room + 1) + 1) : tail[i] = list[(room + 1) + i - 1]
    BY <1>1, <1>2, <2>1, SubSeqProperties
  <2> HIDE DEF tail
  <2>3. Len(tail) = Len(list) - room
    BY <1>1, <1>2, <2>2
  <2>4. ASSUME NEW i \in 1..(Len(list) - room)
        PROVE  tail[i] = list[i + room]
    <3>1. i \in 1..(Len(list) - (room + 1) + 1) /\ (room + 1) + i - 1 = i + room
      BY <1>1, <1>2
    <3> QED
      BY <2>2, <3>1
  <2> QED
    BY <2>2, <2>3, <2>4
<1>5. /\ new \in Seq(Names) /\ Len(new) = Len(list) - 1 /\ DOMAIN new = 1..Len(list) - 1
      /\ \A i \in 1..Len(list) - 1 : new[i] = IF i < room THEN list[i] ELSE list[i + 1]
  <2>1. new = head \o tail
    BY DEF RemoveAt
  <2> HIDE DEF new, head, tail
  <2>2. /\ new \in Seq(Names) /\ Len(new) = Len(head) + Len(tail)
        /\ \A i \in 1..Len(head) + Len(tail) :
              new[i] = IF i <= Len(head) THEN head[i] ELSE tail[i - Len(head)]
    BY <1>3, <1>4, <2>1, ConcatProperties
  <2>3. Len(new) = Len(list) - 1 /\ DOMAIN new = 1..Len(list) - 1
    BY <1>1, <1>2, <1>3, <1>4, <2>2, LenProperties
  <2>4. ASSUME NEW i \in 1..Len(list) - 1
        PROVE  new[i] = IF i < room THEN list[i] ELSE list[i + 1]
    <3>1. CASE i < room
      BY <1>1, <1>2, <1>3, <1>4, <2>2, <2>4, <3>1
    <3>2. CASE i >= room
      <4>1. i - (room - 1) \in 1..(Len(list) - room) /\ (i - (room - 1)) + room = i + 1
        BY <1>1, <1>2, <2>4, <3>2
      <4>2. new[i] = tail[i - (room - 1)]
        BY <1>1, <1>2, <1>3, <1>4, <2>2, <2>4, <3>2
      <4>3. tail[i - (room - 1)] = list[(i - (room - 1)) + room]
        BY <1>4, <4>1
      <4>4. new[i] = list[i + 1]
        BY <4>1, <4>2, <4>3
      <4>5. ~(i < room)
        BY <1>2, <2>4, <3>2
      <4> QED
        BY <4>4, <4>5
    <3> QED
      BY <1>1, <1>2, <3>1, <3>2
  <2> QED
    BY <2>2, <2>3, <2>4
<1> HIDE DEF new
<1>6. new \in RoomLists
  BY <1>1, <1>5, RoomList
<1> DEFINE at(i) == IF i < room THEN i ELSE i + 1
<1>7. \A i \in DOMAIN new : at(i) \in DOMAIN list /\ new[i] = list[at(i)]
  BY <1>1, <1>2, <1>5
<1>8. \A i, j \in DOMAIN new : i # j => at(i) # at(j)
  BY <1>1, <1>2, <1>5
<1> HIDE DEF at
<1>9. \A i \in DOMAIN new : Cut(new[i]) = new[i]
  BY <1>7 DEF Orderly
<1>10. /\ \A i \in DOMAIN new : Strip(new[i]) # new[i] => Shortened(new[i])
       /\ \A i, j \in DOMAIN new :
              i # j /\ Same(new[i], new[j]) => Shortened(new[i])
  BY <1>7, <1>8 DEF Orderly
<1>11. Stripped(list) \ {Strip(list[room])} \subseteq Stripped(new)
  <2>1. ASSUME NEW i \in DOMAIN list, i # room
        PROVE  \E k \in DOMAIN new : new[k] = list[i]
    <3>1. CASE i < room
      BY <1>1, <1>2, <1>5, <2>1, <3>1
    <3>2. CASE i > room
      <4>1. i - 1 \in 1..Len(list) - 1 /\ ~(i - 1 < room) /\ (i - 1) + 1 = i
        BY <1>1, <1>2, <2>1, <3>2
      <4> QED
        BY <1>5, <4>1
    <3> QED
      BY <1>1, <1>2, <2>1, <3>1, <3>2
  <2> QED
    BY <2>1 DEF Stripped
<1> QED
  BY <1>1, <1>2, <1>6, <1>9, <1>10, <1>11 DEF Orderly, new

-----------------------------------------------------------------------------
\* A step of dialog d, which leaves every other one alone.
LEMMA OneDialogSteps ==
    ASSUME FlowInv, NEW d \in Dialogs,
           NEW p \in Pages, NEW list, NEW on \in BOOLEAN, NEW room, NEW kept \in SUBSET Names,
           Fits(p, list, room, kept),
           page' = [page EXCEPT ![d] = p], rooms' = [rooms EXCEPT ![d] = list],
           smart' = [smart EXCEPT ![d] = on], selected' = [selected EXCEPT ![d] = room],
           untouched' = [untouched EXCEPT ![d] = kept],
           options' \in RoomLists, Orderly(options'),
           opened' \in 0..MaxOpened
    PROVE  FlowInv'
<1>1. /\ page \in [Dialogs -> Pages] /\ rooms \in [Dialogs -> RoomLists]
      /\ smart \in [Dialogs -> BOOLEAN]
      /\ untouched \in [Dialogs -> SUBSET Names]
      /\ selected \in [Dialogs -> 0..MaxRooms]
  BY DEF FlowInv, FlowTypeOK, Pages
<1>2. list \in RoomLists /\ room \in 0..MaxRooms /\ room <= Len(list)
  <2>1. /\ list \in RoomLists /\ Len(list) \in Nat /\ DOMAIN list = 1..Len(list)
        /\ Len(list) <= MaxRooms /\ MaxRooms \in Nat
    BY RoomList, RoomAssumption DEF Fits, Orderly
  <2> QED
    BY <2>1 DEF Fits
<1>3. FlowTypeOK'
  <2>1. /\ page' \in [Dialogs -> Pages] /\ rooms' \in [Dialogs -> RoomLists]
        /\ smart' \in [Dialogs -> BOOLEAN] /\ selected' \in [Dialogs -> 0..MaxRooms]
        /\ untouched' \in [Dialogs -> SUBSET Names]
    BY <1>1, <1>2
  <2>2. ASSUME NEW e \in Dialogs PROVE selected'[e] <= Len(rooms'[e])
    <3>1. CASE e = d
      BY <1>1, <1>2, <3>1
    <3>2. CASE e # d
      BY <1>1, <3>2 DEF FlowInv, FlowTypeOK
    <3> QED
      BY <3>1, <3>2
  <2> QED
    BY <2>1, <2>2 DEF FlowTypeOK, Pages
<1>4. ASSUME NEW e \in Dialogs
      PROVE  Fits(page'[e], rooms'[e], selected'[e], untouched'[e])
  <2>1. CASE e = d
    BY <1>1, <2>1
  <2>2. CASE e # d
    BY <1>1, <2>2 DEF FlowInv
  <2> QED
    BY <2>1, <2>2
<1> QED
  BY <1>3, <1>4 DEF FlowInv

\* What is known of a dialog before a step.
LEMMA DialogNow ==
    ASSUME FlowInv, NEW d \in Dialogs
    PROVE  /\ Fits(page[d], rooms[d], selected[d], untouched[d])
           /\ page[d] \in Pages /\ smart[d] \in BOOLEAN
           /\ untouched[d] \in SUBSET Names
           /\ page = [page EXCEPT ![d] = page[d]] /\ rooms = [rooms EXCEPT ![d] = rooms[d]]
           /\ smart = [smart EXCEPT ![d] = smart[d]]
           /\ selected = [selected EXCEPT ![d] = selected[d]]
           /\ untouched = [untouched EXCEPT ![d] = untouched[d]]
           /\ options \in RoomLists /\ Orderly(options)
           /\ opened \in 0..MaxOpened
BY DEF FlowInv, FlowTypeOK, Pages

\* A page is left for another on which no room is selected or added.
LEMMA GoToKeeps ==
    ASSUME FlowInv, NEW d \in Dialogs, NEW p \in Pages, GoTo(d, p),
           page[d] # "room_detail", p # "room_detail",
           p = "add_room" => Len(rooms[d]) < MaxRooms
    PROVE  FlowInv'
<1>1. PICK list, room, on, kept :
          /\ list = rooms[d] /\ room = selected[d] /\ on = smart[d]
          /\ kept = untouched[d]
  OBVIOUS
<1>2. /\ page' = [page EXCEPT ![d] = p]
      /\ rooms' = [rooms EXCEPT ![d] = list]
      /\ smart' = [smart EXCEPT ![d] = on]
      /\ selected' = [selected EXCEPT ![d] = room]
      /\ untouched' = [untouched EXCEPT ![d] = kept]
      /\ options' = options /\ opened' = opened
  BY <1>1, DialogNow DEF GoTo
<1>3. Fits(p, list, room, kept)
  BY <1>1, DialogNow DEF Fits
<1>4. /\ on \in BOOLEAN /\ kept \in SUBSET Names
      /\ options' \in RoomLists /\ Orderly(options')
      /\ opened' \in 0..MaxOpened
  BY <1>1, <1>2, DialogNow
<1> QED
  BY <1>2, <1>3, <1>4, OneDialogSteps

LEMMA OpenKeeps ==
    ASSUME FlowInv, NEW d \in Dialogs, Open(d)
    PROVE  FlowInv'
<1>1. /\ page' = [page EXCEPT ![d] = "init"]
      /\ rooms' = [rooms EXCEPT ![d] = LoadRooms(options)]
      /\ smart' = [smart EXCEPT ![d] = FALSE]
      /\ selected' = [selected EXCEPT ![d] = 0]
      /\ untouched' = [untouched EXCEPT ![d] = Stripped(options)]
      /\ opened < MaxOpened /\ opened' = opened + 1 /\ options' = options
  BY DEF Open
<1>2. Stripped(options) \in SUBSET Names
  <2>1. options \in [1..Len(options) -> Names] /\ DOMAIN options = 1..Len(options)
    BY RoomList DEF FlowInv, Orderly
  <2> QED
    BY <2>1, RoomAssumption DEF Stripped
<1>3. Fits("init", LoadRooms(options), 0, Stripped(options))
  BY LoadsAll DEF Fits, FlowInv
<1>4. opened' \in 0..MaxOpened /\ MaxOpened \in Nat
  BY <1>1, DialogNow, RoomAssumption
<1>5. options' \in RoomLists /\ Orderly(options')
  BY <1>1, DialogNow
<1>6. "init" \in Pages /\ FALSE \in BOOLEAN
  BY DEF Pages
<1> QED
  BY <1>1, <1>2, <1>3, <1>4, <1>5, <1>6, OneDialogSteps

LEMMA DiscardKeeps ==
    ASSUME FlowInv, NEW d \in Dialogs, Close(d) \/ Replace(d)
    PROVE  FlowInv'
<1>1. /\ page' = [page EXCEPT ![d] = "closed"]
      /\ rooms' = [rooms EXCEPT ![d] = <<>>]
      /\ smart' = [smart EXCEPT ![d] = FALSE]
      /\ selected' = [selected EXCEPT ![d] = 0]
      /\ untouched' = [untouched EXCEPT ![d] = {}]
      /\ opened' = opened
      /\ options' = options \/ options' = rooms[d]
  BY DEF Close, Replace, Discard
<1>2. Fits("closed", <<>>, 0, {})
  BY EmptyIsOrderly DEF Fits
<1>3. options' \in RoomLists /\ Orderly(options')
  BY <1>1, DialogNow DEF Fits, Orderly
<1>4. "closed" \in Pages /\ FALSE \in BOOLEAN /\ {} \in SUBSET Names /\ opened' \in 0..MaxOpened
  BY <1>1, DialogNow DEF Pages
<1> QED
  BY <1>1, <1>2, <1>3, <1>4, OneDialogSteps

\* The list changes and the menu of rooms is back.
LEMMA ChangedKeeps ==
    ASSUME FlowInv, NEW d \in Dialogs, NEW list, NEW gone,
           Changed(d, list, gone), Orderly(list),
           Stripped(rooms[d]) \ gone \subseteq Stripped(list)
    PROVE  FlowInv'
<1>1. /\ page' = [page EXCEPT ![d] = "rooms_menu"]
      /\ rooms' = [rooms EXCEPT ![d] = list]
      /\ selected' = [selected EXCEPT ![d] = 0]
      /\ untouched' = [untouched EXCEPT ![d] = untouched[d] \ gone]
      /\ UNCHANGED <<options, smart, opened>>
  BY DEF Changed, Deselected
<1>2. Fits("rooms_menu", list, 0, untouched[d] \ gone)
  BY DialogNow DEF Fits
<1>3. smart' = [smart EXCEPT ![d] = smart[d]]
  BY <1>1, DialogNow
<1>4. /\ smart[d] \in BOOLEAN /\ "rooms_menu" \in Pages
      /\ untouched[d] \ gone \in SUBSET Names
      /\ options' \in RoomLists /\ Orderly(options')
      /\ opened' \in 0..MaxOpened
  BY <1>1, DialogNow DEF Pages
<1> QED
  BY <1>1, <1>2, <1>3, <1>4, OneDialogSteps

LEMMA RoomsKeep ==
    ASSUME FlowInv, NEW d \in Dialogs,
           AddRoom(d) \/ EditRoom(d) \/ RemoveRoom(d)
    PROVE  FlowInv'
<1> DEFINE list == rooms[d]
<1>1. /\ Orderly(list) /\ DOMAIN list = 1..Len(list) /\ Len(list) \in Nat
      /\ page[d] = "room_detail" => selected[d] \in DOMAIN list
      /\ page[d] = "add_room" => Len(list) < MaxRooms
  BY DialogNow, RoomList DEF Fits, Orderly
<1>2. CASE AddRoom(d)
  <2>1. PICK name \in Typed :
            Free(d, name, 0) /\ Changed(d, Append(list, Cut(name)), {})
    BY <1>2 DEF AddRoom
  <2>2. \A j \in DOMAIN list : Fold(list[j]) # Fold(name)
    BY <1>1, <2>1 DEF Free
  <2>3. /\ Orderly(Append(list, Cut(name)))
        /\ Stripped(list) \subseteq Stripped(Append(list, Cut(name)))
    BY <1>1, <1>2, <2>2, AppendedIsOrderly DEF AddRoom
  <2> QED
    BY <2>1, <2>3, ChangedKeeps
<1>3. CASE EditRoom(d)
  <2> DEFINE room == selected[d]
  <2>1. PICK name \in Typed :
            /\ Free(d, name, room)
            /\ Changed(d, [list EXCEPT ![room] = Cut(name)], {Strip(list[room])} \ {Strip(Cut(name))})
    BY <1>3 DEF EditRoom
  <2>2. room \in DOMAIN list /\ \A j \in DOMAIN list \ {room} : Fold(list[j]) # Fold(name)
    BY <1>1, <1>3, <2>1 DEF Free, EditRoom
  <2>3. /\ Orderly([list EXCEPT ![room] = Cut(name)])
        /\ Stripped(list) \ ({Strip(list[room])} \ {Strip(Cut(name))})
              \subseteq Stripped([list EXCEPT ![room] = Cut(name)])
    BY <1>1, <2>2, RenamedIsOrderly
  <2> QED
    BY <2>1, <2>3, ChangedKeeps
<1>4. CASE RemoveRoom(d)
  <2>1. PICK room \in DOMAIN list : Changed(d, RemoveAt(list, room), {Strip(list[room])})
    BY <1>4 DEF RemoveRoom
  <2>2. /\ Orderly(RemoveAt(list, room))
        /\ Stripped(list) \ {Strip(list[room])} \subseteq Stripped(RemoveAt(list, room))
    BY <1>1, RemovedIsOrderly
  <2> QED
    BY <2>1, <2>2, ChangedKeeps
<1> QED
  BY <1>2, <1>3, <1>4

LEMMA ControllerKeeps ==
    ASSUME FlowInv, NEW d \in Dialogs,
           SubmitController(d) \/ SelectRoom(d)
    PROVE  FlowInv'
<1>1. PICK list, kept : list = rooms[d] /\ kept = untouched[d]
  OBVIOUS
<1>2. UNCHANGED <<options, rooms, untouched, opened>>
  BY DEF SubmitController, SelectRoom
<1>3. /\ rooms' = [rooms EXCEPT ![d] = list]
      /\ untouched' = [untouched EXCEPT ![d] = kept]
  BY <1>1, <1>2, DialogNow
<1>4. /\ kept \in SUBSET Names
      /\ options' \in RoomLists /\ Orderly(options')
      /\ opened' \in 0..MaxOpened
  BY <1>1, <1>2, DialogNow
<1>5. "controller_menu" \in Pages /\ "room_detail" \in Pages
  BY DEF Pages
<1>6. CASE SubmitController(d)
  <2>1. PICK on \in BOOLEAN : smart' = [smart EXCEPT ![d] = on]
    BY <1>6 DEF SubmitController
  <2>2. /\ page[d] = "controller" /\ page' = [page EXCEPT ![d] = "controller_menu"]
        /\ selected' = [selected EXCEPT ![d] = 0]
    BY <1>6, DialogNow DEF SubmitController, Fits
  <2>3. Fits("controller_menu", list, 0, kept)
    BY <1>1, <2>2, DialogNow DEF Fits
  <2> QED
    BY <1>3, <1>4, <1>5, <2>1, <2>2, <2>3, OneDialogSteps
<1>7. CASE SelectRoom(d)
  <2>1. PICK i \in DOMAIN list : selected' = [selected EXCEPT ![d] = i]
    BY <1>1, <1>7 DEF SelectRoom
  <2>2. PICK on \in BOOLEAN : on = smart[d]
    BY DialogNow
  <2>3. /\ page' = [page EXCEPT ![d] = "room_detail"]
        /\ smart' = [smart EXCEPT ![d] = on]
    BY <1>7, <2>2, DialogNow DEF SelectRoom
  <2>4. Fits("room_detail", list, i, kept)
    BY <1>1, <2>1, DialogNow DEF Fits
  <2> QED
    BY <1>3, <1>4, <1>5, <2>1, <2>2, <2>3, <2>4, OneDialogSteps
<1> QED
  BY <1>6, <1>7

-----------------------------------------------------------------------------
\* An orderly list is kept by every dialog and by the options.
THEOREM FlowInvariant == FlowSpec => []FlowInv
<1>1. ASSUME FlowInit PROVE FlowInv
  <2>1. /\ page = [d \in Dialogs |-> "closed"] /\ rooms = [d \in Dialogs |-> <<>>]
        /\ smart = [d \in Dialogs |-> FALSE] /\ selected = [d \in Dialogs |-> 0]
        /\ untouched = [d \in Dialogs |-> {}] /\ opened = 0
    BY <1>1 DEF FlowInit
  <2>2. /\ options \in RoomLists /\ Orderly(options)
    BY <1>1 DEF FlowInit, Orderly, Same
  <2>3. /\ Orderly(<<>>) /\ <<>> \in RoomLists
    BY EmptyIsOrderly DEF Orderly
  <2>4. Fits("closed", <<>>, 0, {})
    BY <2>3 DEF Fits
  <2>5. 0 \in 0..MaxRooms /\ 0 \in 0..MaxOpened /\ Len(<<>>) = 0
    BY RoomAssumption
  <2>6. FlowTypeOK
    BY <2>1, <2>2, <2>3, <2>5 DEF FlowTypeOK
  <2>7. ASSUME NEW d \in Dialogs
        PROVE  Fits(page[d], rooms[d], selected[d], untouched[d])
    <3>1. page[d] = "closed" /\ rooms[d] = <<>> /\ selected[d] = 0 /\ untouched[d] = {}
      BY <2>1
    <3> QED
      BY <2>4, <3>1
  <2> QED
    BY <2>2, <2>6, <2>7 DEF FlowInv
<1>2. ASSUME FlowInv, [FlowNext]_flowVars PROVE FlowInv'
  <2>1. ASSUME NEW d \in Dialogs, Open(d) PROVE FlowInv'
    BY <1>2, <2>1, OpenKeeps
  <2>2. ASSUME NEW d \in Dialogs, Close(d) PROVE FlowInv'
    BY <1>2, <2>2, DiscardKeeps
  <2>3. ASSUME NEW d \in Dialogs, SubmitInit(d) PROVE FlowInv'
    <3>1. CASE Replace(d)
      BY <1>2, <2>3, <3>1, DiscardKeeps
    <3>2. CASE GoTo(d, "controller")
      <4>1. page[d] # "room_detail" /\ "controller" \in Pages
        BY <2>3 DEF SubmitInit, Pages
      <4> QED
        BY <1>2, <2>3, <3>2, <4>1, GoToKeeps
    <3> QED
      BY <2>3, <3>1, <3>2 DEF SubmitInit
  <2>4. ASSUME NEW d \in Dialogs, SubmitController(d) \/ SelectRoom(d) PROVE FlowInv'
    BY <1>2, <2>4, ControllerKeeps
  <2>5. ASSUME NEW d \in Dialogs, ChooseInMenu(d) PROVE FlowInv'
    <3>1. page[d] # "room_detail"
      BY <2>5 DEF ChooseInMenu
    <3>2. CASE GoTo(d, "add_room") /\ Len(rooms[d]) < MaxRooms
      BY <1>2, <2>5, <3>1, <3>2, GoToKeeps DEF Pages
    <3>3. ASSUME NEW p \in {"rooms_menu", "edit_room", "remove_room", "controller_menu"},
                 GoTo(d, p)
          PROVE  FlowInv'
      <4>1. p \in Pages /\ p # "room_detail" /\ p # "add_room"
        BY DEF Pages
      <4> QED
        BY <1>2, <2>5, <3>1, <3>3, <4>1, GoToKeeps
    <3> QED
      BY <2>5, <3>2, <3>3 DEF ChooseInMenu
  <2>6. ASSUME NEW d \in Dialogs, AddRoom(d) \/ EditRoom(d) \/ RemoveRoom(d)
        PROVE  FlowInv'
    BY <1>2, <2>6, RoomsKeep
  <2>7. ASSUME NEW d \in Dialogs, Finish(d) PROVE FlowInv'
    BY <1>2, <2>7, DiscardKeeps DEF Finish
  <2>8. CASE UNCHANGED flowVars
    BY <1>2, <2>8 DEF flowVars, dialog, FlowInv, FlowTypeOK
  <2> QED
    BY <1>2, <2>1, <2>2, <2>3, <2>4, <2>5, <2>6, <2>7, <2>8 DEF FlowNext
<1> QED
  BY <1>1, <1>2, PTL DEF FlowSpec

\* The dialogs, their rooms and the options keep their types: never more than
\* MAX_SMART_ROOMS, and a selected room is one of the list
\* (config_flow.py PassiveLinkOptionsFlow).
THEOREM RoomsKeepType == FlowSpec => []FlowTypeOK
<1>1. FlowInv => FlowTypeOK
  BY DEF FlowInv
<1> QED
  BY <1>1, FlowInvariant, PTL

\* Two saved rooms share a name only if it is what is left of a longer one, whatever
\* the dialogs do to the same options at the same time (_validate_room).
THEOREM NamesAreUnique == FlowSpec => []RoomNamesAreUnique
<1>1. FlowInv => RoomNamesAreUnique
  BY DEF FlowInv, Orderly, RoomNamesAreUnique
<1> QED
  BY <1>1, FlowInvariant, PTL

\* A room leaves the options only because its user took it away in the dialog that
\* is finished, or because that dialog never saw it (async_create_entry).
THEOREM OnlyUserRemoves == FlowSpec => OnlyTheUserRemovesRooms
<1> DEFINE Taken == \A n \in Stripped(options) \ Stripped(options') :
                       \E d \in Dialogs : /\ page[d] # "closed" /\ page'[d] = "closed"
                                          /\ n \notin untouched[d]
<1>1. ASSUME FlowInv, NEW d \in Dialogs, Replace(d), page[d] # "closed"
      PROVE  Taken
  <2>1. options' = rooms[d]
    BY <1>1 DEF Replace
  <2>2. page'[d] = "closed"
    BY <1>1 DEF Replace, Discard, FlowInv, FlowTypeOK
  <2>3. untouched[d] \subseteq Stripped(rooms[d])
    BY <1>1, DialogNow DEF Fits
  <2> QED
    BY <1>1, <2>1, <2>2, <2>3
<1>2. ASSUME UNCHANGED options PROVE Taken
  BY <1>2
<1>3. ASSUME FlowInv, [FlowNext]_flowVars PROVE Taken
  <2>1. CASE UNCHANGED flowVars
    BY <1>2, <2>1 DEF flowVars
  <2>2. ASSUME NEW d \in Dialogs,
               Open(d) \/ Close(d) \/ SubmitInit(d) \/ SubmitController(d)
               \/ ChooseInMenu(d) \/ AddRoom(d) \/ SelectRoom(d)
               \/ EditRoom(d) \/ RemoveRoom(d) \/ Finish(d)
        PROVE  Taken
    <3>1. UNCHANGED options \/ (Replace(d) /\ page[d] # "closed")
      BY <2>2 DEF Open, Close, SubmitInit, SubmitController,
                  ChooseInMenu, AddRoom, SelectRoom, EditRoom,
                  RemoveRoom, Finish, GoTo, Changed
    <3> QED
      BY <1>1, <1>2, <1>3, <3>1
  <2> QED
    BY <1>3, <2>1, <2>2 DEF FlowNext
<1> QED
  BY <1>3, FlowInvariant, PTL DEF FlowSpec, OnlyTheUserRemovesRooms
=============================================================================
