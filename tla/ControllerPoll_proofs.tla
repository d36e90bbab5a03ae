----------------------- MODULE ControllerPoll_proofs -----------------------
(***************************************************************************)
(* Proofs about the state of the Raspberry Pi's controller, for any set of *)
(* alarms, any number of senders and every timeout, interval and pause.    *)
(***************************************************************************)
EXTENDS ControllerPoll, TLAPS

Requests == [ step   : {"idle", "sent", "good", "bad"},
              alarms : SUBSET Codes,
              age    : 0..Timeout,
              old    : BOOLEAN ]

\* The two fresh requests are requests, and the times are what they are.
LEMMA Times ==
    /\ Longest \in Nat \ {0} /\ Poll <= Longest /\ MaxDelay <= Longest
    /\ StaleTime = Longest + 2 * Timeout /\ StaleTime \in Nat
    /\ Timeout \in Nat \ {0} /\ MaxDelay \in Nat \ {0} /\ Poll \in Nat \ {0}
  BY PollAssumption DEF Longest, Larger, StaleTime

LEMMA FreshRequests ==
    /\ Idle \in Requests /\ Sent \in Requests /\ Idle # Sent
    /\ Idle = [step |-> "idle", alarms |-> {}, age |-> 0, old |-> FALSE]
    /\ Sent = [step |-> "sent", alarms |-> {}, age |-> 0, old |-> FALSE]
  BY Times DEF Idle, Sent, Request, Requests

LEMMA PollSends == "poll" \in Senders /\ Others \subseteq Senders
  BY DEF Senders

-----------------------------------------------------------------------------
\* Types.

LEMMA InitTypes == Init => TypeOK
  <1> SUFFICES ASSUME Init PROVE TypeOK
    OBVIOUS
  <1>1. requests \in [Senders -> Requests]
    BY FreshRequests DEF Init
  <1>2. ago \in [SUBSET Codes -> 0..(StaleTime + 1)]
    BY Times DEF Init
  <1>3. delay \in 1..MaxDelay /\ pause \in 0..Longest
    BY Times DEF Init
  <1> QED
    BY <1>1, <1>2, <1>3 DEF Init, TypeOK, Requests

\* What every answer does to the views and notes keeps their types.
LEMMA ShowTypes ==
    ASSUME TypeOK, NEW alarms \in SUBSET Codes, Show(alarms) \/ ShowOld(alarms)
    PROVE  /\ {shown', codes', oldCodes', notes', removed'} \subseteq SUBSET Codes
           /\ connected' \in BOOLEAN
  <1>1. /\ shown \subseteq Codes /\ codes \subseteq Codes /\ oldCodes \subseteq Codes
        /\ notes \subseteq Codes /\ removed \subseteq Codes
        /\ connected \in BOOLEAN /\ alarms \subseteq Codes
    BY DEF TypeOK
  <1>2. /\ shown' \subseteq Codes /\ codes' \subseteq Codes /\ oldCodes' \subseteq Codes
        /\ notes' \subseteq Codes /\ removed' \subseteq Codes
        /\ connected' \in BOOLEAN
    <2>1. CASE Show(alarms)
      BY <1>1, <2>1 DEF Show, NotesAfter
    <2>2. CASE ShowOld(alarms)
      BY <1>1, <2>2 DEF ShowOld, NotesAfter
    <2> QED
      BY <2>1, <2>2
  <1> QED
    BY <1>2

LEMMA StepTypes == TypeOK /\ [Next]_vars => TypeOK'
  <1> SUFFICES ASSUME TypeOK, [Next]_vars PROVE TypeOK'
    OBVIOUS
  <1> USE Times, FreshRequests, PollSends
  <1>0. requests \in [Senders -> Requests]
    BY DEF TypeOK, Requests
  <1>r. \A s \in Senders : requests[s] \in Requests
    BY <1>0
  <1>s. ASSUME requests' \in [Senders -> Requests],
               {active', shown', codes', oldCodes', notes', removed'} \subseteq SUBSET Codes,
               polling' \in BOOLEAN, connected' \in BOOLEAN,
               delay' \in 1..MaxDelay, pause' \in 0..Longest,
               ago' \in [SUBSET Codes -> 0..(StaleTime + 1)]
        PROVE  TypeOK'
    BY <1>s DEF TypeOK, Requests
  <1>1. CASE Change
    BY <1>1, <1>0, <1>s DEF Change, TypeOK, pollVars, alarmVars
  <1>2. ASSUME NEW s \in Senders, Answer(s) PROVE TypeOK'
    <2>1. PICK step \in {"good", "bad"} :
              requests' = [requests EXCEPT ![s].step = step, ![s].alarms = active]
      BY <1>2 DEF Answer
    <2>2. requests' = [requests EXCEPT ![s] = [requests[s] EXCEPT !.step = step, !.alarms = active]]
      BY <2>1, <1>r, <1>0
    <2>3. [requests[s] EXCEPT !.step = step, !.alarms = active] \in Requests
      BY <1>r DEF Requests, TypeOK
    <2>4. requests' \in [Senders -> Requests]
      BY <2>2, <2>3, <1>0
    <2> QED
      BY <2>4, <1>2, <1>s DEF Answer, TypeOK, pollVars, alarmVars
  <1>3. CASE PollAnswered
    <2>1. requests["poll"].alarms \in SUBSET Codes
      BY <1>r DEF Requests
    <2>2. /\ {shown', codes', oldCodes', notes', removed'} \subseteq SUBSET Codes
          /\ connected' \in BOOLEAN
      BY <1>3, <2>1, ShowTypes DEF PollAnswered
    <2>3. requests' \in [Senders -> Requests]
      BY <1>3, <1>0 DEF PollAnswered, PollPauses
    <2> QED
      BY <1>3, <2>2, <2>3, <1>s DEF PollAnswered, PollPauses, TypeOK
  <1>4. CASE PollFails
    <2>1. requests' \in [Senders -> Requests]
      BY <1>4, <1>0 DEF PollFails, PollPauses
    <2>2. delay' \in 1..MaxDelay
      BY <1>4 DEF PollFails, NextDelay, TypeOK
    <2>3. pause' \in 0..Longest
      BY <1>4 DEF PollFails, PollPauses, TypeOK
    <2> QED
      BY <1>4, <2>1, <2>2, <2>3, <1>s DEF PollFails, PollPauses, TypeOK, alarmVars
  <1>5. CASE PollUnreadable
    <2>1. requests' \in [Senders -> Requests]
      BY <1>5, <1>0 DEF PollUnreadable
    <2> QED
      BY <1>5, <2>1, <1>s DEF PollUnreadable, TypeOK, alarmVars
  <1>6. CASE NextPoll
    <2>1. requests' \in [Senders -> Requests]
      BY <1>6, <1>0 DEF NextPoll
    <2> QED
      BY <1>6, <2>1, <1>s DEF NextPoll, TypeOK, alarmVars, pollVars
  <1>7. ASSUME NEW s \in Others, Send(s) \/ Fails(s) PROVE TypeOK'
    <2>1. requests' \in [Senders -> Requests]
      BY <1>7, <1>0 DEF Send, Fails
    <2> QED
      BY <1>7, <2>1, <1>s DEF Send, Fails, TypeOK, alarmVars, pollVars
  <1>8. ASSUME NEW s \in Others, Answered(s) PROVE TypeOK'
    <2>1. requests[s].alarms \in SUBSET Codes
      BY <1>r DEF Requests
    <2>2. Show(requests[s].alarms) \/ ShowOld(requests[s].alarms)
      BY <1>8 DEF Answered
    <2>3. /\ {shown', codes', oldCodes', notes', removed'} \subseteq SUBSET Codes
          /\ connected' \in BOOLEAN
      BY <2>1, <2>2, ShowTypes
    <2>4. requests' \in [Senders -> Requests]
      BY <1>8, <1>0 DEF Answered
    <2> QED
      BY <1>8, <2>3, <2>4, <1>s DEF Answered, TypeOK, pollVars
  <1>9. CASE Dismiss
    BY <1>9, <1>0, <1>s DEF Dismiss, TypeOK, pollVars
  <1>10. CASE Reload
    <2>1. requests' \in [Senders -> Requests]
      <3>1. \A s \in Senders : [requests[s] EXCEPT !.old = requests[s] # Idle] \in Requests
        BY <1>r DEF Requests
      <3> QED
        BY <1>10, <3>1 DEF Reload
    <2>2. {active', shown', codes', oldCodes', notes', removed'} \subseteq SUBSET Codes
      BY <1>10 DEF Reload, SetUp, FirstCodes, TypeOK
    <2>3. SetUp
      BY <1>10 DEF Reload
    <2>4. polling' \in BOOLEAN /\ connected' \in BOOLEAN
      BY <2>3 DEF SetUp
    <2>5. delay' \in 1..MaxDelay /\ pause' \in 0..Longest
      BY <2>3 DEF SetUp
    <2>6. ago' \in [SUBSET Codes -> 0..(StaleTime + 1)]
      BY <2>3 DEF SetUp, TypeOK
    <2> QED
      BY <2>1, <2>2, <2>4, <2>5, <2>6, <1>s
  <1>11. CASE Restart
    <2>1. requests' \in [Senders -> Requests]
      BY <1>11 DEF Restart
    <2>2. {active', shown', codes', oldCodes', notes', removed'} \subseteq SUBSET Codes
      BY <1>11 DEF Restart, SetUp, FirstCodes, TypeOK
    <2>3. SetUp
      BY <1>11 DEF Restart
    <2>4. polling' \in BOOLEAN /\ connected' \in BOOLEAN
      BY <2>3 DEF SetUp
    <2>5. delay' \in 1..MaxDelay /\ pause' \in 0..Longest
      BY <2>3 DEF SetUp
    <2>6. ago' \in [SUBSET Codes -> 0..(StaleTime + 1)]
      BY <2>3 DEF SetUp, TypeOK
    <2> QED
      BY <2>1, <2>2, <2>4, <2>5, <2>6, <1>s
  <1>12. CASE Tick
    <2>1. requests' \in [Senders -> Requests]
      <3>1. ASSUME NEW s \in Senders, requests[s] # Idle
            PROVE  [requests[s] EXCEPT !.age = @ + 1] \in Requests
        BY <3>1, <1>r, <1>12 DEF Requests, Tick
      <3> QED
        BY <1>12, <3>1 DEF Tick
    <2>2. pause' \in 0..Longest
      BY <1>12 DEF Tick, TypeOK
    <2>3. ago' \in [SUBSET Codes -> 0..(StaleTime + 1)]
      BY <1>12 DEF Tick, TypeOK, Older
    <2> QED
      BY <1>12, <2>1, <2>2, <2>3, <1>s DEF Tick, TypeOK, alarmVars
  <1>13. CASE UNCHANGED vars
    BY <1>13, <1>0, <1>s DEF vars, TypeOK, pollVars, alarmVars
  <1> QED
    BY <1>1, <1>2, <1>3, <1>4, <1>5, <1>6, <1>7, <1>8, <1>9, <1>10, <1>11, <1>12, <1>13 DEF Next

\* Every variable keeps its type: TypeOK of ControllerPoll.tla.
THEOREM TypeCorrect == Spec => []TypeOK
  BY InitTypes, StepTypes, PTL DEF Spec

-----------------------------------------------------------------------------
\* Alarms and their notifications.

\* _alarm_codes are the codes of the state on show.
NotesFit == shown = codes /\ AlarmsAreTold

LEMMA StepNotes == TypeOK /\ NotesFit /\ [Next]_vars => NotesFit'
  <1> SUFFICES ASSUME TypeOK, NotesFit, [Next]_vars PROVE NotesFit'
    OBVIOUS
  <1> USE DEF NotesFit, AlarmsAreTold
  <1>1. ASSUME NEW alarms, Show(alarms) PROVE NotesFit'
    BY <1>1 DEF Show, NotesAfter
  <1>2. ASSUME NEW alarms, ShowOld(alarms) PROVE NotesFit'
    BY <1>2 DEF ShowOld, NotesAfter
  <1>3. CASE UNCHANGED <<shown, alarmVars>>
    BY <1>3 DEF alarmVars
  <1>4. CASE PollAnswered
    BY <1>4, <1>1 DEF PollAnswered
  <1>5. ASSUME NEW s \in Others, Answered(s) PROVE NotesFit'
    BY <1>5, <1>1, <1>2 DEF Answered
  <1>6. CASE Dismiss
    BY <1>6 DEF Dismiss
  <1>7. CASE Reload \/ Restart
    BY <1>7 DEF Reload, Restart, SetUp, FirstCodes
  <1>8. CASE Change \/ (\E s \in Senders : Answer(s)) \/ NextPoll \/ Tick
    BY <1>8, <1>3 DEF Change, Answer, NextPoll, Tick
  <1>9. CASE PollFails \/ PollUnreadable \/ \E s \in Others : Send(s) \/ Fails(s)
    BY <1>9, <1>3 DEF PollFails, PollUnreadable, Send, Fails
  <1> QED
    BY <1>3, <1>4, <1>5, <1>6, <1>7, <1>8, <1>9 DEF Next, vars

\* Every alarm on show has its notification, until somebody removes it:
\* AlarmsAreTold of ControllerPoll.tla.
THEOREM TellsAlarms == Spec => []AlarmsAreTold
  <1>1. Init => NotesFit
    BY DEF Init, NotesFit, AlarmsAreTold
  <1>2. NotesFit => AlarmsAreTold
    BY DEF NotesFit
  <1> QED
    BY <1>1, <1>2, StepNotes, TypeCorrect, PTL DEF Spec

-----------------------------------------------------------------------------
\* The age of the state on show.

\* An answer was the Pi's state after its request was sent.
AnswersAreRecent ==
    \A s \in Senders :
        requests[s].step = "good" => ago[requests[s].alarms] <= requests[s].age

\* What is on show gets older while the poll loop pauses and while it waits.
ShownFits ==
    polling /\ connected =>
        ago[shown] + pause <= Longest + Timeout + requests["poll"].age

ViewInv == TypeOK /\ ago[active] = 0 /\ AnswersAreRecent /\ ShownFits

LEMMA StepView == ViewInv /\ [Next]_vars => ViewInv'
  <1> SUFFICES ASSUME ViewInv, [Next]_vars PROVE ViewInv'
    OBVIOUS
  <1> USE Times, FreshRequests, PollSends
  <1>t. TypeOK'
    BY StepTypes DEF ViewInv
  <1>r. /\ requests \in [Senders -> Requests]
        /\ \A s \in Senders : requests[s] \in Requests
        /\ \A s \in Senders : requests[s].alarms \in SUBSET Codes /\ requests[s].age \in 0..Timeout
    BY DEF ViewInv, TypeOK, Requests
  <1>p. /\ requests' \in [Senders -> Requests]
        /\ \A s \in Senders : requests'[s].alarms \in SUBSET Codes /\ requests'[s].age \in 0..Timeout
    BY <1>t DEF TypeOK, Requests
  <1>a. /\ \A A \in SUBSET Codes : ago[A] \in 0..(StaleTime + 1)
        /\ active \in SUBSET Codes /\ shown \in SUBSET Codes /\ pause \in 0..Longest
    BY DEF ViewInv, TypeOK
  <1>b. /\ \A A \in SUBSET Codes : ago'[A] \in 0..(StaleTime + 1)
        /\ active' \in SUBSET Codes /\ shown' \in SUBSET Codes /\ pause' \in 0..Longest
    BY <1>t DEF TypeOK
  \* A request as before, or a fresh one, keeps what is known of the answers.
  <1>k. ASSUME UNCHANGED ago,
               \A s \in Senders : \/ requests'[s] \in {Idle, Sent}
                                  \/ /\ requests'[s].step = requests[s].step
                                     /\ requests'[s].alarms = requests[s].alarms
                                     /\ requests'[s].age = requests[s].age
        PROVE  AnswersAreRecent'
    BY <1>k DEF ViewInv, AnswersAreRecent
  \* An answer shown in the pause is younger than the timeout.
  <1>n. ASSUME NEW s \in Senders, requests[s].step = "good", UNCHANGED ago,
               shown' = requests[s].alarms, pause' <= Longest
        PROVE  ShownFits'
    <2>1. ago[shown'] <= Timeout
      BY <1>n, <1>r, <1>a DEF ViewInv, AnswersAreRecent
    <2>2. /\ ago'[shown'] \in Nat /\ pause' \in Nat /\ requests'["poll"].age \in Nat
      BY <1>b, <1>p
    <2> QED
      BY <2>1, <2>2, <1>n DEF ShownFits
  <1>c. CASE UNCHANGED vars
    <2>1. AnswersAreRecent' /\ ShownFits'
      BY <1>c DEF vars, pollVars, ViewInv, AnswersAreRecent, ShownFits
    <2> QED
      BY <1>c, <1>t, <2>1 DEF vars, ViewInv
  <1>1. CASE Change
    <2>1. \A A \in SUBSET Codes : ago'[A] <= ago[A]
      BY <1>1, <1>a DEF Change, ViewInv, TypeOK
    <2>2. AnswersAreRecent'
      BY <1>1, <2>1, <1>r, <1>a, <1>b DEF Change, ViewInv, AnswersAreRecent
    <2>3. ShownFits'
      BY <1>1, <2>1, <1>r, <1>a, <1>b DEF Change, ViewInv, ShownFits, pollVars
    <2>4. ago'[active'] = 0
      BY <1>1, <1>b DEF Change, ViewInv, TypeOK
    <2> QED
      BY <1>t, <2>2, <2>3, <2>4 DEF ViewInv
  <1>2. ASSUME NEW s \in Senders, Answer(s) PROVE ViewInv'
    <2>1. PICK step \in {"good", "bad"} :
              requests' = [requests EXCEPT ![s].step = step, ![s].alarms = active]
      BY <1>2 DEF Answer
    <2>2. /\ requests'[s].alarms = active /\ requests'[s].age = requests[s].age
          /\ \A r \in Senders \ {s} : requests'[r] = requests[r]
      BY <2>1, <1>r DEF Requests
    <2>3. AnswersAreRecent'
      BY <1>2, <2>2, <1>r DEF Answer, ViewInv, AnswersAreRecent
    <2>4. requests'["poll"].age = requests["poll"].age
      BY <2>2
    <2>5. ShownFits' /\ ago'[active'] = 0
      BY <1>2, <2>4 DEF Answer, ViewInv, ShownFits, pollVars
    <2> QED
      BY <1>t, <2>3, <2>5 DEF ViewInv
  <1>3. CASE PollAnswered
    <2>1. AnswersAreRecent'
      BY <1>3, <1>k, <1>r DEF PollAnswered, PollPauses
    <2>2. ShownFits'
      BY <1>3, <1>n DEF PollAnswered, PollPauses, Show
    <2> QED
      BY <1>3, <1>t, <2>1, <2>2 DEF PollAnswered, PollPauses, ViewInv
  <1>4. CASE PollFails
    <2>1. AnswersAreRecent'
      BY <1>4, <1>k, <1>r DEF PollFails, PollPauses
    <2> QED
      BY <1>4, <1>t, <2>1 DEF PollFails, PollPauses, ViewInv, ShownFits
  <1>5. CASE PollUnreadable
    <2>1. AnswersAreRecent'
      BY <1>5, <1>k, <1>r DEF PollUnreadable
    <2> QED
      BY <1>5, <1>t, <2>1 DEF PollUnreadable, ViewInv, ShownFits
  <1>6. CASE NextPoll
    <2>1. AnswersAreRecent'
      BY <1>6, <1>k, <1>r DEF NextPoll
    <2>2. requests["poll"].age = 0 /\ requests'["poll"].age = 0
      BY <1>6, <1>r DEF NextPoll
    <2>3. ShownFits'
      BY <1>6, <2>2 DEF NextPoll, ViewInv, ShownFits, pollVars
    <2> QED
      BY <1>6, <1>t, <2>1, <2>3 DEF NextPoll, ViewInv
  <1>7. ASSUME NEW s \in Others, Send(s) \/ Fails(s) PROVE ViewInv'
    <2>1. AnswersAreRecent'
      BY <1>7, <1>k, <1>r DEF Send, Fails
    <2>2. requests'["poll"] = requests["poll"]
      BY <1>7, <1>r, PollAssumption DEF Send, Fails
    <2>3. ShownFits' /\ ago'[active'] = 0
      BY <1>7, <2>2 DEF Send, Fails, ViewInv, ShownFits, pollVars
    <2> QED
      BY <1>t, <2>1, <2>3 DEF ViewInv
  <1>8. ASSUME NEW s \in Others, Answered(s) PROVE ViewInv'
    <2>1. AnswersAreRecent'
      BY <1>8, <1>k, <1>r DEF Answered
    <2>2. requests'["poll"] = requests["poll"] /\ UNCHANGED <<polling, pause, ago, active>>
      BY <1>8, <1>r, PollAssumption DEF Answered, pollVars
    <2>3. Show(requests[s].alarms) \/ ShowOld(requests[s].alarms)
      BY <1>8 DEF Answered
    <2>4. ShownFits'
      <3>1. CASE Show(requests[s].alarms)
        BY <3>1, <1>8, <1>n, <1>b, <2>2 DEF Show, Answered
      <3>2. CASE ShowOld(requests[s].alarms)
        BY <3>2, <2>2 DEF ShowOld, ViewInv, ShownFits
      <3> QED
        BY <3>1, <3>2, <2>3
    <2> QED
      BY <1>t, <2>1, <2>2, <2>4 DEF ViewInv
  <1>9. CASE Dismiss
    <2>1. UNCHANGED <<requests, ago, active, polling, connected, shown, pause>>
      BY <1>9 DEF Dismiss, pollVars
    <2>2. AnswersAreRecent' /\ ShownFits'
      BY <2>1 DEF ViewInv, AnswersAreRecent, ShownFits
    <2> QED
      BY <2>1, <2>2, <1>t DEF ViewInv
  <1>10. CASE Reload
    <2>1. \A s \in Senders :
              \/ requests'[s] = Sent
              \/ requests'[s] = [requests[s] EXCEPT !.old = requests[s] # Idle]
      BY <1>10 DEF Reload
    <2>2. AnswersAreRecent'
      BY <1>10, <2>1, <1>k, <1>r DEF Reload, SetUp, Requests
    <2> QED
      BY <1>10, <2>2, <1>t DEF Reload, SetUp, ViewInv, ShownFits
  <1>11. CASE Restart
    <2>1. AnswersAreRecent'
      BY <1>11, <1>k DEF Restart, SetUp
    <2> QED
      BY <1>11, <2>1, <1>t DEF Restart, SetUp, ViewInv, ShownFits
  <1>12. CASE Tick
    <2>1. \A A \in SUBSET Codes : ago'[A] <= ago[A] + 1
      BY <1>12, <1>a DEF Tick, Older
    <2>2. \A s \in Senders :
              \/ requests'[s] = Idle /\ requests[s] = Idle
              \/ /\ requests[s] # Idle /\ requests'[s].age = requests[s].age + 1
                 /\ requests'[s].alarms = requests[s].alarms
                 /\ requests'[s].step = requests[s].step
      BY <1>12, <1>r DEF Tick, Requests
    <2>3. AnswersAreRecent'
      BY <2>1, <2>2, <1>r, <1>a, <1>b DEF ViewInv, AnswersAreRecent
    <2>4. ASSUME polling, connected
          PROVE  ago'[shown] + pause' <= Longest + Timeout + requests'["poll"].age
      <3>1. /\ ago[shown] + pause <= Longest + Timeout + requests["poll"].age
        BY <2>4 DEF ViewInv, ShownFits
      <3>2. /\ ago[shown] \in Nat /\ ago'[shown] \in Nat /\ pause \in Nat /\ pause' \in Nat
            /\ requests["poll"].age \in Nat /\ requests'["poll"].age \in Nat
            /\ ago'[shown] <= ago[shown] + 1
        BY <2>1, <1>a, <1>b, <1>r, <1>p
      <3>3. CASE requests["poll"] = Idle
        <4>1. pause > 0 /\ pause' = pause - 1 /\ requests'["poll"].age = requests["poll"].age
          BY <1>12, <2>2, <2>4, <3>3 DEF Tick
        <4> QED
          BY <3>1, <3>2, <4>1
      <3>4. CASE requests["poll"] # Idle
        <4>1. pause' <= pause
          BY <1>12, <3>2 DEF Tick
        <4>2. requests'["poll"].age = requests["poll"].age + 1
          BY <2>2, <3>4
        <4> QED
          BY <3>1, <3>2, <4>1, <4>2
      <3> QED
        BY <3>3, <3>4
    <2>5. ShownFits' /\ ago'[active'] = 0
      BY <2>4, <1>12, <1>a DEF Tick, ShownFits
    <2> QED
      BY <1>t, <2>3, <2>5 DEF ViewInv
  <1> QED
    BY <1>1, <1>2, <1>3, <1>4, <1>5, <1>6, <1>7, <1>8, <1>9, <1>10, <1>11, <1>12, <1>c DEF Next

\* While the poll loop is alive and the entities are available, what they show
\* was the Pi's state at most StaleTime ago: ShownIsRecent of ControllerPoll.tla.
THEOREM ShowsRecentState == Spec => []ShownIsRecent
  <1>1. Init => ViewInv
    <2> SUFFICES ASSUME Init PROVE ViewInv
      OBVIOUS
    <2>1. TypeOK
      BY InitTypes
    <2>2. \A s \in Senders : requests[s].step # "good"
      BY FreshRequests DEF Init
    <2> QED
      BY <2>1, <2>2 DEF Init, ViewInv, TypeOK, AnswersAreRecent, ShownFits
  <1>2. ViewInv => ShownIsRecent
    <2> SUFFICES ASSUME ViewInv, polling, connected PROVE ago[shown] <= StaleTime
      BY DEF ShownIsRecent
    <2>1. /\ ago[shown] \in Nat /\ pause \in Nat /\ requests["poll"].age \in 0..Timeout
      BY Times, PollSends DEF ViewInv, TypeOK
    <2> QED
      BY <2>1, Times DEF ViewInv, ShownFits
  <1> QED
    BY <1>1, <1>2, StepView, PTL DEF Spec
=============================================================================
