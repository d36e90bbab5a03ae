------------------------- MODULE WaterSensors_proofs -------------------------
(***************************************************************************)
(* Theorems about WaterSensors, for any sensors, choices and limits, under *)
(* the assumption SensorAssumption alone: types, that no stale temperature *)
(* is handed out, and that an assignment is kept as long as it can be.     *)
(***************************************************************************)
EXTENDS WaterSensors, FiniteSetTheorems, WellFoundedInduction, TLAPS

\* A sample is older than its answer by at most the time a read may take.
AgesFit == answer.available => answer.age <= answerAge + MaxRead

\* The service remembers what the file says, and that is the last assignment,
\* unless /etc gave it or the disk refused it.
MemoryFits ==
    /\ saved = file
    /\ refused \/ last \in {NoPair, saved, config}

WaterInv == TypeOK /\ AgesFit /\ MemoryFits

-----------------------------------------------------------------------------
\* Least elements and the cap.

LEMMA LeastNatural ==
    ASSUME NEW T, T \subseteq Nat, T # {}
    PROVE  \E x \in T : \A y \in T : x =< y
<1> DEFINE R == OpToRel(<, Nat)
<1>1. IsWellFoundedOn(R, Nat)
  BY NatLessThanWellFounded
<1>2. \A x, y \in Nat : x < y => <<x, y>> \in R
  BY DEF OpToRel
<1> HIDE DEF R
<1>3. PICK x \in T : \A y \in T : ~ (<<y, x>> \in R)
  BY <1>1, WFMin
<1>4. ASSUME NEW y \in T PROVE x =< y
  <2>1. x \in Nat /\ y \in Nat /\ ~ (<<y, x>> \in R)
    BY <1>3
  <2>2. ~ (y < x)
    BY <1>2, <2>1
  <2> QED
    BY <2>1, <2>2
<1> QED
  BY <1>4

LEMMA MinIsElement ==
    ASSUME NEW T, T \subseteq Nat, T # {}
    PROVE  Min(T) \in T
BY LeastNatural DEF Min

LEMMA CapIsLargest == Cap \in Nat /\ Cap >= CacheFor /\ Cap >= StaleAfter + MaxRead + 1
<1> DEFINE m == CacheFor
           n == StaleAfter + MaxRead + 1
<1>1. m \in Nat /\ n \in Nat
  BY SensorAssumption
<1> HIDE DEF m, n
<1>2. \E x \in {m, n} : \A y \in {m, n} : x >= y
  BY <1>1
<1>3. Max({m, n}) \in {m, n} /\ \A y \in {m, n} : Max({m, n}) >= y
  BY <1>2 DEF Max
<1>4. Cap = Max({m, n})
  BY DEF Cap, m, n
<1> QED
  BY <1>1, <1>3, <1>4 DEF m, n

LEMMA AgedType == ASSUME NEW n \in 0..Cap PROVE Aged(n) \in 0..Cap /\ Aged(n) <= n + 1
BY CapIsLargest DEF Aged

-----------------------------------------------------------------------------
\* _sensor_ids.

\* Whatever the WebUI says, the result is a pair.
LEMMA SensorIdsType ==
    ASSUME TypeOK, NEW chosen \in Pairs
    PROVE  SensorIds(chosen) \in Pairs
<1>1. NoPair \in Pairs /\ config \in Pairs /\ saved \in Pairs
  BY DEF NoPair, Pairs, TypeOK
<1>2. ASSUME Cardinality(attached) >= 2
      PROVE  <<Min(attached), Min(attached \ {Min(attached)})>> \in Pairs
  <2>1. IsFiniteSet(attached) /\ attached \subseteq Nat /\ attached \subseteq Sensors
    <3>1. attached \in SUBSET Sensors /\ IsFiniteSet(Sensors) /\ Sensors \subseteq Nat
      BY SensorAssumption DEF TypeOK
    <3>2. IsFiniteSet(attached)
      BY <3>1, FS_Subset
    <3> QED
      BY <3>1, <3>2
  <2>2. Cardinality(attached) \in Nat /\ attached # {}
    BY <1>2, <2>1, FS_EmptySet, FS_CardinalityType
  <2>3. Min(attached) \in attached
    BY <2>1, <2>2, MinIsElement
  <2> DEFINE rest == attached \ {Min(attached)}
  <2>4. IsFiniteSet(rest) /\ Cardinality(rest) = Cardinality(attached) - 1
    BY <2>1, <2>3, FS_RemoveElement
  <2>5. rest # {} /\ rest \subseteq Nat
    <3>1. Cardinality(rest) # 0
      BY <1>2, <2>2, <2>4
    <3> QED
      BY <2>1, <2>4, <3>1, FS_EmptySet
  <2>6. Min(rest) \in rest
    BY <2>5, MinIsElement
  <2> QED
    BY <2>1, <2>3, <2>6 DEF Pairs
<1> QED
  BY <1>1, <1>2 DEF SensorIds

\* As long as the sensors of /etc or of the file are there, nothing but the choice
\* and /etc come before them.
LEMMA SensorIdsFollow ==
    ASSUME NEW chosen
    PROVE  /\ Found(config, attached) => SensorIds(chosen) \in {chosen, config}
           /\ Found(saved, attached) => SensorIds(chosen) \in {chosen, config, saved}
           /\ SensorIds(chosen) \in {NoPair, saved, chosen} \/ ~Found(config, attached)
                \/ SensorIds(chosen) = config
BY DEF SensorIds

-----------------------------------------------------------------------------
\* The steps.

LEMMA ChooseKeepsInv == ASSUME WaterInv, Choose PROVE WaterInv'
<1> DEFINE chosen == ControllerIds
           ids == SensorIds(chosen)
<1>1. chosen \in Pairs /\ ids \in Pairs
  BY SensorIdsType DEF WaterInv, TypeOK, ControllerIds
<1>2. /\ choice' = chosen /\ used' = ids
      /\ choiceAge' \in {0, choiceAge}
      /\ last' = IF ids = NoPair THEN last ELSE ids
      /\ phase' = "flow" /\ sampled' = FALSE /\ readFor' = 0
      /\ UNCHANGED <<world, answer, answerAge, faults>>
  BY DEF Choose
<1>3. \/ Saves(chosen, ids) /\ file' = ids /\ saved' = ids /\ refused' = FALSE
      \/ UNCHANGED <<file, saved>> /\ refused' = TRUE
      \/ ~Saves(chosen, ids) /\ UNCHANGED <<file, saved>> /\ refused' = (refused /\ last' # saved)
  BY DEF Choose
<1>4. ids \in {NoPair, saved, chosen} \/ ~Found(config, attached) \/ ids = config
  BY SensorIdsFollow
<1> HIDE DEF chosen, ids
<1>5. TypeOK'
  <2>1. refused' \in BOOLEAN
    BY <1>3, Zenon DEF WaterInv, TypeOK
  <2>2. file' \in Pairs /\ saved' \in Pairs /\ last' \in Pairs
    BY <1>1, <1>2, <1>3 DEF WaterInv, TypeOK
  <2>3. choiceAge' \in 0..Cap /\ 0 \in 0..MaxRead
    BY <1>2, CapIsLargest, SensorAssumption DEF WaterInv, TypeOK
  <2> QED
    BY <1>1, <1>2, <2>1, <2>2, <2>3 DEF WaterInv, TypeOK, world
<1>6. AgesFit'
  BY <1>2 DEF WaterInv, AgesFit
<1>7. MemoryFits'
  <2>1. saved' = file' /\ config' = config
    BY <1>2, <1>3 DEF WaterInv, MemoryFits, world
  <2>2. CASE refused'
    BY <2>1, <2>2 DEF MemoryFits
  <2>3. CASE ~refused' /\ Saves(chosen, ids)
    <3>1. ids # NoPair /\ saved' = ids
      BY <1>3, <2>3 DEF Saves
    <3> QED
      BY <1>2, <2>1, <3>1 DEF MemoryFits
  <2>4. CASE ~refused' /\ ~Saves(chosen, ids)
    <3>1. saved' = saved /\ (~refused \/ last' = saved)
      BY <1>3, <2>4
    <3>2. ids \in {NoPair, saved, config}
      BY <1>4, <2>4 DEF Saves
    <3> QED
      BY <1>2, <2>1, <3>1, <3>2 DEF WaterInv, MemoryFits
  <2> QED
    BY <2>2, <2>3, <2>4
<1> QED
  BY <1>5, <1>6, <1>7 DEF WaterInv

LEMMA ReadKeepsInv == ASSUME WaterInv, ReadFlow \/ ReadReturn PROVE WaterInv'
<1>1. CASE ReadFlow
  <2>1. sampled' \in BOOLEAN
    BY <1>1, Zenon DEF ReadFlow
  <2>2. 0 \in 0..MaxRead
    BY SensorAssumption
  <2>3. TypeOK'
    BY <1>1, <2>1, <2>2 DEF ReadFlow, WaterInv, TypeOK, world, memory, history
  <2> QED
    BY <1>1, <2>3 DEF ReadFlow, WaterInv, AgesFit, MemoryFits, world, memory, history
<1>2. CASE ReadReturn
  <2>1. readFor \in 0..MaxRead /\ 0 \in 0..MaxRead /\ 0 \in 0..Cap /\ readFor \in 0..Cap
    BY CapIsLargest, SensorAssumption DEF WaterInv, TypeOK
  <2>2. PICK ok \in BOOLEAN :
           answer' = [pair |-> used, available |-> ok, age |-> IF ok THEN readFor ELSE 0]
    BY <1>2 DEF ReadReturn
  <2>3. (IF ok THEN readFor ELSE 0) \in 0..Cap /\ (IF ok THEN readFor ELSE 0) <= 0 + MaxRead
    BY <2>1, SensorAssumption
  <2>4. answer' \in Answers
    BY <2>2, <2>3 DEF Answers, WaterInv, TypeOK
  <2>5. answer'.age <= 0 + MaxRead
    BY <2>2, <2>3
  <2>6. TypeOK'
    BY <1>2, <2>1, <2>4 DEF ReadReturn, WaterInv, TypeOK, world, memory, history
  <2> QED
    BY <1>2, <2>5, <2>6
       DEF ReadReturn, WaterInv, AgesFit, MemoryFits, world, memory, history
<1> QED
  BY <1>1, <1>2

LEMMA FaultKeepsInv == ASSUME WaterInv, RefreshFails \/ Restart PROVE WaterInv'
<1>1. faults + 1 \in 0..MaxFaults /\ 0 \in 0..MaxRead /\ 0 \in 0..Cap /\ Cap \in 0..Cap
  BY CapIsLargest, SensorAssumption DEF WaterInv, TypeOK, RefreshFails, Restart
<1>2. NoPair \in Pairs /\ NoAnswer \in Answers /\ ~NoAnswer.available
  BY <1>1 DEF NoPair, Pairs, NoAnswer, Answers
<1>3. TypeOK'
  <2>1. CASE RefreshFails
    BY <1>1, <2>1 DEF RefreshFails, AfterFailure, WaterInv, TypeOK, world, memory, history
  <2>2. CASE Restart
    BY <1>1, <1>2, <2>2 DEF Restart, Fresh, WaterInv, TypeOK, world, history
  <2> QED
    BY <2>1, <2>2
<1>4. AgesFit' /\ MemoryFits'
  BY <1>2 DEF RefreshFails, AfterFailure, Restart, Fresh, WaterInv, AgesFit, MemoryFits,
              world, memory, history
<1> QED
  BY <1>3, <1>4 DEF WaterInv

LEMMA TickKeepsInv == ASSUME WaterInv, Tick PROVE WaterInv'
<1>1. /\ answer \in Answers /\ answerAge \in 0..Cap /\ choiceAge \in 0..Cap
      /\ answer.age \in 0..Cap /\ answer.available \in BOOLEAN /\ readFor \in 0..MaxRead
  BY DEF WaterInv, TypeOK, Answers
<1>2. /\ Aged(choiceAge) \in 0..Cap /\ Aged(answerAge) \in 0..Cap
      /\ Aged(answer.age) \in 0..Cap /\ Aged(answer.age) <= answer.age + 1
  BY <1>1, AgedType
<1>3. readFor' \in 0..MaxRead
  BY <1>1, SensorAssumption DEF Tick
<1> DEFINE age == IF answer.available THEN Aged(answer.age) ELSE 0
<1>4. answer' = [answer EXCEPT !.age = age]
  BY DEF Tick
<1>5. age \in 0..Cap
  BY <1>2, CapIsLargest
<1>6. answer' \in Answers /\ answer'.age = age /\ answer'.available = answer.available
  <2> HIDE DEF age
  <2> QED
    BY <1>1, <1>4, <1>5 DEF Answers
<1>7. TypeOK'
  BY <1>2, <1>3, <1>6 DEF Tick, WaterInv, TypeOK, world, history
<1>8. AgesFit'
  <2>1. answerAge' = Aged(answerAge)
    BY DEF Tick
  <2> SUFFICES ASSUME answer.available PROVE Aged(answer.age) <= Aged(answerAge) + MaxRead
    BY <1>6, <2>1 DEF AgesFit
  <2>2. answer.age <= answerAge + MaxRead
    BY DEF WaterInv, AgesFit
  <2> QED
    BY <1>1, <1>2, <2>2, CapIsLargest, SensorAssumption DEF Aged
<1>9. MemoryFits'
  BY DEF Tick, WaterInv, MemoryFits, world, history
<1> QED
  BY <1>7, <1>8, <1>9 DEF WaterInv

-----------------------------------------------------------------------------
\* WaterInv holds in every reachable state.
THEOREM WaterInvariant == Spec => []WaterInv
<1>1. Init => WaterInv
  <2> SUFFICES ASSUME Init PROVE WaterInv
    OBVIOUS
  <2>1. /\ NoPair \in Pairs /\ 0 \in 0..MaxRead /\ 0 \in 0..Cap /\ Cap \in 0..Cap /\ 0 \in 0..MaxFaults
        /\ WebUIChoices \subseteq Pairs /\ Configs \subseteq Pairs
    BY CapIsLargest, SensorAssumption DEF NoPair, Pairs
  <2>2. NoAnswer \in Answers /\ ~NoAnswer.available
    BY <2>1 DEF NoAnswer, Answers
  <2>3. TypeOK
    BY <2>1, <2>2 DEF Init, TypeOK
  <2> QED
    BY <2>2, <2>3 DEF Init, WaterInv, AgesFit, MemoryFits
<1>2. WaterInv /\ [Next]_vars => WaterInv'
  <2> SUFFICES ASSUME WaterInv, [Next]_vars PROVE WaterInv'
    OBVIOUS
  <2>1. CASE Choose
    BY <2>1, ChooseKeepsInv
  <2>2. CASE ReadFlow \/ ReadReturn
    BY <2>2, ReadKeepsInv
  <2>3. CASE RefreshFails \/ Restart
    BY <2>3, FaultKeepsInv
  <2>4. CASE Tick
    BY <2>4, TickKeepsInv
  <2>5. CASE Plug
    BY <2>5 DEF Plug, SymDiff, WaterInv, TypeOK, AgesFit, MemoryFits, memory, reading, history
  <2>6. CASE WebUIChanges
    <3>1. webui' \in Pairs
      BY <2>6, SensorAssumption DEF WebUIChanges, NoPair, Pairs
    <3> QED
      BY <2>6, <3>1
         DEF WebUIChanges, WaterInv, TypeOK, AgesFit, MemoryFits, memory, reading, history
  <2>7. CASE UNCHANGED vars
    BY <2>7 DEF vars, world, memory, reading, history, WaterInv, TypeOK, AgesFit, MemoryFits
  <2> QED
    BY <2>1, <2>2, <2>3, <2>4, <2>5, <2>6, <2>7 DEF Next, Step
<1> QED
  BY <1>1, <1>2, PTL DEF Spec

\* Every variable keeps its type; in particular the reader never takes a sensor it
\* does not know.
THEOREM TypeCorrect == Spec => []TypeOK
<1>1. WaterInv => TypeOK
  BY DEF WaterInv
<1> QED
  BY <1>1, WaterInvariant, PTL

\* No stale temperature is handed out, however long the thread hangs, whatever
\* fails, and for every limit.
THEOREM NeverStale == Spec => []NoStaleTemperature
<1>1. WaterInv => NoStaleTemperature
  <2> SUFFICES ASSUME WaterInv, Usable PROVE answer.age <= StaleAfter + MaxRead
    BY DEF NoStaleTemperature
  <2>1. answer.age \in Nat /\ answerAge \in Nat
    BY CapIsLargest DEF WaterInv, TypeOK, Answers
  <2> QED
    BY <2>1, SensorAssumption DEF Usable, WaterInv, AgesFit
<1> QED
  BY <1>1, WaterInvariant, PTL

\* As long as its sensors are there an assignment is replaced only by the owner's
\* choice or by /etc, or after a write that the disk refused.
Kept ==
    last' # last /\ last # NoPair /\ Found(last, attached)
        => last' \in {choice', config} \/ refused

THEOREM KeepsAssignment == Spec => AssignmentIsKept
<1>1. WaterInv /\ [Next]_vars => [Kept]_vars
  <2> SUFFICES ASSUME WaterInv, Next, last' # last, last # NoPair, Found(last, attached), ~refused
               PROVE  last' \in {choice', config}
    BY DEF Kept
  <2>1. Choose
    BY DEF Next, Step, ReadFlow, ReadReturn, RefreshFails, Restart, Tick, Plug, WebUIChanges, history
  <2>2. choice' = ControllerIds /\ last' = SensorIds(ControllerIds)
    BY <2>1 DEF Choose
  <2>3. last \in {saved, config}
    BY DEF WaterInv, MemoryFits
  <2> QED
    BY <2>2, <2>3, SensorIdsFollow
<1> QED
  BY <1>1, WaterInvariant, PTL DEF Spec, AssignmentIsKept, Kept
=============================================================================
