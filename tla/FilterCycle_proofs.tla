------------------------- MODULE FilterCycle_proofs -------------------------
(***************************************************************************)
(* Theorems about FilterCycle: every variable keeps its type, the file is  *)
(* current and no save is asked for in vain; the start of a cycle, the     *)
(* history and the warnings follow the changes of the filter, except for   *)
(* what a count over an hour old does to them, which is bounded by the     *)
(* number of starts taken from one (late).  All of it holds for all        *)
(* constants that FilterAssumption allows.                                 *)
(***************************************************************************)
EXTENDS FilterCycle, SequenceTheorems, TLAPS

Histories == {list \in Seq(Int) : Len(list) <= HistoryLimit}

Stores == [ epoch    : {None} \cup Int,
            interval : {None} \cup Nat,
            marker   : {None} \cup Int,
            history  : Histories,
            cycle    : {None} \cup Times ]

\* The start that the next update computes from the decoder's count.
Reset == now - hours * Hour

\* The history variables and the file keep their types, too.
CountsFit ==
    /\ changes \in Nat /\ pressed \in Nat /\ crashes \in Nat
    /\ warned \in [Times -> Nat]
    /\ store \in Stores
    /\ unitStart <= now

\* The decoder's count is the unit's, rounded down, when it was read.
DecoderFits ==
    \/ hours = None /\ readAt = None /\ countedFrom = None
    \/ /\ hours \in Nat /\ readAt \in Nat /\ countedFrom \in Nat
       /\ countedFrom <= unitStart /\ readAt <= now
       /\ hours * Hour <= readAt - countedFrom
       /\ readAt - countedFrom < hours * Hour + Hour

\* A cycle that is known began when a change happened or later, and is in the
\* history.
CycleFits(start, change, list) ==
    IF start = None THEN change = None /\ list = <<>>
    ELSE change \in Nat /\ change <= start /\ start <= now /\ list # <<>>

CyclesFit ==
    /\ CycleFits(epoch, cycle, history)
    /\ CycleFits(store.epoch, store.cycle, store.history)
    /\ epoch = None => store.epoch = None /\ check # "saving"

FilterInv == TypeOK /\ CountsFit /\ DecoderFits /\ CyclesFit /\ StoreIsCurrent

-----------------------------------------------------------------------------
\* Operators.

\* The unit's count, in hours, times the hour is the time counted, rounded down.
LEMMA DivFits ==
    ASSUME NEW n \in Nat, NEW d \in Nat \ {0}
    PROVE  /\ n \div d \in Nat
           /\ (n \div d) * d <= n
           /\ n < (n \div d) * d + d
  BY SMT

\* The days left are a natural number, whatever the interval on disk.
LEMMA DaysLeftType ==
    ASSUME NEW start \in Int, NEW days \in Int, NEW t \in Int
    PROVE  DaysLeft(start, days, t) \in Nat
<1> DEFINE elapsed == IF t > start THEN t - start ELSE 0
           left    == days * Day - elapsed
<1>1. Day \in Nat \ {0}
  BY FilterAssumption
<1>2. elapsed \in Int
  OBVIOUS
<1>3. left \in Int
  BY <1>1, <1>2
<1>4. CASE left <= 0
  BY <1>4 DEF DaysLeft
<1>5. CASE ~(left <= 0)
  <2> HIDE DEF left
  <2>1. left + Day - 1 \in Nat
    BY <1>1, <1>3, <1>5
  <2>2. (left + Day - 1) \div Day \in Nat
    BY <1>1, <2>1, DivFits
  <2> QED
    BY <1>5, <2>2 DEF DaysLeft, left
<1> QED
  BY <1>4, <1>5

\* LastN keeps the last elements, at most n of them.
LEMMA LastNFits ==
    ASSUME NEW s \in Seq(Int), NEW n \in Nat \ {0}
    PROVE  /\ LastN(s, n) \in Seq(Int)
           /\ Len(LastN(s, n)) <= n
           /\ Len(LastN(s, n)) <= Len(s)
           /\ s # <<>> => LastN(s, n) # <<>>
<1>1. CASE Len(s) > n
  <2> DEFINE m == Len(s) - n + 1
  <2>1. /\ Len(s) \in Nat /\ m \in 1..Len(s)
        /\ \A i \in m..Len(s) : s[i] \in Int
    BY <1>1, LenProperties, ElementOfSeq
  <2>2. /\ SubSeq(s, m, Len(s)) \in Seq(Int)
        /\ Len(SubSeq(s, m, Len(s))) = n
    <3> HIDE DEF m
    <3>1. /\ SubSeq(s, m, Len(s)) \in Seq(Int)
          /\ Len(SubSeq(s, m, Len(s))) = IF m <= Len(s) THEN Len(s) - m + 1 ELSE 0
      BY <2>1, SubSeqProperties
    <3> QED
      BY <2>1, <3>1 DEF m
  <2>3. SubSeq(s, m, Len(s)) # <<>>
    BY <2>2
  <2> QED
    BY <1>1, <2>1, <2>2, <2>3 DEF LastN
<1>2. CASE ~(Len(s) > n)
  BY <1>2, LenProperties DEF LastN
<1> QED
  BY <1>1, <1>2

\* A change enters the history: one element more, at most HistoryLimit.
LEMMA HistoryGrows ==
    ASSUME NEW list \in Histories, NEW e \in Int
    PROVE  LET kept == LastN(Append(list, e), HistoryLimit)
           IN  kept \in Histories /\ kept # <<>> /\ Len(kept) <= Len(list) + 1
<1>1. /\ Append(list, e) \in Seq(Int) /\ Append(list, e) # <<>>
      /\ Len(Append(list, e)) = Len(list) + 1
  BY AppendProperties DEF Histories
<1> QED
  BY <1>1, LastNFits, FilterAssumption DEF Histories

-----------------------------------------------------------------------------
\* One update.

Update == HearCounter \/ HearInterval \/ OtherUpdate

\* The update takes the start of the cycle from the unit's count.
AdoptsReset ==
    /\ hours' # None /\ Adopts(Reset')
    /\ epoch' = Reset' /\ cycle' = countedFrom'
    /\ marker' \in {None, marker}
    /\ history' \in Histories /\ history' # <<>>
    /\ IF epoch = None \/ Reset' > epoch THEN Len(history') <= Len(history) + 1
                                         ELSE Len(history') = Len(history)
    /\ savePending'
    /\ IF now - readAt' > Hour THEN late' = late + 1 ELSE late' = late

\* The update leaves the cycle as it is.
KeepsCycle ==
    /\ hours' # None => ~Adopts(Reset')
    /\ UNCHANGED <<epoch, cycle, marker, history, late>>

\* An update reads the unit's count now, or finds it as it was.
LEMMA UpdateReads ==
    ASSUME FilterInv, Update
    PROVE  /\ HandleUpdate
           /\ UNCHANGED <<clockVars, store, crashes, warned>>
           /\ hours' \in {None} \cup Nat /\ readAt' \in {None} \cup Times
           /\ countedFrom' \in {None} \cup Times
           /\ hcpInterval' \in {None} \cup HcpIntervals
           /\ DecoderFits'
           /\ \/ countedFrom' = unitStart
              \/ countedFrom' = countedFrom /\ hours' = hours
<1>1. CASE HearCounter
  <2>1. /\ now \in Times /\ unitStart \in Times /\ now - unitStart \in Nat
        /\ Hour \in Nat \ {0}
    BY FilterAssumption DEF FilterInv, TypeOK, CountsFit, Times
  <2>2. /\ hours' \in Nat /\ hours' * Hour <= now - unitStart
        /\ now - unitStart < hours' * Hour + Hour
    BY <1>1, <2>1, DivFits DEF HearCounter
  <2>3. DecoderFits'
    BY <1>1, <2>1, <2>2 DEF HearCounter, DecoderFits, clockVars, Times
  <2> QED
    BY <1>1, <2>1, <2>2, <2>3 DEF HearCounter, FilterInv, TypeOK, clockVars
<1>2. CASE HearInterval
  BY <1>2 DEF HearInterval, FilterInv, TypeOK, DecoderFits, clockVars
<1>3. CASE OtherUpdate
  BY <1>3 DEF OtherUpdate, FilterInv, TypeOK, DecoderFits, clockVars, decoderVars
<1> QED
  BY <1>1, <1>2, <1>3 DEF Update

\* A start computed from a count lies between the reset counted from and now,
\* later than that reset by at most the age of the count and its rounding.
LEMMA CountBounds ==
    ASSUME NEW t \in Nat, NEW h \in Nat, NEW read \in Nat, NEW from \in Nat,
           read <= t, h * Hour <= read - from, read - from < h * Hour + Hour
    PROVE  /\ t - h * Hour \in Int
           /\ from <= t - h * Hour /\ t - h * Hour <= t
           /\ t - h * Hour <= from + (t - read) + Hour - 1
<1> DEFINE counted == h * Hour
<1>1. Hour \in Nat
  BY FilterAssumption
<1>2. counted \in Nat
  BY <1>1
<1>3. counted <= read - from /\ read - from < counted + Hour
  OBVIOUS
<1> HIDE DEF counted
<1>4. /\ t - counted \in Int
      /\ from <= t - counted /\ t - counted <= t
      /\ t - counted <= from + (t - read) + Hour - 1
  BY <1>1, <1>2, <1>3
<1> QED
  BY <1>4 DEF counted

\* So does the start an update computes.
LEMMA ResetBounds ==
    ASSUME FilterInv, Update, hours' # None
    PROVE  /\ Reset' \in Int /\ Reset' # None /\ countedFrom' \in Times
           /\ countedFrom' <= Reset' /\ Reset' <= now /\ countedFrom' <= unitStart
           /\ readAt' \in Nat /\ Reset' <= countedFrom' + (now - readAt') + Hour - 1
<1>1. /\ now' = now /\ unitStart' = unitStart /\ now \in Nat
      /\ unitStart \in Nat /\ unitStart <= now /\ now \in Times
  BY UpdateReads DEF FilterInv, TypeOK, CountsFit, clockVars, Times
<1>2. /\ hours' \in Nat /\ readAt' \in Nat /\ countedFrom' \in Nat
      /\ countedFrom' <= unitStart /\ readAt' <= now
      /\ hours' * Hour <= readAt' - countedFrom'
      /\ readAt' - countedFrom' < hours' * Hour + Hour
  BY <1>1, UpdateReads DEF DecoderFits
<1>3. Reset' = now - hours' * Hour
  BY <1>1 DEF Reset
<1>4. /\ Reset' \in Int
      /\ countedFrom' <= Reset' /\ Reset' <= now
      /\ Reset' <= countedFrom' + (now - readAt') + Hour - 1
  BY <1>1, <1>2, <1>3, CountBounds
<1>5. MaxTime \in Nat
  BY FilterAssumption
<1>6. /\ countedFrom' \in Nat /\ countedFrom' <= unitStart
      /\ readAt' \in Nat
  BY <1>2
<1>7. countedFrom' \in Times
  BY <1>1, <1>5, <1>6 DEF Times
<1>8. Reset' # None
  BY <1>4, <1>6 DEF None
<1> QED
  BY <1>4, <1>6, <1>7, <1>8

\* Either the update adopts the count's start or it keeps the cycle.
LEMMA UpdateCases ==
    ASSUME FilterInv, Update
    PROVE  AdoptsReset \/ KeepsCycle
<1> DEFINE has   == hours' # None
           reset == Reset'
           adopt == has /\ Adopts(reset)
           newer == adopt /\ epoch # None /\ reset > epoch
           kept  == IF newer THEN LastN(Append(history, reset), HistoryLimit) ELSE history
<1>1. /\ HandleUpdate /\ now' = now /\ (TypeOK /\ CountsFit)
      /\ history \in Histories /\ CycleFits(epoch, cycle, history)
      /\ epoch \in {None} \cup Int
  BY UpdateReads DEF FilterInv, TypeOK, CyclesFit, clockVars, Histories
<1>2. reset = now - hours' * Hour
  BY <1>1 DEF Reset
<1>3. has => reset \in Int
  BY ResetBounds
<1>4. /\ epoch' = IF adopt THEN reset ELSE epoch
      /\ cycle' = IF adopt THEN countedFrom' ELSE cycle
      /\ history' = IF has /\ kept = <<>> THEN <<reset>> ELSE kept
      /\ marker' = IF newer THEN None ELSE marker
      /\ adopt => savePending'
      /\ late' = IF adopt /\ now - readAt' > Hour THEN late + 1 ELSE late
  BY <1>1, <1>2 DEF HandleUpdate, SaveWanted
<1> HIDE DEF reset
<1>5. epoch = None <=> history = <<>>
  BY <1>1 DEF CycleFits
<1>6. CASE ~adopt
  <2>1. has => history # <<>>
    BY <1>5, <1>6 DEF Adopts
  <2> QED
    BY <1>4, <1>6, <2>1 DEF KeepsCycle, reset
<1>7. CASE adopt /\ epoch = None
  <2>1. history' = <<reset>> /\ history = <<>>
    BY <1>4, <1>5, <1>7
  <2>2. history' \in Histories /\ history' # <<>> /\ Len(history') <= Len(history) + 1
    BY <1>3, <1>7, <2>1, FilterAssumption DEF Histories
  <2> QED
    BY <1>4, <1>7, <2>2 DEF AdoptsReset, reset
<1>8. CASE newer
  <2>1. /\ kept \in Histories /\ kept # <<>> /\ Len(kept) <= Len(history) + 1
    BY <1>1, <1>3, <1>8, HistoryGrows
  <2> QED
    BY <1>4, <1>8, <2>1 DEF AdoptsReset, reset
<1>9. CASE adopt /\ epoch # None /\ ~(reset > epoch)
  <2>1. history' = history /\ history # <<>>
    BY <1>4, <1>5, <1>9
  <2> QED
    BY <1>1, <1>4, <1>9, <2>1 DEF AdoptsReset, reset
<1> QED
  BY <1>6, <1>7, <1>8, <1>9

-----------------------------------------------------------------------------
\* The inductive invariant.

LEMMA InitHolds == Init => FilterInv
<1> SUFFICES ASSUME Init PROVE FilterInv
  OBVIOUS
<1>1. Times # {} /\ 0 \in Times /\ <<>> \in Histories
  BY FilterAssumption DEF Times, Histories
<1>2. TypeOK
  BY <1>1 DEF Init, TypeOK, Histories
<1>3. CountsFit
  <2>1. EmptyStore \in Stores
    BY <1>1 DEF EmptyStore, Stores
  <2>2. warned \in [Times -> Nat]
    BY DEF Init, Times
  <2> QED
    BY <2>1, <2>2 DEF Init, CountsFit
<1>4. DecoderFits /\ CyclesFit /\ StoreIsCurrent
  BY DEF Init, DecoderFits, CyclesFit, CycleFits, EmptyStore, StoreIsCurrent
<1> QED
  BY <1>2, <1>3, <1>4 DEF FilterInv

\* What an update does to the interval and to the saves asked for.
LEMMA UpdateSaves ==
    ASSUME FilterInv, Update
    PROVE  /\ interval' \in {None} \cup Nat /\ remaining' \in {None} \cup Nat
           /\ check' \in {"none", "queued", "saving"} /\ savePending' \in BOOLEAN
           /\ check' = "saving" <=> check = "saving"
           /\ savePending => savePending'
           /\ KeepsCycle /\ ~savePending' => interval' = interval \/ epoch' = None
<1> DEFINE has    == hours' # None
           reset  == now - hours' * Hour
           adopt  == has /\ Adopts(reset)
           synced == IF has THEN UnitInterval ELSE interval
<1>1. HandleUpdate /\ TypeOK
  BY UpdateReads DEF FilterInv
<1>2. interval' = IF hcpInterval' # None THEN hcpInterval' ELSE synced
  BY <1>1 DEF HandleUpdate
<1>3. savePending' = (savePending \/ SaveWanted(adopt, synced))
  BY <1>1 DEF HandleUpdate
<1>4. remaining' = IF epoch' # None /\ interval' # None
                   THEN DaysLeft(epoch', interval', now) ELSE remaining
  BY <1>1 DEF HandleUpdate
<1>5. interval' \in {None} \cup Nat
  BY <1>1, <1>2, UpdateReads, FilterAssumption DEF TypeOK
<1>6. remaining' \in {None} \cup Nat
  <2>1. epoch' # None => epoch' \in Int
    BY <1>1, UpdateCases, ResetBounds DEF AdoptsReset, KeepsCycle, TypeOK
  <2>2. now \in Int
    BY <1>1 DEF TypeOK, Times
  <2> QED
    <3>1. epoch' # None /\ interval' # None => DaysLeft(epoch', interval', now) \in Nat
      <4> SUFFICES ASSUME epoch' # None, interval' # None
                   PROVE  DaysLeft(epoch', interval', now) \in Nat
        OBVIOUS
      <4>1. epoch' \in Int /\ interval' \in Int /\ now \in Int
        BY <1>5, <2>1, <2>2
      <4> QED
        BY <4>1, DaysLeftType, Zenon
    <3> QED
      BY <1>1, <1>4, <3>1 DEF TypeOK
<1>7. /\ check' \in {"none", "queued", "saving"}
      /\ check' = "saving" <=> check = "saving"
  BY <1>1 DEF HandleUpdate, ScheduleCheck, TypeOK
<1>8. savePending' \in BOOLEAN /\ (savePending => savePending')
  BY <1>1, <1>3 DEF TypeOK, SaveWanted
<1>9. KeepsCycle /\ ~savePending' => interval' = interval \/ epoch' = None
  BY <1>2, <1>3 DEF SaveWanted
<1> QED
  BY <1>5, <1>6, <1>7, <1>8, <1>9

LEMMA UpdateKeepsInv ==
    ASSUME FilterInv, Update
    PROVE  FilterInv'
<1>1. TypeOK /\ CountsFit /\ CyclesFit /\ StoreIsCurrent
  BY DEF FilterInv
<1>2. /\ UNCHANGED <<now, unitStart, changes, pressed, store, crashes, warned>>
      /\ DecoderFits'
  BY UpdateReads DEF clockVars
<1>3. CountsFit'
  BY <1>1, <1>2 DEF CountsFit
<1>4. CASE AdoptsReset
  <2>1. TypeOK' /\ CyclesFit'
    <3>1. hours' # None /\ now' \in Times /\ unitStart' \in Times
      BY <1>1, <1>2, <1>4 DEF AdoptsReset, TypeOK
    <3>2. /\ Reset' \in Int /\ Reset' # None
          /\ countedFrom' \in Nat /\ countedFrom' \in Times
          /\ countedFrom' <= Reset' /\ Reset' <= now'
      BY <1>2, <3>1, ResetBounds DEF Times
    <3>3. CyclesFit'
      <4>1. CycleFits(epoch, cycle, history)'
        BY <1>4, <3>2 DEF AdoptsReset, CycleFits
      <4>2. CycleFits(store.epoch, store.cycle, store.history)'
        BY <1>1, <1>2 DEF CyclesFit, CycleFits
      <4> QED
        BY <1>4, <3>2, <4>1, <4>2 DEF AdoptsReset, CyclesFit
    <3>4. late' \in Nat
      BY <1>1, <1>4 DEF AdoptsReset, TypeOK
    <3>5. TypeOK'
      BY <1>1, <1>2, <1>4, <3>2, <3>4, UpdateReads, UpdateSaves
         DEF AdoptsReset, TypeOK, Histories
    <3> QED
      BY <3>3, <3>5
  <2>2. StoreIsCurrent'
    BY <1>4 DEF AdoptsReset, StoreIsCurrent
  <2> QED
    BY <1>2, <1>3, <2>1, <2>2 DEF FilterInv
<1>5. CASE KeepsCycle
  <2>1. TypeOK'
    BY <1>1, <1>2, <1>5, UpdateReads, UpdateSaves DEF KeepsCycle, TypeOK
  <2>2. CyclesFit'
    BY <1>1, <1>2, <1>5, UpdateSaves DEF KeepsCycle, CyclesFit, CycleFits
  <2>3. StoreIsCurrent'
    <3> SUFFICES ASSUME epoch' # None, ~savePending', check' # "saving"
                 PROVE  store' = Snapshot'
      BY DEF StoreIsCurrent
    <3>1. epoch # None /\ ~savePending /\ check # "saving" /\ interval' = interval
      BY <1>5, UpdateSaves DEF KeepsCycle
    <3>2. store = Snapshot
      BY <1>1, <3>1 DEF StoreIsCurrent
    <3> QED
      BY <1>2, <1>5, <3>1, <3>2 DEF KeepsCycle, Snapshot
  <2> QED
    BY <1>2, <1>3, <2>1, <2>2, <2>3 DEF FilterInv
<1> QED
  BY <1>4, <1>5, UpdateCases

\* A save writes a record of the right type that describes a cycle.
LEMMA SnapshotType ==
    ASSUME FilterInv, epoch # None
    PROVE  /\ Snapshot \in Stores
           /\ CycleFits(Snapshot.epoch, Snapshot.cycle, Snapshot.history)
<1>1. TypeOK /\ CycleFits(epoch, cycle, history)
  BY DEF FilterInv, CyclesFit
<1>2. Snapshot \in Stores
  BY <1>1 DEF TypeOK, Snapshot, Stores, Histories
<1>3. Snapshot.epoch = epoch /\ Snapshot.cycle = cycle /\ Snapshot.history = history
  BY DEF Snapshot
<1> QED
  BY <1>1, <1>2, <1>3

LEMMA ResetFilterKeepsInv ==
    ASSUME FilterInv, ResetFilter
    PROVE  FilterInv'
<1>1. /\ TypeOK /\ CountsFit /\ DecoderFits /\ CyclesFit
      /\ now \in Nat /\ now \in Times /\ history \in Histories
  BY DEF FilterInv, TypeOK, Times, Histories
<1>2. /\ UNCHANGED <<now, unitStart, decoderVars, store, crashes, late, warned>>
      /\ changes' = changes + 1 /\ pressed' = pressed + 1
      /\ epoch' = now /\ cycle' = now /\ marker' = None
      /\ interval' = IF interval = None THEN DefaultInterval ELSE interval
      /\ history' = LastN(Append(history, now), HistoryLimit)
      /\ remaining' = DaysLeft(epoch', interval', now)
      /\ savePending' = TRUE
      /\ check' = IF check = "none" THEN "queued" ELSE check
  BY DEF ResetFilter, ScheduleCheck
<1>3. history' \in Histories /\ history' # <<>>
  BY <1>1, <1>2, HistoryGrows
<1>4. interval' \in Nat
  BY <1>1, <1>2 DEF TypeOK, DefaultInterval
<1>5. remaining' \in Nat
  <2>1. epoch' \in Int /\ interval' \in Int /\ now \in Int
    BY <1>1, <1>2, <1>4
  <2> QED
    BY <1>2, <2>1, DaysLeftType, Zenon
<1>6. TypeOK'
  BY <1>1, <1>2, <1>3, <1>4, <1>5 DEF TypeOK, Histories, decoderVars
<1>7. CountsFit' /\ DecoderFits'
  BY <1>1, <1>2 DEF CountsFit, DecoderFits, decoderVars
<1>8. CyclesFit'
  BY <1>1, <1>2, <1>3 DEF CyclesFit, CycleFits, None
<1>9. StoreIsCurrent'
  BY <1>2 DEF StoreIsCurrent
<1> QED
  BY <1>6, <1>7, <1>8, <1>9 DEF FilterInv

LEMMA ClockKeepsInv ==
    ASSUME FilterInv, ResetUnit \/ Tick
    PROVE  FilterInv'
<1>1. /\ TypeOK /\ CountsFit /\ DecoderFits /\ CyclesFit /\ StoreIsCurrent
      /\ MaxTime \in Nat
  BY FilterAssumption DEF FilterInv
<1>2. CASE ResetUnit
  <2>1. /\ UNCHANGED <<now, pressed, decoderVars, cycleVars, remaining, check,
                       savePending, store, crashes, warned>>
        /\ unitStart' = now /\ changes' = changes + 1 /\ unitStart < now
    BY <1>1, <1>2 DEF ResetUnit, TypeOK, Times
  <2>2. TypeOK' /\ CountsFit'
    BY <1>1, <2>1 DEF TypeOK, CountsFit, Times, decoderVars, cycleVars
  <2>3. DecoderFits'
    BY <1>1, <2>1 DEF TypeOK, Times, DecoderFits, decoderVars
  <2>4. CyclesFit' /\ StoreIsCurrent'
    BY <1>1, <2>1 DEF CyclesFit, CycleFits, StoreIsCurrent, Snapshot, cycleVars
  <2> QED
    BY <2>2, <2>3, <2>4 DEF FilterInv
<1>3. CASE Tick
  <2>1. /\ now' = now + 1 /\ now < MaxTime
        /\ UNCHANGED <<unitStart, changes, pressed, decoderVars, cycleVars, savePending,
                       store, crashes, warned>>
        /\ \/ UNCHANGED <<remaining, check>>
           \/ /\ epoch # None /\ interval # None
              /\ remaining' = DaysLeft(epoch, interval, now')
              /\ check' = IF check = "none" THEN "queued" ELSE check
    BY <1>3 DEF Tick, ScheduleCheck
  <2>2. remaining' \in {None} \cup Nat
    <3>1. CASE epoch # None /\ interval # None /\ remaining' = DaysLeft(epoch, interval, now')
      <4>1. epoch \in Int /\ interval \in Int /\ now' \in Int
        BY <1>1, <2>1, <3>1 DEF TypeOK, Times
      <4> QED
        BY <3>1, <4>1, DaysLeftType, Zenon
    <3>2. CASE UNCHANGED remaining
      BY <1>1, <3>2 DEF TypeOK
    <3> QED
      BY <2>1, <3>1, <3>2
  <2>3. now' \in Times /\ now \in Nat /\ now' \in Nat
    BY <1>1, <2>1 DEF TypeOK, Times
  <2>4. TypeOK'
    BY <1>1, <2>1, <2>2, <2>3 DEF TypeOK, decoderVars, cycleVars
  <2>5. CountsFit'
    BY <1>1, <2>1, <2>3 DEF TypeOK, Times, CountsFit
  <2>6. DecoderFits'
    BY <1>1, <2>1, <2>3 DEF DecoderFits, decoderVars
  <2>7. CyclesFit'
    <3>1. epoch \in {None} \cup Int /\ store.epoch \in {None} \cup Int
      BY <1>1 DEF TypeOK, CountsFit, Stores
    <3> QED
      BY <1>1, <2>1, <2>3, <3>1 DEF CyclesFit, CycleFits, cycleVars
  <2>8. StoreIsCurrent'
    BY <1>1, <2>1 DEF StoreIsCurrent, Snapshot, cycleVars
  <2> QED
    BY <2>4, <2>5, <2>6, <2>7, <2>8 DEF FilterInv
<1> QED
  BY <1>2, <1>3

LEMMA NotifyKeepsInv ==
    ASSUME FilterInv, Notify
    PROVE  FilterInv'
<1>1. TypeOK /\ CountsFit /\ DecoderFits /\ CyclesFit /\ StoreIsCurrent
  BY DEF FilterInv
<1>2. UNCHANGED <<clockVars, decoderVars, epoch, interval, history, cycle, late, remaining,
                  savePending, store, crashes>>
  BY DEF Notify
<1>3. /\ check = "queued" /\ check' \in {"none", "saving"}
      /\ marker' \in {marker, epoch}
      /\ IF check' = "saving" THEN epoch # None ELSE marker' = marker
      /\ warned' \in [Times -> Nat]
  BY <1>1 DEF Notify, Due, CountsFit
<1>4. TypeOK'
  BY <1>1, <1>2, <1>3 DEF TypeOK, clockVars, decoderVars
<1>5. CountsFit' /\ DecoderFits' /\ CyclesFit'
  BY <1>1, <1>2, <1>3 DEF CountsFit, DecoderFits, CyclesFit, CycleFits, clockVars, decoderVars
<1>6. StoreIsCurrent'
  BY <1>1, <1>2, <1>3 DEF StoreIsCurrent, Snapshot
<1> QED
  BY <1>4, <1>5, <1>6 DEF FilterInv

LEMMA SavesKeepInv ==
    ASSUME FilterInv, NotifySaved \/ Save
    PROVE  FilterInv'
<1>1. TypeOK /\ CountsFit /\ DecoderFits /\ CyclesFit /\ StoreIsCurrent
  BY DEF FilterInv
<1>2. /\ UNCHANGED <<clockVars, decoderVars, cycleVars, remaining, crashes, warned>>
      /\ check' \in {check, "none"} /\ savePending' \in {savePending, FALSE}
      /\ IF epoch # None THEN store' = Snapshot ELSE store' = store
  BY <1>1 DEF NotifySaved, Save, CyclesFit
<1>3. TypeOK' /\ DecoderFits'
  BY <1>1, <1>2 DEF TypeOK, DecoderFits, clockVars, decoderVars, cycleVars
<1>4. CASE epoch # None
  <2>1. CountsFit'
    BY <1>1, <1>2, <1>4, SnapshotType DEF CountsFit, clockVars
  <2>2. CyclesFit'
    BY <1>1, <1>2, <1>4, SnapshotType DEF CyclesFit, CycleFits, clockVars, cycleVars
  <2>3. StoreIsCurrent'
    BY <1>2, <1>4 DEF StoreIsCurrent, Snapshot, cycleVars
  <2> QED
    BY <1>3, <2>1, <2>2, <2>3 DEF FilterInv
<1>5. CASE epoch = None
  <2>1. CountsFit' /\ CyclesFit' /\ StoreIsCurrent'
    BY <1>1, <1>2, <1>5 DEF CountsFit, CyclesFit, CycleFits, StoreIsCurrent, clockVars, cycleVars
  <2> QED
    BY <1>3, <2>1 DEF FilterInv
<1> QED
  BY <1>4, <1>5

LEMMA CrashKeepsInv ==
    ASSUME FilterInv, Crash
    PROVE  FilterInv'
<1>1. TypeOK /\ CountsFit /\ CyclesFit /\ store \in Stores
  BY DEF FilterInv, CountsFit
<1>2. /\ UNCHANGED <<clockVars, store, late, warned>>
      /\ crashes' = crashes + 1
      /\ epoch' = store.epoch /\ interval' = store.interval /\ marker' = store.marker
      /\ history' = store.history /\ cycle' = store.cycle
      /\ remaining' = IF epoch' # None THEN DaysLeft(epoch', interval', now) ELSE None
      /\ hours' = None /\ readAt' = None /\ countedFrom' = None /\ hcpInterval' = None
      /\ check' = "queued" /\ savePending' = FALSE
  BY DEF Crash
<1>3. /\ epoch' \in {None} \cup Int /\ interval' \in {None} \cup Nat
      /\ marker' \in {None} \cup Int /\ history' \in Histories
      /\ cycle' \in {None} \cup Times
  BY <1>1, <1>2 DEF Stores
<1>4. remaining' \in {None} \cup Nat
  <2>1. epoch' \in Int /\ interval' \in Int /\ now \in Int
    BY <1>1, <1>3 DEF TypeOK, Times, None
  <2>2. DaysLeft(epoch', interval', now) \in Nat
    BY <2>1, DaysLeftType, Zenon
  <2> QED
    BY <1>2, <2>2
<1>5. TypeOK'
  BY <1>1, <1>2, <1>3, <1>4 DEF TypeOK, Histories, clockVars
<1>6. CountsFit' /\ DecoderFits' /\ CyclesFit'
  BY <1>1, <1>2 DEF CountsFit, DecoderFits, CyclesFit, CycleFits, clockVars
<1>7. StoreIsCurrent'
  <2>1. store = [ epoch |-> store.epoch, interval |-> store.interval,
                  marker |-> store.marker, history |-> store.history,
                  cycle |-> store.cycle ]
    BY <1>1 DEF Stores
  <2> QED
    BY <1>2, <2>1 DEF StoreIsCurrent, Snapshot
<1> QED
  BY <1>5, <1>6, <1>7 DEF FilterInv

LEMMA StutterKeepsInv ==
    ASSUME FilterInv, UNCHANGED vars
    PROVE  FilterInv'
<1>1. UNCHANGED <<now, unitStart, changes, pressed, hours, readAt, countedFrom, hcpInterval,
                  epoch, interval, marker, history, cycle, late, remaining, check, savePending,
                  store, crashes, warned>>
  BY DEF vars, clockVars, decoderVars, cycleVars
<1> QED
  BY <1>1 DEF FilterInv, TypeOK, CountsFit, DecoderFits, CyclesFit, CycleFits,
              StoreIsCurrent, Snapshot

LEMMA FilterInvStep ==
    ASSUME FilterInv, [Next]_vars
    PROVE  FilterInv'
  BY UpdateKeepsInv, ResetFilterKeepsInv, ClockKeepsInv, NotifyKeepsInv,
     SavesKeepInv, CrashKeepsInv, StutterKeepsInv DEF Next, Update

LEMMA FilterInvHolds == Safety => []FilterInv
  BY InitHolds, FilterInvStep, PTL DEF Safety

-----------------------------------------------------------------------------
\* Theorems for all constants that FilterAssumption allows.

\* Every variable keeps its type.
THEOREM TypeCorrect == Safety => []TypeOK
<1>1. FilterInv => TypeOK
  BY DEF FilterInv
<1> QED
  BY <1>1, FilterInvHolds, PTL

\* What is not on its way to the disk is on the disk, whichever of the two save
\* tasks and the updates came first.
THEOREM FileIsCurrent == Safety => []StoreIsCurrent
<1>1. FilterInv => StoreIsCurrent
  BY DEF FilterInv
<1> QED
  BY <1>1, FilterInvHolds, PTL

\* An update asks for a save only when it changes the file or HCP4 reports an
\* interval.
THEOREM SavesWithCause == Safety => NoIdleSave
<1> DEFINE Cause == ~savePending /\ savePending' /\ check # "saving" /\ changes' = changes =>
                        Snapshot' # store \/ hcpInterval' # None
<1>1. ASSUME FilterInv, [Next]_vars PROVE Cause
  <2>1. CASE Update
    <3> SUFFICES ASSUME ~savePending, savePending', check # "saving", hcpInterval' = None
                 PROVE  Snapshot' # store
      OBVIOUS
    <3>1. /\ Snapshot'.epoch = epoch' /\ Snapshot'.interval = interval'
          /\ Snapshot.epoch = epoch /\ Snapshot.interval = interval
      BY DEF Snapshot
    <3>2. /\ epoch # None => store = Snapshot
          /\ epoch = None => store.epoch = None
          /\ epoch \in {None} \cup Int
      BY <1>1 DEF FilterInv, StoreIsCurrent, CyclesFit, TypeOK
    <3>3. CASE AdoptsReset
      <4>1. epoch' # None /\ epoch' \in Int /\ Adopts(epoch')
        BY <1>1, <2>1, <3>3, ResetBounds DEF AdoptsReset
      <4>2. epoch' # epoch
        BY <3>2, <4>1, FilterAssumption DEF Adopts, Abs, Tolerance
      <4> QED
        BY <3>1, <3>2, <4>1, <4>2
    <3>4. CASE KeepsCycle
      <4> DEFINE has    == hours' # None
                 reset  == now - hours' * Hour
                 synced == IF has THEN UnitInterval ELSE interval
      <4>1. /\ interval' = synced
            /\ SaveWanted(has /\ Adopts(reset), synced)
        BY <1>1, <2>1, UpdateReads DEF HandleUpdate
      <4>2. has => ~Adopts(reset)
        BY <1>1, <2>1, <3>4, UpdateReads DEF KeepsCycle, Reset, clockVars
      <4>3. synced # interval
        BY <4>1, <4>2 DEF SaveWanted
      <4>4. epoch # None
        BY <4>2, <4>3 DEF Adopts
      <4> QED
        BY <3>1, <3>2, <4>1, <4>3, <4>4
    <3> QED
      BY <1>1, <2>1, <3>3, <3>4, UpdateCases
  <2>2. CASE ResetFilter
    BY <1>1, <2>2 DEF ResetFilter, FilterInv, CountsFit
  <2>3. CASE ResetUnit \/ Tick \/ Notify \/ NotifySaved \/ Save \/ Crash \/ UNCHANGED vars
    <3>1. savePending' => savePending
      BY <1>1, <2>3 DEF ResetUnit, Tick, Notify, NotifySaved, Save, Crash, vars, FilterInv, TypeOK
    <3> QED
      BY <3>1
  <2> QED
    BY <1>1, <2>1, <2>2, <2>3 DEF Next, Update
<1>2. Safety => [][Cause]_vars
  BY <1>1, FilterInvHolds, PTL DEF Safety
<1> QED
  BY <1>2 DEF NoIdleSave

-----------------------------------------------------------------------------
\* What a count over an hour old does, and what nothing else does.

\* The reset of the unit that the next update with a count will start from.
Source == IF countedFrom = None THEN unitStart ELSE countedFrom

\* Every change is in the history at most once, and the ones not heard yet are not:
\* the count may be of a later change than the cycle, and the unit's of a later one
\* than the count.
HistoryFits ==
    /\ Len(history) <= changes + late
    /\ cycle < Source \/ Source < unitStart => Len(history) + 1 <= changes + late
    /\ cycle < Source /\ Source < unitStart => Len(history) + 2 <= changes + late
    /\ Len(store.history) <= changes + late
    /\ store.cycle < unitStart => Len(store.history) + 1 <= changes + late

LEMMA SourceType ==
    ASSUME FilterInv
    PROVE  /\ Source \in Nat /\ Source <= unitStart /\ Source \in Times
           /\ now \in Nat /\ unitStart \in Nat /\ unitStart <= now
           /\ cycle \in Int /\ epoch \in Int /\ changes \in Nat /\ late \in Nat
           /\ store.cycle \in Int /\ store.epoch \in Int
           /\ Len(history) \in Nat /\ Len(store.history) \in Nat
           /\ Tolerance \in Nat
<1>1. /\ now \in Times /\ unitStart \in Times /\ unitStart <= now /\ changes \in Nat
      /\ cycle \in {None} \cup Times /\ epoch \in {None} \cup Int
      /\ countedFrom \in {None} \cup Times /\ late \in Nat
      /\ store.cycle \in {None} \cup Times /\ store.epoch \in {None} \cup Int
      /\ history \in Seq(Int) /\ store.history \in Seq(Int)
  BY DEF FilterInv, TypeOK, CountsFit, Stores, Histories
<1>2. Source \in Times /\ Source <= unitStart
  BY <1>1 DEF FilterInv, DecoderFits, Source, Times
<1>3. Len(history) \in Nat /\ Len(store.history) \in Nat
  BY <1>1, LenProperties
<1>4. Tolerance \in Nat
  BY FilterAssumption DEF Tolerance
<1> QED
  BY <1>1, <1>2, <1>3, <1>4 DEF Times, None

\* An update keeps the reset counted from, or hears of the unit's last one.
LEMMA SourceMoves ==
    ASSUME FilterInv, Update
    PROVE  /\ Source' \in {Source, unitStart}
           /\ hours' # None => Source' = countedFrom'
           /\ UNCHANGED <<now, unitStart, changes, pressed, store, crashes, warned>>
  BY UpdateReads DEF Source, clockVars, FilterInv, DecoderFits, TypeOK, CountsFit, Times, None

\* A start in place of one that differs by more than the tolerance is that of a
\* later change if it is later, and that of an earlier one if it is not, unless
\* the old start is itself later than its change by more than the tolerance.
LEMMA StartsTellChanges ==
    ASSUME NEW start \in Int, NEW change \in Int, change <= start,
           NEW reset \in Int, NEW from \in Int,
           from <= reset, reset <= from + Tolerance,
           Abs(reset - start) > Tolerance
    PROVE  /\ reset > start => change < from
           /\ from = change => start > change + Tolerance
<1>1. Tolerance \in Nat
  BY FilterAssumption DEF Tolerance
<1>2. reset - start > Tolerance \/ start - reset > Tolerance
  BY DEF Abs
<1> QED
  BY <1>1, <1>2

\* The start an update adopts is taken from a count over an hour old; or it is one
\* within the tolerance, and that of another change unless it takes back a start
\* that was not, and of a later change if it enters the history.
LEMMA AdoptsAnother ==
    ASSUME FilterInv, Update, AdoptsReset
    PROVE  /\ cycle' = Source' /\ cycle' \in Nat /\ epoch' # None
           /\ \/ late' = late + 1
              \/ /\ late' = late
                 /\ epoch' <= cycle' + Tolerance
                 /\ epoch = None \/ Reset' > epoch => cycle < cycle'
                 /\ cycle' = cycle => epoch > cycle + Tolerance
<1> DEFINE reset == Reset'
           from  == countedFrom'
           read  == readAt'
<1>1. /\ cycle \in Int /\ epoch \in Int /\ now \in Nat
      /\ epoch = None => cycle = None
      /\ epoch # None => cycle <= epoch
  BY SourceType DEF FilterInv, CyclesFit, CycleFits
<1>2. /\ hours' # None /\ Adopts(reset) /\ epoch' = reset
      /\ cycle' = from /\ cycle' = Source'
      /\ IF now - read > Hour THEN late' = late + 1 ELSE late' = late
  BY SourceMoves DEF AdoptsReset
<1>3. /\ reset \in Int /\ reset # None
      /\ from \in Nat /\ from <= reset
      /\ read \in Nat /\ reset <= from + (now - read) + Hour - 1
  BY <1>2, ResetBounds DEF Times
<1> HIDE DEF reset, from, read
<1>4. CASE now - read > Hour
  BY <1>2, <1>3, <1>4
<1>5. CASE ~(now - read > Hour)
  <2>1. Hour \in Nat \ {0} /\ Tolerance = 2 * Hour
    BY FilterAssumption DEF Tolerance
  <2>2. reset <= from + Tolerance
    BY <1>1, <1>3, <1>5, <2>1
  <2>3. CASE epoch = None
    BY <1>1, <1>2, <1>3, <1>5, <2>2, <2>3 DEF None
  <2>4. CASE epoch # None
    <3>1. Abs(reset - epoch) > Tolerance
      BY <1>2, <2>4 DEF Adopts
    <3>2. /\ reset > epoch => cycle < from
          /\ from = cycle => epoch > cycle + Tolerance
      BY <1>1, <1>3, <2>2, <2>4, <3>1, StartsTellChanges
    <3> QED
      BY <1>2, <1>3, <1>5, <2>2, <2>4, <3>2 DEF reset
  <2> QED
    BY <2>3, <2>4
<1> QED
  BY <1>4, <1>5

\* The other steps, as far as they concern starts and changes.
LEMMA OtherSteps ==
    ASSUME FilterInv, [Next]_vars, ~Update
    PROVE  \/ ResetFilter
           \/ ResetUnit
           \/ Crash
           \/ /\ UNCHANGED <<unitStart, countedFrom, epoch, cycle, history, changes,
                             pressed, crashes, late>>
              /\ now' \in Nat /\ now <= now'
              /\ \/ store' = store
                 \/ store' = Snapshot /\ epoch # None
<1>1. now \in Nat
  BY DEF FilterInv, TypeOK, Times
<1>2. CASE Tick
  BY <1>1, <1>2 DEF Tick, decoderVars, cycleVars
<1>3. CASE Notify
  BY <1>1, <1>3 DEF Notify, clockVars, decoderVars
<1>4. CASE NotifySaved
  BY <1>1, <1>4 DEF NotifySaved, clockVars, decoderVars, cycleVars, FilterInv, CyclesFit
<1>5. CASE Save
  BY <1>1, <1>5 DEF Save, clockVars, decoderVars, cycleVars
<1>6. CASE UNCHANGED vars
  BY <1>1, <1>6 DEF vars, clockVars, decoderVars, cycleVars
<1> QED
  BY <1>2, <1>3, <1>4, <1>5, <1>6 DEF Next, Update

LEMMA HistoryFitsStep ==
    ASSUME FilterInv, HistoryFits, [Next]_vars
    PROVE  HistoryFits'
<1>1. /\ Source \in Nat /\ Source <= unitStart /\ cycle \in Int /\ changes \in Nat
      /\ now \in Nat /\ unitStart \in Nat /\ unitStart <= now /\ late \in Nat
      /\ store.cycle \in Int /\ Len(history) \in Nat /\ Len(store.history) \in Nat
  BY SourceType
<1>2. CASE Update
  <2>1. /\ Source' \in {Source, unitStart}
        /\ unitStart' = unitStart /\ changes' = changes /\ store' = store
    BY <1>2, SourceMoves
  <2>2. CASE AdoptsReset
    <3>1. Len(history') \in Nat
      BY <2>2, LenProperties DEF AdoptsReset, Histories
    <3>2. /\ cycle' = Source' /\ Len(history') <= Len(history) + 1
          /\ \/ late' = late + 1
             \/ late' = late /\ cycle < Source'
             \/ late' = late /\ Len(history') = Len(history)
      BY <1>1, <1>2, <2>2, AdoptsAnother DEF AdoptsReset
    <3> QED
      BY <1>1, <2>1, <3>1, <3>2 DEF HistoryFits
  <2>3. CASE KeepsCycle
    BY <1>1, <2>1, <2>3 DEF KeepsCycle, HistoryFits
  <2> QED
    BY <1>2, <2>2, <2>3, UpdateCases
<1>3. CASE ResetFilter
  <2>1. /\ UNCHANGED <<unitStart, countedFrom, store, late>>
        /\ changes' = changes + 1 /\ cycle' = now
        /\ history' = LastN(Append(history, now), HistoryLimit)
    BY <1>3 DEF ResetFilter, decoderVars
  <2>2. history \in Histories /\ now \in Int
    BY <1>1 DEF FilterInv, TypeOK, Histories
  <2>3. Len(history') \in Nat /\ Len(history') <= Len(history) + 1
    BY <2>1, <2>2, HistoryGrows, LenProperties DEF Histories
  <2>4. Source' = Source
    BY <2>1 DEF Source
  <2> QED
    BY <1>1, <2>1, <2>3, <2>4 DEF HistoryFits
<1>4. CASE ResetUnit
  <2>1. /\ unitStart' = now /\ changes' = changes + 1
        /\ UNCHANGED <<countedFrom, cycle, history, store, late>>
    BY <1>4 DEF ResetUnit, decoderVars, cycleVars
  <2>2. Source' = Source \/ (Source' = now /\ Source = unitStart)
    BY <2>1 DEF Source
  <2> QED
    BY <1>1, <2>1, <2>2 DEF HistoryFits
<1>5. CASE Crash
  <2>1. /\ history' = store.history /\ cycle' = store.cycle /\ late' = late
        /\ store' = store
        /\ Source' = unitStart' /\ unitStart' = unitStart /\ changes' = changes
    BY <1>5 DEF Crash, Source, clockVars
  <2> QED
    BY <1>1, <2>1 DEF HistoryFits
<1>6. ASSUME UNCHANGED <<unitStart, countedFrom, cycle, history, changes, late>>,
             store' = store \/ store' = Snapshot
      PROVE  HistoryFits'
  <2>1. Source' = Source
    BY <1>6 DEF Source
  <2>2. Snapshot.history = history /\ Snapshot.cycle = cycle
    BY DEF Snapshot
  <2> QED
    BY <1>1, <1>6, <2>1, <2>2 DEF HistoryFits
<1> QED
  BY <1>2, <1>3, <1>4, <1>5, <1>6, OtherSteps

-----------------------------------------------------------------------------
\* Warnings still to come, each counted as one.

\* A warning for change c is due, or will be without another press or restart.
Armed(c) == IF cycle = c /\ marker # epoch THEN 1 ELSE 0

\* The unit's count may yet make c the change that the cycle stands for: it is
\* not over, its count was not read, or it was read and not adopted.
Unheard(c) ==
    IF \/ now <= c /\ c # unitStart
       \/ c = unitStart /\ Source # c
       \/ c = Source /\ cycle # c
    THEN 1 ELSE 0

\* The start was taken from an old count, and a reading will take it back.
Skewed(c) == IF cycle = c /\ epoch > cycle + Tolerance THEN 1 ELSE 0

\* The same of the cycle that a restart would load.
StoreArmed(c) == IF store.cycle = c /\ store.marker # store.epoch THEN 1 ELSE 0
StoreUnheard(c) ==
    IF \/ now <= c /\ c # unitStart
       \/ c = unitStart /\ store.cycle # c
    THEN 1 ELSE 0
StoreSkewed(c) ==
    IF store.cycle = c /\ store.epoch > store.cycle + Tolerance THEN 1 ELSE 0

Chances(c) == Armed(c) + Unheard(c) + Skewed(c)
StoreChances(c) == StoreArmed(c) + StoreUnheard(c) + StoreSkewed(c)

\* A warning that was sent is not on disk yet.
Unsaved == IF check = "saving" THEN 1 ELSE 0

Causes == 1 + crashes + pressed + 2 * late

\* Every warning to come without a press, a restart or an old count is within the
\* bound; so is every warning to come after a restart, which sends again at most
\* the one warning that was not saved.
WarningsFit ==
    \A c \in Times : /\ warned[c] + Chances(c) <= Causes
                     /\ warned[c] + StoreChances(c) <= Causes + Unsaved

\* Each chance is one or none, before and after a step.
LEMMA ChanceTypes ==
    ASSUME NEW c \in Times
    PROVE  /\ Armed(c) \in 0..1 /\ Unheard(c) \in 0..1 /\ Skewed(c) \in 0..1
           /\ StoreArmed(c) \in 0..1 /\ StoreUnheard(c) \in 0..1 /\ StoreSkewed(c) \in 0..1
           /\ Unsaved \in 0..1
           /\ Armed(c)' \in 0..1 /\ Unheard(c)' \in 0..1 /\ Skewed(c)' \in 0..1
           /\ StoreArmed(c)' \in 0..1 /\ StoreUnheard(c)' \in 0..1
           /\ StoreSkewed(c)' \in 0..1 /\ Unsaved' \in 0..1
  BY DEF Armed, Unheard, Skewed, StoreArmed, StoreUnheard, StoreSkewed, Unsaved

\* So their sums, the causes and the warnings are natural numbers.
LEMMA CountTypes ==
    ASSUME FilterInv, FilterInv', NEW c \in Times
    PROVE  /\ Chances(c) \in Nat /\ StoreChances(c) \in Nat /\ Causes \in Nat
           /\ Chances(c)' \in Nat /\ StoreChances(c)' \in Nat /\ Causes' \in Nat
           /\ Unsaved \in 0..1 /\ Unsaved' \in 0..1
           /\ warned[c] \in Nat /\ warned'[c] \in Nat
<1>1. warned[c] \in Nat /\ warned'[c] \in Nat
  BY DEF FilterInv, CountsFit
<1>2. Causes \in Nat /\ Causes' \in Nat
  <2>1. /\ crashes \in Nat /\ pressed \in Nat /\ late \in Nat
        /\ crashes' \in Nat /\ pressed' \in Nat /\ late' \in Nat
    BY DEF FilterInv, CountsFit, TypeOK
  <2>2. \A k, m, n \in Nat : 1 + k + m + 2 * n \in Nat
    OBVIOUS
  <2>3. 1 + crashes + pressed + 2 * late \in Nat
    BY <2>1, <2>2
  <2>4. 1 + crashes' + pressed' + 2 * late' \in Nat
    BY <2>1, <2>2
  <2> QED
    BY <2>3, <2>4 DEF Causes
<1>3. /\ Chances(c) \in Nat /\ StoreChances(c) \in Nat
      /\ Chances(c)' \in Nat /\ StoreChances(c)' \in Nat
  BY ChanceTypes DEF Chances, StoreChances
<1> QED
  BY <1>1, <1>2, <1>3, ChanceTypes

\* An update makes a warning possible only where one was before, or takes its start
\* from a count over an hour old.
LEMMA UpdateKeepsChances ==
    ASSUME FilterInv, Update, NEW c \in Times
    PROVE  Chances(c)' + 2 * late <= Chances(c) + 2 * late'
<1>1. /\ Source \in Nat /\ Source <= unitStart /\ now \in Nat /\ unitStart \in Nat
      /\ unitStart <= now /\ late \in Nat /\ c \in Nat
  BY SourceType DEF Times
<1>2. /\ Source' \in {Source, unitStart}
      /\ now' = now /\ unitStart' = unitStart
  BY SourceMoves
<1>3. CASE AdoptsReset
  <2>1. cycle' = Source'
    BY <1>3, AdoptsAnother
  <2>2. Unheard(c)' <= Unheard(c)
    BY <1>2, <2>1 DEF Unheard
  <2>3. CASE late' = late + 1
    BY <1>1, <2>2, <2>3, ChanceTypes DEF Chances
  <2>4. CASE /\ late' = late
             /\ epoch' <= cycle' + Tolerance
             /\ cycle' = cycle => epoch > cycle + Tolerance
    <3>1. Tolerance' = Tolerance
      BY DEF Tolerance
    <3>2. Skewed(c)' = 0
      <4>1. epoch' \in Int /\ cycle' \in Int /\ Tolerance \in Nat
        BY <1>3, AdoptsAnother, SourceType, ResetBounds DEF AdoptsReset
      <4>2. epoch' <= cycle' + Tolerance
        BY <2>4
      <4>3. ~(epoch' > cycle' + Tolerance)
        <5> DEFINE e == epoch'
                   k == cycle'
        <5>1. e \in Int /\ k \in Int /\ Tolerance \in Nat /\ e <= k + Tolerance
          BY <4>1, <4>2
        <5> HIDE DEF e, k
        <5>2. ~(e > k + Tolerance)
          BY <5>1
        <5> QED
          BY <5>2 DEF e, k
      <4> QED
        BY <3>1, <4>3 DEF Skewed
    <3>3. CASE c # cycle'
      <4>1. Armed(c)' = 0
        BY <3>3 DEF Armed
      <4> QED
        BY <1>1, <2>2, <2>4, <3>2, <4>1, ChanceTypes DEF Chances
    <3>4. CASE c = cycle' /\ cycle' = cycle
      <4>1. Skewed(c) = 1
        BY <2>4, <3>4 DEF Skewed
      <4> QED
        BY <1>1, <2>2, <2>4, <3>2, <4>1, ChanceTypes DEF Chances
    <3>5. CASE c = cycle' /\ cycle' # cycle
      <4>1. Unheard(c) = 1
        BY <1>2, <2>1, <3>5 DEF Unheard
      <4>2. Unheard(c)' = 0
        BY <1>1, <1>2, <2>1, <3>5 DEF Unheard
      <4> QED
        BY <1>1, <2>4, <3>2, <4>1, <4>2, ChanceTypes DEF Chances
    <3> QED
      BY <3>3, <3>4, <3>5
  <2> QED
    BY <1>3, <2>3, <2>4, AdoptsAnother
<1>4. CASE KeepsCycle
  <2>1. UNCHANGED <<epoch, cycle, marker, late>>
    BY <1>4 DEF KeepsCycle
  <2>2. Armed(c)' = Armed(c) /\ Skewed(c)' = Skewed(c)
    BY <2>1 DEF Armed, Skewed, Tolerance
  <2>3. Unheard(c)' <= Unheard(c)
    BY <1>2, <2>1 DEF Unheard
  <2> QED
    BY <1>1, <2>1, <2>2, <2>3, ChanceTypes DEF Chances
<1> QED
  BY <1>3, <1>4, UpdateCases

\* What the steps do to the chances in memory and on disk.
LEMMA UpdateHolds ==
    ASSUME FilterInv, FilterInv', WarningsFit, Update
    PROVE  WarningsFit'
<1> SUFFICES ASSUME NEW c \in Times
             PROVE  /\ warned'[c] + Chances(c)' <= Causes'
                    /\ warned'[c] + StoreChances(c)' <= Causes' + Unsaved'
  BY DEF WarningsFit
<1>1. /\ UNCHANGED <<now, unitStart, store, pressed, crashes, warned>>
      /\ check' = "saving" <=> check = "saving"
  BY SourceMoves, UpdateSaves
<1>2. /\ crashes \in Nat /\ pressed \in Nat /\ late \in Nat
      /\ late' = late \/ late' = late + 1
  BY UpdateCases, AdoptsAnother DEF FilterInv, CountsFit, TypeOK, KeepsCycle
<1>3. Chances(c)' + Causes <= Chances(c) + Causes' /\ Causes <= Causes'
  BY <1>1, <1>2, CountTypes, UpdateKeepsChances DEF Causes
<1>4. StoreChances(c)' = StoreChances(c) /\ Unsaved' = Unsaved
  BY <1>1 DEF StoreChances, StoreArmed, StoreUnheard, StoreSkewed, Unsaved, Tolerance
<1> QED
  BY <1>1, <1>3, <1>4, CountTypes DEF WarningsFit

LEMMA ResetsHold ==
    ASSUME FilterInv, FilterInv', WarningsFit, ResetFilter \/ ResetUnit \/ Tick
    PROVE  WarningsFit'
<1> USE DEF clockVars, decoderVars, cycleVars
<1> SUFFICES ASSUME NEW c \in Times
             PROVE  /\ warned'[c] + Chances(c)' <= Causes'
                    /\ warned'[c] + StoreChances(c)' <= Causes' + Unsaved'
  BY DEF WarningsFit
<1>1. /\ Source \in Nat /\ Source <= unitStart /\ now \in Nat /\ unitStart \in Nat
      /\ unitStart <= now /\ crashes \in Nat /\ pressed \in Nat /\ late \in Nat /\ c \in Nat
  BY SourceType DEF FilterInv, CountsFit, Times
<1>2. /\ UNCHANGED <<countedFrom, store, crashes, late, warned>>
      /\ Unsaved' = Unsaved
  BY DEF ResetFilter, ResetUnit, Tick, ScheduleCheck, Unsaved
<1>3. StoreArmed(c)' = StoreArmed(c) /\ StoreSkewed(c)' = StoreSkewed(c)
  BY <1>2 DEF StoreArmed, StoreSkewed, Tolerance
<1>4. CASE ResetFilter
  <2>1. /\ UNCHANGED <<now, unitStart>>
        /\ pressed' = pressed + 1 /\ cycle' = now /\ epoch' = now
    BY <1>4 DEF ResetFilter
  <2>2. Skewed(c)' = 0
    BY <1>1, <2>1, FilterAssumption DEF Skewed, Tolerance
  <2>3. StoreChances(c)' = StoreChances(c)
    BY <1>2, <1>3, <2>1 DEF StoreChances, StoreUnheard
  <2>4. Armed(c)' + Unheard(c)' <= Unheard(c) + 1
    <3>1. CASE c = now
      <4>1. Unheard(c)' <= Unheard(c)
        BY <1>2, <2>1, <3>1 DEF Unheard, Source
      <4> QED
        BY <4>1, ChanceTypes
    <3>2. CASE c # now
      BY <2>1, <3>2, ChanceTypes DEF Armed
    <3> QED
      BY <3>1, <3>2
  <2>5. Chances(c)' <= Chances(c) + 1
    BY <2>2, <2>4, ChanceTypes DEF Chances
  <2>6. Causes' = Causes + 1
    BY <1>1, <1>2, <2>1 DEF Causes
  <2> QED
    BY <1>2, <2>3, <2>5, <2>6, CountTypes DEF WarningsFit
<1>5. CASE ResetUnit \/ Tick
  <2>1. /\ UNCHANGED <<pressed, cycle, epoch, marker>>
        /\ \/ now' = now /\ unitStart' = now
           \/ now' = now + 1 /\ unitStart' = unitStart
    BY <1>5 DEF ResetUnit, Tick
  <2>2. Armed(c)' = Armed(c) /\ Skewed(c)' = Skewed(c)
    BY <2>1 DEF Armed, Skewed, Tolerance
  <2>3. Unheard(c)' <= Unheard(c)
    BY <1>1, <1>2, <2>1 DEF Unheard, Source
  <2>4. StoreUnheard(c)' <= StoreUnheard(c)
    BY <1>1, <1>2, <2>1 DEF StoreUnheard
  <2>5. Chances(c)' <= Chances(c) /\ StoreChances(c)' <= StoreChances(c)
    BY <1>3, <2>2, <2>3, <2>4, ChanceTypes DEF Chances, StoreChances
  <2>6. Causes' = Causes
    BY <1>2, <2>1 DEF Causes
  <2> QED
    BY <1>2, <2>5, <2>6, CountTypes DEF WarningsFit
<1> QED
  BY <1>4, <1>5

LEMMA NotifyHolds ==
    ASSUME FilterInv, FilterInv', WarningsFit, Notify
    PROVE  WarningsFit'
<1> SUFFICES ASSUME NEW c \in Times
             PROVE  /\ warned'[c] + Chances(c)' <= Causes'
                    /\ warned'[c] + StoreChances(c)' <= Causes' + Unsaved'
  BY DEF WarningsFit
<1>1. /\ UNCHANGED <<now, unitStart, countedFrom, epoch, cycle, pressed, store, crashes, late>>
      /\ Unsaved = 0
  BY DEF Notify, clockVars, decoderVars, Unsaved
<1>2. /\ StoreChances(c)' = StoreChances(c) /\ Causes' = Causes
      /\ Unheard(c)' = Unheard(c) /\ Skewed(c)' = Skewed(c)
  BY <1>1 DEF StoreChances, StoreArmed, StoreUnheard, StoreSkewed, Causes, Unheard, Skewed,
              Source, Tolerance
<1>3. CASE Due /\ c = cycle
  <2>1. warned' = [warned EXCEPT ![cycle] = @ + 1] /\ marker' = epoch /\ Unsaved' = 1
    BY <1>3 DEF Notify, Unsaved
  <2>2. warned'[c] = warned[c] + 1
    BY <1>3, <2>1 DEF FilterInv, CountsFit
  <2>3. Armed(c) = 1 /\ Armed(c)' = 0
    BY <1>1, <1>3, <2>1 DEF Due, Armed
  <2>4. Chances(c)' + 1 = Chances(c)
    BY <1>2, <2>3, ChanceTypes DEF Chances
  <2>5. /\ warned[c] + Chances(c) <= Causes
        /\ warned[c] + StoreChances(c) <= Causes + Unsaved
    BY DEF WarningsFit
  <2> QED
    BY <1>1, <1>2, <2>1, <2>2, <2>4, <2>5, CountTypes
<1>4. CASE ~(Due /\ c = cycle)
  <2>1. warned'[c] = warned[c]
    BY <1>4 DEF Notify, FilterInv, CountsFit
  <2>2. Armed(c)' <= Armed(c)
    BY <1>1 DEF Notify, Armed
  <2>3. Chances(c)' <= Chances(c)
    BY <1>2, <2>2, ChanceTypes DEF Chances
  <2>4. /\ warned[c] + Chances(c) <= Causes
        /\ warned[c] + StoreChances(c) <= Causes + Unsaved
    BY DEF WarningsFit
  <2> QED
    BY <1>1, <1>2, <2>1, <2>3, <2>4, CountTypes
<1> QED
  BY <1>3, <1>4

\* What is saved leaves the chances of the cycle in memory.
LEMMA SavesHold ==
    ASSUME FilterInv, FilterInv', WarningsFit, NotifySaved \/ Save \/ UNCHANGED vars
    PROVE  WarningsFit'
<1> SUFFICES ASSUME NEW c \in Times
             PROVE  /\ warned'[c] + Chances(c)' <= Causes'
                    /\ warned'[c] + StoreChances(c)' <= Causes' + Unsaved'
  BY DEF WarningsFit
<1>1. /\ UNCHANGED <<now, unitStart, countedFrom, epoch, cycle, marker, pressed, crashes,
                     late, warned>>
      /\ \/ store' = Snapshot
         \/ store' = store /\ Unsaved' = Unsaved
  BY DEF NotifySaved, Save, vars, clockVars, decoderVars, cycleVars, Unsaved
<1>2. Chances(c)' = Chances(c) /\ Causes' = Causes
  BY <1>1 DEF Chances, Armed, Unheard, Skewed, Causes, Source, Tolerance
<1>3. CASE store' = Snapshot
  <2>1. store'.cycle = cycle /\ store'.epoch = epoch /\ store'.marker = marker
    BY <1>3 DEF Snapshot
  <2>2. StoreArmed(c)' = Armed(c) /\ StoreSkewed(c)' = Skewed(c)
    BY <2>1 DEF StoreArmed, StoreSkewed, Armed, Skewed, Tolerance
  <2>3. StoreUnheard(c)' <= Unheard(c)
    BY <1>1, <2>1 DEF StoreUnheard, Unheard
  <2>4. StoreChances(c)' <= Chances(c)
    BY <2>2, <2>3, ChanceTypes DEF StoreChances, Chances
  <2> QED
    BY <1>1, <1>2, <2>4, CountTypes DEF WarningsFit
<1>4. CASE store' = store /\ Unsaved' = Unsaved
  <2>1. StoreChances(c)' = StoreChances(c)
    BY <1>1, <1>4 DEF StoreChances, StoreArmed, StoreUnheard, StoreSkewed, Tolerance
  <2> QED
    BY <1>1, <1>2, <1>4, <2>1 DEF WarningsFit
<1> QED
  BY <1>1, <1>3, <1>4

\* A restart loads the chances on disk.
LEMMA CrashHolds ==
    ASSUME FilterInv, FilterInv', WarningsFit, Crash
    PROVE  WarningsFit'
<1> SUFFICES ASSUME NEW c \in Times
             PROVE  /\ warned'[c] + Chances(c)' <= Causes'
                    /\ warned'[c] + StoreChances(c)' <= Causes' + Unsaved'
  BY DEF WarningsFit
<1>1. /\ UNCHANGED <<now, unitStart, pressed, store, late, warned>>
      /\ crashes' = crashes + 1 /\ Source' = unitStart
      /\ epoch' = store.epoch /\ cycle' = store.cycle /\ marker' = store.marker
      /\ Unsaved' = 0
  BY DEF Crash, clockVars, Source, Unsaved
<1>2. /\ StoreChances(c)' = StoreChances(c)
      /\ Armed(c)' = StoreArmed(c) /\ Skewed(c)' = StoreSkewed(c)
  BY <1>1 DEF StoreChances, StoreArmed, StoreUnheard, StoreSkewed, Armed, Skewed, Tolerance
<1>3. Unheard(c)' <= StoreUnheard(c)
  BY <1>1 DEF Unheard, StoreUnheard
<1>4. Chances(c)' <= StoreChances(c)
  BY <1>2, <1>3, ChanceTypes DEF Chances, StoreChances
<1>5. Causes' = Causes + 1
  BY <1>1 DEF Causes, FilterInv, CountsFit, TypeOK
<1>6. warned[c] + StoreChances(c) <= Causes + Unsaved
  BY DEF WarningsFit
<1> QED
  BY <1>1, <1>2, <1>4, <1>5, <1>6, CountTypes

LEMMA WarningsFitStep ==
    ASSUME FilterInv, WarningsFit, [Next]_vars
    PROVE  WarningsFit'
  BY FilterInvStep, UpdateHolds, ResetsHold, NotifyHolds, SavesHold, CrashHolds
     DEF Next, Update

-----------------------------------------------------------------------------
\* Theorems for all constants that FilterAssumption allows, whatever the age of the
\* count.

CauseInv == FilterInv /\ HistoryFits /\ WarningsFit

LEMMA CauseInvHolds == Safety => []CauseInv
<1>1. Init => CauseInv
  <2> SUFFICES ASSUME Init PROVE CauseInv
    OBVIOUS
  <2>1. FilterInv
    BY InitHolds
  <2>2. HistoryFits
    BY DEF Init, EmptyStore, HistoryFits, Source, None
  <2>3. WarningsFit
    <3> SUFFICES ASSUME NEW c \in Times
                 PROVE  /\ warned[c] + Chances(c) <= Causes
                        /\ warned[c] + StoreChances(c) <= Causes + Unsaved
      BY DEF WarningsFit
    <3>1. c \in Nat /\ cycle = None /\ store.cycle = None /\ c # None
      BY DEF Init, EmptyStore, Times, None
    <3>2. /\ Armed(c) = 0 /\ Skewed(c) = 0 /\ StoreArmed(c) = 0 /\ StoreSkewed(c) = 0
          /\ Unsaved = 0
      BY <3>1 DEF Init, Armed, Skewed, StoreArmed, StoreSkewed, Unsaved
    <3>3. warned[c] = 0 /\ Causes = 1
      BY DEF Init, Causes, Times
    <3> QED
      BY <3>2, <3>3, ChanceTypes DEF Chances, StoreChances
  <2> QED
    BY <2>1, <2>2, <2>3 DEF CauseInv
<1>2. CauseInv /\ [Next]_vars => CauseInv'
  BY FilterInvStep, HistoryFitsStep, WarningsFitStep DEF CauseInv
<1> QED
  BY <1>1, <1>2, PTL DEF Safety

\* Jitter of the whole-hour count never enters the history and no change enters it
\* twice, over restarts and presses of the button; a count over an hour old adds
\* one entry at most for each start taken from it.
THEOREM OnlyCausedEntries == Safety => []HistoryIsReal
<1>1. CauseInv => HistoryIsReal
  BY DEF CauseInv, HistoryFits, HistoryIsReal
<1> QED
  BY <1>1, CauseInvHolds, PTL

\* Every warning of a change but the first has a restart, a press of the button in
\* Home Assistant or a count over an hour old behind it, and each of these at most
\* one, one and two.
THEOREM WarnsWithCause == Safety => []WarningsHaveCause
<1>1. CauseInv => WarningsHaveCause
  <2> SUFFICES ASSUME CauseInv, NEW c \in Times
               PROVE  warned[c] <= 1 + crashes + pressed + 2 * late
    BY DEF WarningsHaveCause
  <2>1. warned[c] \in Nat /\ Causes = 1 + crashes + pressed + 2 * late /\ Causes \in Nat
    BY DEF CauseInv, FilterInv, CountsFit, TypeOK, Causes
  <2>2. warned[c] + Chances(c) <= Causes /\ Chances(c) \in Nat
    BY ChanceTypes DEF CauseInv, WarningsFit, Chances
  <2> QED
    BY <2>1, <2>2
<1> QED
  BY <1>1, CauseInvHolds, PTL

\* What README.md:181 says holds of every behaviour without a restart, a press of the
\* button in Home Assistant and a start taken from a count over an hour old.
THEOREM WarnsOnce == Safety => [](crashes + pressed + late = 0 => WarnedOncePerCycle)
<1>1. CauseInv /\ WarningsHaveCause => (crashes + pressed + late = 0 => WarnedOncePerCycle)
  <2> SUFFICES ASSUME CauseInv, WarningsHaveCause, crashes + pressed + late = 0,
                      NEW c \in Times
               PROVE  warned[c] <= 1
    BY DEF WarnedOncePerCycle
  <2>1. crashes \in Nat /\ pressed \in Nat /\ late \in Nat /\ warned[c] \in Nat
    BY DEF CauseInv, FilterInv, CountsFit, TypeOK
  <2> QED
    BY <2>1 DEF WarningsHaveCause
<1> QED
  BY <1>1, CauseInvHolds, WarnsWithCause, PTL

\* Within a cycle the start moves only for a count over an hour old, or to take back
\* a start that such a count gave: the rounding of the count does not move it.
THEOREM StartIsStable == Safety => CycleStartIsStable
<1> DEFINE Stable == crashes' = crashes /\ cycle' = cycle /\ epoch' # epoch =>
                        late' > late \/ epoch > cycle + Tolerance
<1>1. ASSUME FilterInv, [Next]_vars PROVE Stable
  <2>1. CASE Update
    <3>1. CASE AdoptsReset
      <4>1. late \in Nat
        BY <1>1 DEF FilterInv, TypeOK
      <4>2. late' = late + 1 \/ (cycle' = cycle => epoch > cycle + Tolerance)
        BY <1>1, <2>1, <3>1, AdoptsAnother
      <4> QED
        BY <4>1, <4>2
    <3>2. CASE KeepsCycle
      BY <3>2 DEF KeepsCycle
    <3> QED
      BY <1>1, <2>1, <3>1, <3>2, UpdateCases
  <2>2. CASE ResetFilter
    <3>1. epoch' = now /\ cycle' = now
      BY <2>2 DEF ResetFilter
    <3>2. cycle = now => epoch = now
      BY <1>1, SourceType DEF FilterInv, CyclesFit, CycleFits, None
    <3> QED
      BY <3>1, <3>2
  <2>3. CASE Crash
    BY <1>1, <2>3 DEF Crash, FilterInv, CountsFit
  <2>4. CASE ResetUnit
    BY <2>4 DEF ResetUnit, cycleVars
  <2> QED
    BY <1>1, <2>1, <2>2, <2>3, <2>4, OtherSteps
<1>2. Safety => [][Stable]_vars
  BY <1>1, FilterInvHolds, PTL DEF Safety
<1> QED
  BY <1>2 DEF CycleStartIsStable
=============================================================================
