-------------------------- MODULE LinkClient_proofs --------------------------
(***************************************************************************)
(* Theorems about LinkClient: the repair issues tell the truth, and an     *)
(* outage is reported in bounded time, for every pause, delay and          *)
(* connection time, under the assumption LinkAssumption alone.             *)
(***************************************************************************)
EXTENDS LinkClient, TLAPS

\* The coordinator's timers agree with what really happened: the one of the
\* connection starts at the latest when the first attempt has failed.
TimersAreTrue ==
    /\ connected <=> loop = "reading"
    /\ connected <=> downFor = Never
    /\ connected => lostFor = Never
    /\ lostFor <= downFor
    /\ lostFor # Never => downFor <= lostFor + ConnectTime
    /\ lostFor = Never /\ ~connected => loop = "opening" /\ downFor = timer
    /\ offFor = hac1LostFor
    /\ offFor # Never <=> connected /\ hac1 = "off"

\* An issue on show is one whose timer has passed the delay.
IssuesFollowTimers ==
    /\ "connection_lost" \in issues => ~connected /\ lostFor > IssueDelay
    /\ "hac1_disconnected" \in issues => connected /\ hac1LostFor > IssueDelay

\* Until the issue is on show, little more than the delay has passed since the
\* last update: what run() has waited for since then.
UpdatesAreRecent ==
    ~connected /\ lostFor # Never /\ "connection_lost" \notin issues =>
        /\ loop = "sleeping" => lostFor <= IssueDelay + timer
        /\ loop = "opening" => lostFor <= IssueDelay + MaxDelay + timer

LinkInv == TypeOK /\ TimersAreTrue /\ IssuesFollowTimers /\ UpdatesAreRecent

-----------------------------------------------------------------------------
\* What an update does to the issues, whatever step makes it.

\* A timer that runs for something that is the case stays an age.
LEMMA SinceIsAge ==
    ASSUME NEW bad \in BOOLEAN, NEW age \in Ages
    PROVE  /\ Since(bad, age) \in Ages
           /\ ~bad => Since(bad, age) = Never
           /\ bad => Since(bad, age) = IF age = Never THEN 0 ELSE age
BY LinkAssumption DEF Since, Ages, Cap, ReportTime, Never

\* After an update without a connection the issue is on show, or the timer has
\* not passed the delay.
LEMMA UpdateWhileDown ==
    ASSUME LinkInv, UpdateHealth, connected' = FALSE
    PROVE  /\ lostFor' = IF lostFor = Never THEN 0 ELSE lostFor
           /\ hac1LostFor' = Never
           /\ issues' \subseteq {"connection_lost"}
           /\ "connection_lost" \in issues' <=> lostFor' > IssueDelay
<1>1. lostFor \in Ages /\ hac1LostFor \in Ages
  BY DEF LinkInv, TypeOK
<1>2. lostFor' = IF lostFor = Never THEN 0 ELSE lostFor
  BY DEF UpdateHealth, Since
<1>3. hac1LostFor' = Never
  BY DEF UpdateHealth, Since, Hac1Bad
<1>4. issues' \subseteq {"connection_lost"}
  BY DEF UpdateHealth, Raised, Hac1Bad, Issues
<1>5. "connection_lost" \in issues' <=> lostFor' > IssueDelay \/ "connection_lost" \in issues
  BY DEF UpdateHealth, Raised, Issues
<1>6. "connection_lost" \in issues => lostFor > IssueDelay
  BY DEF LinkInv, IssuesFollowTimers
<1>7. lostFor > IssueDelay => lostFor # Never
  BY <1>1, LinkAssumption DEF Never, Ages
<1> QED
  BY <1>2, <1>3, <1>4, <1>5, <1>6, <1>7

\* After an update with a connection only the HAC1 can have an issue.
LEMMA UpdateWhileUp ==
    ASSUME LinkInv, UpdateHealth, connected' = TRUE
    PROVE  /\ lostFor' = Never
           /\ hac1LostFor' = IF hac1' # "off" THEN Never
                             ELSE IF hac1LostFor = Never THEN 0 ELSE hac1LostFor
           /\ issues' \subseteq {"hac1_disconnected"}
           /\ "hac1_disconnected" \in issues' => hac1' = "off" /\ hac1LostFor' > IssueDelay
<1>1. lostFor \in Ages /\ hac1LostFor \in Ages
  BY DEF LinkInv, TypeOK
<1>2. lostFor' = Never
  BY DEF UpdateHealth, Since
<1>3. hac1LostFor' = IF hac1' # "off" THEN Never
                     ELSE IF hac1LostFor = Never THEN 0 ELSE hac1LostFor
  BY DEF UpdateHealth, Since, Hac1Bad
<1>4. issues' \subseteq {"hac1_disconnected"}
  BY DEF UpdateHealth, Raised, Issues
<1>5. "hac1_disconnected" \in issues' =>
          hac1' = "off" /\ (hac1LostFor' > IssueDelay \/ "hac1_disconnected" \in issues)
  BY DEF UpdateHealth, Raised, Hac1Bad, Issues
<1>6. "hac1_disconnected" \in issues => hac1LostFor > IssueDelay
  BY DEF LinkInv, IssuesFollowTimers
<1>7. hac1LostFor > IssueDelay => hac1LostFor # Never
  BY <1>1, LinkAssumption DEF Never, Ages
<1> QED
  BY <1>2, <1>3, <1>4, <1>5, <1>6, <1>7

-----------------------------------------------------------------------------
\* Losing the connection, or failing to get one, keeps the invariant.
LEMMA LostKeepsInv ==
    ASSUME LinkInv, Lost, loop \in {"opening", "reading"},
           writer' \in {"none", "open", "reset"}
    PROVE  LinkInv'
<1>1. /\ connected' = FALSE /\ loop' = "sleeping" /\ timer' = 0
      /\ gateway' = gateway /\ delay' = delay /\ hac1' = hac1
      /\ UpdateHealth /\ Observe
  BY DEF Lost
<1>2. /\ lostFor' = IF lostFor = Never THEN 0 ELSE lostFor
      /\ hac1LostFor' = Never
      /\ issues' \subseteq {"connection_lost"}
      /\ "connection_lost" \in issues' <=> lostFor' > IssueDelay
  BY <1>1, UpdateWhileDown
<1>3. downFor' = (IF connected THEN 0 ELSE downFor) /\ offFor' = Never
  BY <1>1 DEF Observe
<1>4. /\ gateway \in BOOLEAN /\ delay \in 1..MaxDelay /\ timer \in 0..Limit
      /\ hac1 \in {"unknown", "on", "off"}
      /\ lostFor \in Ages /\ downFor \in Ages /\ connected \in BOOLEAN
  BY DEF LinkInv, TypeOK
<1>5. ~connected => loop = "opening"
  BY DEF LinkInv, TimersAreTrue
<1>6. loop = "opening" => timer <= ConnectTime
  BY <1>4, LinkAssumption DEF Limit
<1>7. lostFor' \in Ages /\ downFor' \in Ages /\ Never \in Ages
  BY <1>2, <1>3, <1>4, LinkAssumption DEF Ages, Cap, ReportTime, Never
<1>8. TypeOK'
  <2>1. Limit' = delay
    BY <1>1 DEF Limit
  <2>2. timer' \in 0..Limit'
    BY <1>1, <1>4, <2>1, LinkAssumption
  <2> QED
    BY <1>1, <1>2, <1>3, <1>4, <1>7, <2>2 DEF TypeOK, Issues
<1>9. TimersAreTrue'
  <2>1. downFor' # Never
    BY <1>3, <1>4 DEF LinkInv, TimersAreTrue, Never
  <2>2. lostFor' # Never
    BY <1>2 DEF Never
  <2>3. lostFor' <= downFor' /\ downFor' <= lostFor' + ConnectTime
    <3>1. CASE connected
      BY <3>1, <1>2, <1>3, LinkAssumption DEF LinkInv, TimersAreTrue, Never
    <3>2. CASE ~connected /\ lostFor = Never
      <4>1. downFor = timer /\ timer <= ConnectTime /\ timer >= 0
        BY <3>2, <1>4, <1>5, <1>6, LinkAssumption DEF LinkInv, TimersAreTrue, Limit
      <4> QED
        BY <3>2, <4>1, <1>2, <1>3, <1>4, LinkAssumption DEF Ages, Never
    <3>3. CASE ~connected /\ lostFor # Never
      BY <3>3, <1>2, <1>3 DEF LinkInv, TimersAreTrue
    <3> QED
      BY <3>1, <3>2, <3>3
  <2> QED
    BY <1>1, <1>2, <1>3, <2>1, <2>2, <2>3 DEF TimersAreTrue
<1>10. IssuesFollowTimers' /\ UpdatesAreRecent'
  <2>1. lostFor' > IssueDelay \/ lostFor' <= IssueDelay
    BY <1>7, LinkAssumption DEF Ages, Never
  <2> QED
    BY <1>1, <1>2, <1>7, <2>1, LinkAssumption DEF IssuesFollowTimers, UpdatesAreRecent, Ages, Never
<1> QED
  BY <1>8, <1>9, <1>10 DEF LinkInv

-----------------------------------------------------------------------------
\* The other steps.

\* Getting a connection keeps the invariant: an old "off" counts anew.
LEMMA OpenedKeepsInv ==
    ASSUME LinkInv, Opened
    PROVE  LinkInv'
<1>1. /\ connected' = TRUE /\ loop' = "reading" /\ writer' = "open"
      /\ timer' = 0 /\ delay' = 1 /\ gateway' = gateway /\ hac1' = hac1
      /\ UpdateHealth /\ Observe
  BY DEF Opened
<1>2. /\ lostFor' = Never
      /\ hac1LostFor' = IF hac1' # "off" THEN Never
                        ELSE IF hac1LostFor = Never THEN 0 ELSE hac1LostFor
      /\ issues' \subseteq {"hac1_disconnected"}
      /\ "hac1_disconnected" \in issues' => hac1' = "off" /\ hac1LostFor' > IssueDelay
  BY <1>1, UpdateWhileUp
<1>3. connected = FALSE /\ hac1LostFor = Never
  BY DEF LinkInv, TimersAreTrue, TypeOK, Opened
<1>4. downFor' = Never /\ offFor' = IF hac1' = "off" THEN 0 ELSE Never
  BY <1>1, <1>3 DEF Observe
<1>5. /\ gateway \in BOOLEAN /\ hac1 \in {"unknown", "on", "off"}
      /\ Never \in Ages /\ 0 \in Ages
  BY LinkAssumption DEF LinkInv, TypeOK, Ages, Cap, ReportTime
<1>6. TypeOK'
  <2>1. timer' \in 0..Limit'
    BY <1>1, LinkAssumption DEF Limit
  <2>2. delay' \in 1..MaxDelay
    BY <1>1, LinkAssumption
  <2> QED
    BY <1>1, <1>2, <1>3, <1>4, <1>5, <2>1, <2>2 DEF TypeOK, Issues
<1>7. TimersAreTrue'
  BY <1>1, <1>2, <1>3, <1>4 DEF TimersAreTrue, Never
<1>8. IssuesFollowTimers' /\ UpdatesAreRecent'
  BY <1>1, <1>2 DEF IssuesFollowTimers, UpdatesAreRecent
<1> QED
  BY <1>6, <1>7, <1>8 DEF LinkInv

\* So does a frame, whatever it says of the HAC1.
LEMMA HearFrameKeepsInv ==
    ASSUME LinkInv, HearFrame
    PROVE  LinkInv'
<1>1. connected = TRUE /\ loop = "reading"
  BY DEF LinkInv, TimersAreTrue, TypeOK, HearFrame
<1>2. /\ connected' = TRUE /\ loop' = "reading" /\ writer' = writer
      /\ timer' = 0 /\ delay' = delay /\ gateway' = gateway
      /\ hac1' \in {"unknown", "on", "off"}
      /\ UpdateHealth /\ Observe
  BY <1>1 DEF HearFrame, LinkInv, TypeOK
<1>3. /\ lostFor' = Never
      /\ hac1LostFor' = IF hac1' # "off" THEN Never
                        ELSE IF hac1LostFor = Never THEN 0 ELSE hac1LostFor
      /\ issues' \subseteq {"hac1_disconnected"}
      /\ "hac1_disconnected" \in issues' => hac1' = "off" /\ hac1LostFor' > IssueDelay
  BY <1>2, UpdateWhileUp
<1>4. offFor = hac1LostFor /\ (offFor # Never <=> hac1 = "off")
  BY <1>1 DEF LinkInv, TimersAreTrue
<1>5. downFor' = Never /\ offFor' = hac1LostFor'
  BY <1>1, <1>2, <1>3, <1>4 DEF Observe
<1>6. /\ gateway \in BOOLEAN /\ writer \in {"none", "open", "reset"}
      /\ delay \in 1..MaxDelay /\ hac1LostFor \in Ages
      /\ Never \in Ages /\ 0 \in Ages
  BY LinkAssumption DEF LinkInv, TypeOK, Ages, Cap, ReportTime
<1>7. TypeOK'
  <2>1. timer' \in 0..Limit'
    BY <1>2, LinkAssumption DEF Limit
  <2>2. hac1LostFor' \in Ages
    BY <1>3, <1>6
  <2> QED
    BY <1>2, <1>3, <1>5, <1>6, <2>1, <2>2 DEF TypeOK, Issues
<1>8. TimersAreTrue'
  BY <1>2, <1>3, <1>5 DEF TimersAreTrue, Never
<1>9. IssuesFollowTimers' /\ UpdatesAreRecent'
  BY <1>2, <1>3 DEF IssuesFollowTimers, UpdatesAreRecent
<1> QED
  BY <1>7, <1>8, <1>9 DEF LinkInv

\* The pause is added to what has passed since the last update.
LEMMA WakeKeepsInv ==
    ASSUME LinkInv, Wake
    PROVE  LinkInv'
<1>1. /\ loop = "sleeping" /\ timer = delay /\ timer' = 0 /\ delay' = NextDelay
      /\ loop' \in {"opening", "failed"} /\ writer' = "none"
      /\ UNCHANGED <<gateway, connected, hac1, lostFor, hac1LostFor, issues, downFor, offFor>>
  BY DEF Wake, AfterClose, healthVars
<1>2. delay \in 1..MaxDelay /\ connected = FALSE /\ lostFor # Never /\ lostFor \in Ages
  BY <1>1 DEF LinkInv, TypeOK, TimersAreTrue
<1>3. TypeOK'
  <2>1. NextDelay \in 1..MaxDelay
    BY <1>2, LinkAssumption DEF NextDelay
  <2>2. Limit' = IF loop' = "opening" THEN ConnectTime ELSE Cap
    BY <1>1 DEF Limit, Cap, ReportTime
  <2>3. timer' \in 0..Limit'
    BY <1>1, <2>2, LinkAssumption DEF Cap, ReportTime
  <2> QED
    BY <1>1, <2>1, <2>3 DEF LinkInv, TypeOK
<1>4. TimersAreTrue' /\ IssuesFollowTimers'
  BY <1>1, <1>2 DEF LinkInv, TimersAreTrue, IssuesFollowTimers
<1>5. UpdatesAreRecent'
  BY <1>1, <1>2, LinkAssumption DEF LinkInv, UpdatesAreRecent, Ages, Never
<1> QED
  BY <1>3, <1>4, <1>5 DEF LinkInv

\* Every age grows with the clock.
LEMMA TickKeepsInv ==
    ASSUME LinkInv, Tick
    PROVE  LinkInv'
<1>1. /\ timer < Limit /\ timer' = timer + 1
      /\ lostFor' = Older(lostFor) /\ hac1LostFor' = Older(hac1LostFor)
      /\ downFor' = Older(downFor) /\ offFor' = Older(offFor)
      /\ UNCHANGED <<gateway, loop, writer, delay, connected, hac1, issues>>
  BY DEF Tick
<1>2. /\ lostFor \in Ages /\ hac1LostFor \in Ages /\ downFor \in Ages /\ offFor \in Ages
      /\ delay \in 1..MaxDelay /\ timer \in 0..Limit
  BY DEF LinkInv, TypeOK
<1>3. Cap \in Nat /\ Cap = IssueDelay + MaxDelay + 2 * ConnectTime + 1
  BY LinkAssumption DEF Cap, ReportTime
<1>4. Limit \in Nat /\ Limit' = Limit
  BY <1>1, <1>2, <1>3, LinkAssumption DEF Limit, Cap, ReportTime
<1>5. \A age \in Ages :
         /\ Older(age) \in Ages
         /\ Older(age) = Never <=> age = Never
         /\ Older(age) >= age /\ Older(age) <= age + 1
         /\ age # Never /\ age < Cap => Older(age) = age + 1
  BY <1>3 DEF Older, Ages, Never
<1>6. TypeOK'
  <2>1. timer' \in 0..Limit'
    BY <1>1, <1>2, <1>4
  <2> QED
    BY <1>1, <1>2, <1>5, <2>1 DEF LinkInv, TypeOK
<1>7. TimersAreTrue'
  <2>1. lostFor' <= downFor'
    BY <1>1, <1>2, <1>3 DEF LinkInv, TimersAreTrue, Older, Ages, Never
  <2>2. lostFor' # Never => downFor' <= lostFor' + ConnectTime
    BY <1>1, <1>2, <1>3, LinkAssumption DEF LinkInv, TimersAreTrue, Older, Ages, Never
  <2>3. lostFor' = Never /\ ~connected' => loop' = "opening" /\ downFor' = timer'
    <3>1. SUFFICES ASSUME lostFor = Never, ~connected
                   PROVE  downFor' = timer'
      BY <1>1, <1>2, <1>5 DEF LinkInv, TimersAreTrue
    <3>2. loop = "opening" /\ downFor = timer
      BY <3>1 DEF LinkInv, TimersAreTrue
    <3>3. timer < Cap
      BY <1>1, <1>2, <1>3, <3>2, LinkAssumption DEF Limit
    <3> QED
      BY <1>1, <1>2, <1>4, <1>5, <3>2, <3>3 DEF Never
  <2> QED
    BY <1>1, <1>2, <1>5, <2>1, <2>2, <2>3 DEF LinkInv, TimersAreTrue
<1>8. IssuesFollowTimers'
  BY <1>1, <1>2, <1>5, LinkAssumption DEF LinkInv, IssuesFollowTimers, Ages, Never
<1>9. UpdatesAreRecent'
  BY <1>1, <1>2, <1>4, <1>5, LinkAssumption DEF LinkInv, UpdatesAreRecent, Ages, Never
<1> QED
  BY <1>6, <1>7, <1>8, <1>9 DEF LinkInv

-----------------------------------------------------------------------------
\* LinkInv holds in every reachable state.
THEOREM LinkInvariant == Safety => []LinkInv
<1>1. Init => LinkInv
  <2>1. SUFFICES ASSUME Init PROVE LinkInv
    OBVIOUS
  <2>2. TypeOK
    <3>1. Limit = ConnectTime
      BY <2>1 DEF Init, Limit
    <3>2. Never \in Ages /\ 0 \in Ages /\ 1 \in 1..MaxDelay /\ 0 \in 0..ConnectTime
      BY LinkAssumption DEF Ages, Cap, ReportTime
    <3> QED
      BY <2>1, <3>1, <3>2 DEF Init, TypeOK
  <2>3. TimersAreTrue /\ IssuesFollowTimers /\ UpdatesAreRecent
    BY <2>1, LinkAssumption DEF Init, TimersAreTrue, IssuesFollowTimers, UpdatesAreRecent, Never
  <2> QED
    BY <2>2, <2>3 DEF LinkInv
<1>2. LinkInv /\ [Next]_vars => LinkInv'
  <2> SUFFICES ASSUME LinkInv, [Next]_vars PROVE LinkInv'
    OBVIOUS
  <2>1. CASE Opened
    BY <2>1, OpenedKeepsInv
  <2>2. CASE OpenFails
    BY <2>2, LostKeepsInv DEF OpenFails, LinkInv, TypeOK
  <2>3. CASE HearFrame
    BY <2>3, HearFrameKeepsInv
  <2>4. CASE HearNoise
    <3>1. TypeOK'
      BY <2>4, LinkAssumption DEF HearNoise, healthVars, LinkInv, TypeOK, Limit
    <3>2. TimersAreTrue' /\ IssuesFollowTimers' /\ UpdatesAreRecent'
      BY <2>4 DEF HearNoise, healthVars, LinkInv, TypeOK, TimersAreTrue, IssuesFollowTimers,
                  UpdatesAreRecent
    <3> QED
      BY <3>1, <3>2 DEF LinkInv
  <2>5. CASE Silent
    BY <2>5, LostKeepsInv DEF Silent, LinkInv, TypeOK
  <2>6. CASE StreamEnds
    BY <2>6, LostKeepsInv DEF StreamEnds, LinkInv, TypeOK
  <2>7. CASE ResetInRead
    BY <2>7, LostKeepsInv DEF ResetInRead
  <2>8. CASE ResetInPause
    BY <2>8 DEF ResetInPause, healthVars, LinkInv, TypeOK, Limit, TimersAreTrue,
                IssuesFollowTimers, UpdatesAreRecent
  <2>9. CASE Wake
    BY <2>9, WakeKeepsInv
  <2>10. CASE GatewayChanges
    BY <2>10 DEF GatewayChanges, healthVars, LinkInv, TypeOK, Limit, TimersAreTrue,
                 IssuesFollowTimers, UpdatesAreRecent
  <2>11. CASE Tick
    BY <2>11, TickKeepsInv
  <2>12. CASE UNCHANGED vars
    BY <2>12 DEF vars, healthVars, LinkInv, TypeOK, Limit, TimersAreTrue,
                 IssuesFollowTimers, UpdatesAreRecent
  <2> QED
    BY <2>1, <2>2, <2>3, <2>4, <2>5, <2>6, <2>7, <2>8, <2>9, <2>10, <2>11, <2>12 DEF Next
<1> QED
  BY <1>1, <1>2, PTL DEF Safety

\* Every variable keeps its type and no timer runs past its limit: pauses stay
\* within MaxDelay.
THEOREM TypeCorrect == Safety => []TypeOK
<1>1. LinkInv => TypeOK
  BY DEF LinkInv
<1> QED
  BY <1>1, LinkInvariant, PTL

\* No issue is a false alarm, and none outlives what it reports.
THEOREM NoFalseIssue == Safety => []IssuesAreReal
<1>1. LinkInv => IssuesAreReal
  BY LinkAssumption DEF LinkInv, IssuesFollowTimers, TimersAreTrue, TypeOK, Ages, Never, IssuesAreReal
<1> QED
  BY <1>1, LinkInvariant, PTL

\* As long as run() is alive, an outage is reported within ReportTime: the delay,
\* the longest pause and the time of two attempts.
THEOREM ReportsOutages == Safety => []OutageIsReported
<1>1. LinkInv => OutageIsReported
  <2>1. SUFFICES ASSUME LinkInv, loop # "failed", downFor > ReportTime,
                        "connection_lost" \notin issues
                 PROVE  FALSE
    BY DEF OutageIsReported
  <2>2. /\ delay \in 1..MaxDelay /\ timer \in 0..Limit /\ lostFor \in Ages
        /\ downFor \in Ages /\ ReportTime \in Nat
        /\ loop \in {"opening", "reading", "sleeping"}
    BY <2>1, LinkAssumption DEF LinkInv, TypeOK, ReportTime
  <2>3. ~connected /\ loop \in {"opening", "sleeping"}
    BY <2>1, <2>2 DEF LinkInv, TimersAreTrue, Never
  <2>4. timer <= (IF loop = "opening" THEN ConnectTime ELSE MaxDelay)
    BY <2>2, <2>3, LinkAssumption DEF Limit
  <2>5. CASE lostFor = Never
    BY <2>1, <2>2, <2>3, <2>4, <2>5, LinkAssumption DEF LinkInv, TimersAreTrue, ReportTime
  <2>6. CASE lostFor # Never
    BY <2>1, <2>2, <2>3, <2>4, <2>6, LinkAssumption
       DEF LinkInv, TimersAreTrue, UpdatesAreRecent, ReportTime, Ages, Never
  <2> QED
    BY <2>5, <2>6
<1> QED
  BY <1>1, LinkInvariant, PTL
=============================================================================
