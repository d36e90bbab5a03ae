----------------------------- MODULE LinkClient -----------------------------
(***************************************************************************)
(* The TCP client that listens to the RS485 gateway (client.py             *)
(* PassiveLinkClient.run) and the repair issues the coordinator derives    *)
(* from its state (coordinator.py _update_health_issues).                  *)
(*                                                                         *)
(* The issues are looked at only when the client makes an update, so how   *)
(* soon an outage is reported depends on the client's retries.  Time       *)
(* counts in seconds; a step due at a time is taken before time goes on.   *)
(* Ages grow up to Cap, beyond which nothing distinguishes them.           *)
(*                                                                         *)
(* X_Bug is the definition X with a plausible bug, used by no action.      *)
(***************************************************************************)
EXTENDS Integers

CONSTANTS
    MaxDelay,       \* longest pause between attempts (code: 30)
    Silence,        \* longest time without a chunk of data (code: 15)
    IssueDelay,     \* HEALTH_ISSUE_DELAY (code: 900)
    ConnectTime,    \* the system gives up an attempt after this time
    Resets          \* may the peer reset a connection?

ASSUME LinkAssumption ==
    /\ MaxDelay \in Nat \ {0} /\ Silence \in Nat \ {0}
    /\ IssueDelay \in Nat /\ ConnectTime \in Nat
    /\ Resets \in BOOLEAN

\* An outage is reported at the latest after this time: the first attempt
\* fails, the delay passes, and so do a pause and one more attempt.
ReportTime == IssueDelay + MaxDelay + 2 * ConnectTime
Cap == ReportTime + 1

Never == -1     \* an age of something that is not the case

VARIABLES
    gateway,        \* is the gateway reachable?
    loop,           \* where run() is
    writer,         \* its connection: "none", "open" or "reset"
    delay,          \* the next pause
    timer,          \* seconds of the pause, the attempt or the read so far
    connected,      \* connected
    hac1,           \* the decoder's hac1_connected: "unknown", "on" or "off"
    lostFor,        \* age of _disconnected_since
    hac1LostFor,    \* age of _hac1_lost_since
    issues,         \* repair issues on show
    downFor,        \* history: seconds since the client lost its connection
    offFor          \* history: seconds of "off" heard over one connection

healthVars == <<lostFor, hac1LostFor, issues>>
vars == <<gateway, loop, writer, delay, timer, connected, hac1, healthVars, downFor, offFor>>

Issues == {"connection_lost", "hac1_disconnected"}

Init ==
    /\ gateway \in BOOLEAN
    /\ loop = "opening" /\ writer = "none"
    /\ delay = 1 /\ timer = 0
    /\ connected = FALSE
    /\ hac1 = "unknown"
    /\ lostFor = Never /\ hac1LostFor = Never
    /\ issues = {}
    /\ downFor = 0 /\ offFor = Never

-----------------------------------------------------------------------------
\* The coordinator's part of an update: _update_health_issues.

Since_Restarted(bad, age) == IF bad THEN 0 ELSE Never
Since(bad, age) == IF ~bad THEN Never ELSE IF age = Never THEN 0 ELSE age

\* The issue stays as it is while the delay has not passed.
Raised(bad, age, issue) ==
    bad /\ (age > IssueDelay \/ issue \in issues)

Hac1Bad_AnyLink == hac1' = "off"
Hac1Bad == connected' /\ hac1' = "off"

UpdateHealth ==
    /\ lostFor' = Since(~connected', lostFor)
    /\ hac1LostFor' = Since(Hac1Bad, hac1LostFor)
    /\ issues' = { issue \in Issues :
                     IF issue = "connection_lost"
                     THEN Raised(~connected', lostFor', issue)
                     ELSE Raised(Hac1Bad, hac1LostFor', issue) }

\* The history variables, for a step that changes connected or hac1.
Observe ==
    /\ downFor' = IF connected' THEN Never ELSE IF connected THEN 0 ELSE downFor
    /\ offFor' = IF connected' /\ hac1' = "off"
                 THEN IF connected /\ hac1 = "off" THEN offFor ELSE 0
                 ELSE Never

-----------------------------------------------------------------------------
\* run()

NextDelay == IF 2 * delay > MaxDelay THEN MaxDelay ELSE 2 * delay

Opened ==
    /\ loop = "opening" /\ gateway
    /\ loop' = "reading" /\ writer' = "open"
    /\ connected' = TRUE /\ delay' = 1 /\ timer' = 0
    /\ UNCHANGED <<gateway, hac1>>
    /\ UpdateHealth /\ Observe

\* The except clause: tell the coordinator, then pause.
Lost ==
    /\ connected' = FALSE
    /\ loop' = "sleeping" /\ timer' = 0
    /\ UNCHANGED <<gateway, delay, hac1>>
    /\ UpdateHealth /\ Observe

\* The attempt is refused, or given up by the system after ConnectTime.
OpenFails ==
    /\ loop = "opening" /\ ~gateway
    /\ Lost
    /\ UNCHANGED writer

\* A frame is decoded; it may carry the state of the HAC1.
HearFrame ==
    /\ loop = "reading" /\ gateway
    /\ timer' = 0
    /\ hac1' \in {hac1, "on", "off"}
    /\ UNCHANGED <<gateway, loop, writer, delay, connected>>
    /\ UpdateHealth /\ Observe

\* A chunk without a whole frame: no update, but no silence either.
HearNoise ==
    /\ loop = "reading" /\ gateway
    /\ timer' = 0
    /\ UNCHANGED <<gateway, loop, writer, delay, connected, hac1, healthVars, downFor, offFor>>

\* Silence for too long.  (The update that marks the bus as silent comes with
\* the connection still there and leaves no trace in the issues.)
Silent ==
    /\ loop = "reading" /\ timer = Silence
    /\ Lost
    /\ UNCHANGED writer

\* The gateway closes the stream.
StreamEnds ==
    /\ loop = "reading"
    /\ Lost
    /\ UNCHANGED writer

\* The connection is reset, while run() reads or while it still pauses after a
\* silence: the writer keeps the error.
ResetInRead ==
    /\ Resets
    /\ loop = "reading"
    /\ writer' = "reset"
    /\ Lost

ResetInPause ==
    /\ Resets
    /\ loop = "sleeping" /\ writer = "open"
    /\ writer' = "reset"
    /\ UNCHANGED <<gateway, loop, delay, timer, connected, hac1, healthVars, downFor, offFor>>

\* The pause ends; the finally clause closes the writer and waits for the end
\* of the connection, which raises its error out of run().
AfterClose_OpensOnce == IF writer = "reset" THEN "failed" ELSE "reading"
AfterClose == IF writer = "reset" THEN "failed" ELSE "opening"

Wake ==
    /\ loop = "sleeping" /\ timer = delay
    /\ delay' = NextDelay
    /\ timer' = 0
    /\ loop' = AfterClose /\ writer' = "none"
    /\ UNCHANGED <<gateway, connected, hac1, healthVars, downFor, offFor>>

-----------------------------------------------------------------------------
\* The gateway comes and goes.
GatewayChanges ==
    /\ gateway' = ~gateway
    /\ UNCHANGED <<loop, writer, delay, timer, connected, hac1, healthVars, downFor, offFor>>

Limit ==
    IF loop = "opening" THEN ConnectTime
    ELSE IF loop = "reading" THEN Silence
    ELSE IF loop = "sleeping" THEN delay
    ELSE Cap

Older(age) == IF age = Never \/ age = Cap THEN age ELSE age + 1

Tick ==
    /\ timer < Limit
    /\ timer' = timer + 1
    /\ lostFor' = Older(lostFor) /\ hac1LostFor' = Older(hac1LostFor)
    /\ downFor' = Older(downFor) /\ offFor' = Older(offFor)
    /\ UNCHANGED <<gateway, loop, writer, delay, connected, hac1, issues>>

Next ==
    \/ Opened \/ OpenFails
    \/ HearFrame \/ HearNoise \/ Silent \/ StreamEnds
    \/ ResetInRead \/ ResetInPause
    \/ Wake
    \/ GatewayChanges \/ Tick

\* The event loop runs what is due, an attempt to reach the gateway ends one way or
\* the other, and time goes on.
Fairness ==
    /\ WF_vars(Opened) /\ WF_vars(OpenFails) /\ WF_vars(Silent) /\ WF_vars(Wake)
    /\ WF_vars(Tick)

Safety == Init /\ [][Next]_vars
Spec == Safety /\ Fairness

-----------------------------------------------------------------------------
\* Properties.

Ages == {Never} \cup 0..Cap

\* Every variable keeps its type; no timer runs past its limit.
TypeOK ==
    /\ gateway \in BOOLEAN /\ connected \in BOOLEAN
    /\ loop \in {"opening", "reading", "sleeping", "failed"}
    /\ writer \in {"none", "open", "reset"}
    /\ delay \in 1..MaxDelay
    /\ timer \in 0..Limit
    /\ hac1 \in {"unknown", "on", "off"}
    /\ lostFor \in Ages /\ hac1LostFor \in Ages
    /\ issues \subseteq Issues
    /\ downFor \in Ages /\ offFor \in Ages

\* An issue is never a false alarm: the link, or over one connection the HAC1,
\* has really been away for longer than the delay, and what is back has no
\* issue (README.md:170).
IssuesAreReal ==
    /\ "connection_lost" \in issues => ~connected /\ downFor > IssueDelay
    /\ "hac1_disconnected" \in issues => connected /\ offFor > IssueDelay

\* While run() is alive an outage is reported in bounded time, although the
\* issues are only looked at when an attempt fails.
OutageIsReported ==
    loop # "failed" /\ downFor > ReportTime => "connection_lost" \in issues

\* What README.md:170 promises: every outage is reported.
EveryOutageIsReported == downFor > ReportTime => "connection_lost" \in issues

\* While run() is alive a gateway that stays reachable is connected to again
\* and again, whatever the bus behind it does.
KeepsConnecting == <>[]gateway => []<>(connected \/ loop = "failed")
=============================================================================
