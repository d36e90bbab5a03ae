----------------------------- MODULE SampleFeed -----------------------------
(***************************************************************************)
(* What the coordinator promises about temperature samples, whatever the   *)
(* bus, the thread and the water sensors do: samples are numbered, only    *)
(* the newest one that arrived is ever put on show, so the sample shown    *)
(* never goes back, and an arrived sample does not stay unseen.            *)
(***************************************************************************)
EXTENDS Integers

CONSTANT LastSample     \* bound: the largest sample number

VARIABLES
    latest,     \* number of the newest sample that arrived
    shown       \* number of the sample the entities show

feedVars == <<latest, shown>>

FeedInit == latest = 0 /\ shown = 0

\* A sample arrives; it may go on show at once or wait for the water sensors.
Arrive ==
    /\ latest' \in latest + 1 .. LastSample
    /\ shown' \in {shown, latest'}

\* The newest sample that arrived goes on show; older ones are skipped.
Show ==
    /\ shown < latest
    /\ shown' = latest
    /\ UNCHANGED latest

FeedNext == Arrive \/ Show

FeedSafety == FeedInit /\ [][FeedNext]_feedVars
FeedSpec == FeedSafety /\ WF_feedVars(Show)
=============================================================================
