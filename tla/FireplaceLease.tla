--------------------------- MODULE FireplaceLease ---------------------------
(***************************************************************************)
(* The fireplace signal and its lease on the Raspberry Pi                  *)
(* (smart_coordinator.py, switch.py FireplaceSignalSwitch).                *)
(*                                                                         *)
(* The switch sends the signal when it is turned, and restores and sends   *)
(* it at start-up; the renewal repeats it each minute while it is on, but  *)
(* first sends other values one by one.  Nobody waits for the other, so    *)
(* requests reach the Pi in any order, and one that its sender has given   *)
(* up may still arrive: a stray.  The Pi holds the signal for ValidFor     *)
(* seconds after the last "on".                                            *)
(*                                                                         *)
(* Time counts in seconds; a step due at a time is taken before time goes  *)
(* on.  X_Bug is the definition X with a plausible bug, used by no action. *)
(***************************************************************************)
EXTENDS Integers, FiniteSets

CONSTANTS
    ValidFor,       \* SIGNAL_VALID_FOR (code: 300)
    Period,         \* time between renewals (code: 60)
    Timeout,        \* of one request (code: 10)
    Earlier,        \* other sends of a renewal before the signal's (code: 3)
    Linger,         \* after this time no request reaches the Pi any more
    MaxStrays       \* bound on strays

ASSUME LeaseAssumption ==
    /\ ValidFor \in Nat /\ Period \in Nat /\ Timeout \in Nat \ {0}
    /\ Earlier \in Nat /\ Linger \in Nat /\ MaxStrays \in Nat
    /\ Timeout <= Linger
    /\ (Earlier + 1) * Timeout < Period
    /\ (Earlier + 1) * Timeout + Period < ValidFor

VARIABLES
    lease,          \* the Pi: seconds left of the lease
    strays,         \* requests under way that nobody waits for
    up,             \* does Home Assistant run?
    stored,         \* the switch's state as RestoreEntity keeps it
    signal,         \* fireplace_signal
    call,           \* the request of the switch
    renewal,        \* the request of the renewal
    earlier,        \* sends left before the renewal looks at the signal
    renewalOf,      \* "current", or the signal of an unloaded coordinator
    renewalTimer,   \* seconds since the timer last fired
    wantedFor,      \* history: seconds since the signal in force changed
    missed          \* history: requests for the lease lost in a row

switchVars == <<up, stored, signal>>
renewalVars == <<renewal, earlier, renewalOf, renewalTimer>>
vars == <<lease, strays, switchVars, call, renewalVars, wantedFor, missed>>

\* "other" carries other values than the signal; "none" stands for no request.
Request(body) == [body |-> body, age |-> 0, handled |-> FALSE]
Quiet == Request("none")
OnOff(value) == IF value THEN "on" ELSE "off"

\* The signal in force.
Wanted == up /\ signal

\* As many requests for the lease may be lost in a row before it runs out
\* (code: 3).
Tolerated == (ValidFor - (Earlier + 1) * Timeout - 1) \div Period - 1

\* A signal that is gone is forgotten within LostTime; one that is there is
\* held after GraceTime.
LostTime == Earlier * Timeout + Linger + ValidFor
GraceTime == Linger + (Tolerated + 1) * Period + (Earlier + 1) * Timeout
AgeCap == LostTime + GraceTime

Init ==
    /\ lease = 0 /\ strays = {}
    /\ up = TRUE /\ stored = "off" /\ signal = FALSE
    /\ call = Quiet
    /\ renewal = Quiet /\ earlier = 0 /\ renewalOf = "current" /\ renewalTimer = 0
    /\ wantedFor = AgeCap /\ missed = 0

\* What a step does to the signal in force, for the history.
SetInForce(on) == wantedFor' = IF on = Wanted THEN wantedFor ELSE 0

\* A step that stops waiting for the requests in S, when the signal in force is
\* then on or off: one the Pi has not handled may still arrive, or be lost.
GiveUp(S, on) ==
    LET open == {request \in S : request.body \in {"on", "off"} /\ ~request.handled}
    IN  /\ \E left \in SUBSET open :
              strays' = strays \cup {[body |-> request.body, age |-> request.age] : request \in left}
        /\ Cardinality(strays') <= MaxStrays
        /\ missed' = IF on /\ ~Wanted THEN 0
                     ELSE IF missed <= Tolerated /\ \E request \in open : request.body = "on"
                     THEN missed + 1 ELSE missed

-----------------------------------------------------------------------------
\* The Pi.

Handle(body) ==
    /\ lease' = IF body = "on" THEN ValidFor ELSE IF body = "off" THEN 0 ELSE lease
    /\ missed' = IF body = "on" THEN 0 ELSE missed

PiHandlesCall ==
    /\ call.body # "none" /\ ~call.handled
    /\ Handle(call.body)
    /\ call' = [call EXCEPT !.handled = TRUE]
    /\ UNCHANGED <<strays, switchVars, renewalVars, wantedFor>>

PiHandlesRenewal ==
    /\ renewal.body # "none" /\ ~renewal.handled
    /\ Handle(renewal.body)
    /\ renewal' = [renewal EXCEPT !.handled = TRUE]
    /\ UNCHANGED <<strays, switchVars, call, earlier, renewalOf, renewalTimer, wantedFor>>

PiHandlesStray ==
    \E stray \in strays :
        /\ Handle(stray.body)
        /\ strays' = strays \ {stray}
        /\ UNCHANGED <<switchVars, call, renewalVars, wantedFor>>

-----------------------------------------------------------------------------
\* The switch: async_set_fireplace_signal.

\* The signal is set, then sent.  An earlier call is not waited for, nor is it
\* undone: its request becomes a stray.
TurnTo(value) ==
    /\ up
    /\ signal' = value
    /\ SetInForce(value)
    /\ GiveUp({call}, value)
    /\ call' = Request(OnOff(value))
    /\ UNCHANGED <<lease, up, stored, renewalVars>>

\* An answer, an error or the timeout: the signal stays as it was set, and
\* nothing is sent again before the next renewal.
CallEnds ==
    /\ call.body # "none"
    /\ GiveUp({call}, Wanted)
    /\ call' = Quiet
    /\ UNCHANGED <<lease, switchVars, renewalVars, wantedFor>>

-----------------------------------------------------------------------------
\* The renewal: _async_renew_signals.

\* The signal of the renewal's own coordinator.
OwnSignal_Assumed == TRUE
OwnSignal == IF renewalOf = "current" THEN signal ELSE renewalOf = "on"

\* The other values are sent first; then the signal is looked at.
RenewalSends(left) ==
    LET body == IF left > 0 THEN "other" ELSE IF OwnSignal THEN "on" ELSE "none"
    IN  /\ renewal' = Request(body)
        /\ earlier' = IF left > 0 THEN left - 1 ELSE 0
        /\ renewalOf' = IF body = "none" THEN "current" ELSE renewalOf

\* The timer fires; values that are not available are not sent.
Renew ==
    /\ up /\ renewalTimer = Period
    /\ renewalTimer' = 0
    /\ \E left \in 0..Earlier : RenewalSends(left)
    /\ UNCHANGED <<lease, strays, switchVars, call, wantedFor, missed>>

\* Each send catches its own errors, so that the next one is made in any case.
RenewalGoesOn_OnlyIfHandled == renewal.body = "other" /\ renewal.handled
RenewalGoesOn_Retries == renewal.body = "other" \/ ~renewal.handled
RenewalGoesOn == renewal.body = "other"

RenewalSendEnds ==
    /\ renewal.body # "none"
    /\ GiveUp({renewal}, Wanted)
    /\ IF RenewalGoesOn
       THEN RenewalSends(earlier)
       ELSE renewal' = Quiet /\ earlier' = 0 /\ renewalOf' = "current"
    /\ UNCHANGED <<lease, switchVars, call, renewalTimer, wantedFor>>

-----------------------------------------------------------------------------
\* The life of the coordinator.

\* What Home Assistant shows of the switch, and RestoreEntity keeps: the signal,
\* or that the Pi cannot be reached.
Displays == {OnOff(signal), "unavailable"}

\* A new coordinator: the switch restores a stored "on" and sends it.
SetUp(on) ==
    /\ up' = TRUE /\ signal' = on
    /\ SetInForce(on)
    /\ GiveUp({call}, on)
    /\ call' = IF on THEN Request("on") ELSE Quiet
    /\ renewalTimer' = 0
    /\ UNCHANGED lease

\* The timer is removed, but a renewal under way goes on with the signal its
\* own coordinator had.
Reload ==
    /\ up
    /\ stored' \in Displays
    /\ SetUp(stored' = "on")
    /\ renewalOf' = IF renewal.body # "none" /\ renewalOf = "current" THEN OnOff(signal) ELSE renewalOf
    /\ UNCHANGED <<renewal, earlier>>

\* A stop keeps what is shown, a crash the last dump.
Stop ==
    /\ up /\ up' = FALSE
    /\ stored' \in {stored} \cup Displays
    /\ signal' = FALSE /\ SetInForce(FALSE)
    /\ GiveUp({call, renewal}, FALSE)
    /\ call' = Quiet
    /\ renewal' = Quiet /\ earlier' = 0 /\ renewalOf' = "current" /\ renewalTimer' = 0
    /\ UNCHANGED lease

Start ==
    /\ ~up
    /\ SetUp(stored = "on")
    /\ UNCHANGED <<stored, renewal, earlier, renewalOf>>

Dump ==
    /\ up
    /\ stored' \in Displays
    /\ UNCHANGED <<lease, strays, up, signal, call, renewalVars, wantedFor, missed>>

-----------------------------------------------------------------------------
MayWait(request) == request.body = "none" \/ request.age < Timeout

Older(request) == IF request.body = "none" THEN request ELSE [request EXCEPT !.age = @ + 1]

Tick ==
    /\ MayWait(call) /\ MayWait(renewal)
    /\ up => renewalTimer < Period
    /\ lease' = IF lease > 0 THEN lease - 1 ELSE 0
    /\ strays' = {[stray EXCEPT !.age = @ + 1] : stray \in {s \in strays : s.age < Linger}}
    /\ call' = Older(call) /\ renewal' = Older(renewal)
    /\ renewalTimer' = IF up THEN renewalTimer + 1 ELSE 0
    /\ wantedFor' = IF wantedFor < AgeCap THEN wantedFor + 1 ELSE wantedFor
    /\ UNCHANGED <<switchVars, earlier, renewalOf, missed>>

Next ==
    \/ PiHandlesCall \/ PiHandlesRenewal \/ PiHandlesStray
    \/ \E value \in BOOLEAN : TurnTo(value)
    \/ CallEnds
    \/ Renew \/ RenewalSendEnds
    \/ Reload \/ Stop \/ Start \/ Dump
    \/ Tick

Spec == Init /\ [][Next]_vars

-----------------------------------------------------------------------------
\* Properties.

Requests ==
    [body : {"none", "other", "on", "off"}, age : 0..Timeout, handled : BOOLEAN]

\* Every variable keeps its type.
TypeOK ==
    /\ lease \in 0..ValidFor
    /\ strays \subseteq [body : {"on", "off"}, age : 0..Linger]
    /\ up \in BOOLEAN /\ signal \in BOOLEAN
    /\ stored \in {"on", "off", "unavailable"}
    /\ call \in Requests /\ renewal \in Requests
    /\ earlier \in 0..Earlier
    /\ renewalOf \in {"current", "on", "off"}
    /\ renewalTimer \in 0..Period
    /\ wantedFor \in 0..AgeCap
    /\ missed \in 0..(Tolerated + 1)

\* A signal that was turned off, or whose Home Assistant has stopped, is
\* forgotten by the Pi in bounded time, whatever was under way and whatever was
\* lost (smart_coordinator.py:37-39).
UnwantedLeaseEnds == ~Wanted /\ wantedFor >= LostTime => lease = 0

\* A signal that stays on keeps its lease, across reloads and although up to
\* Tolerated requests for it in a row are lost.
WantedLeaseHolds == Wanted /\ wantedFor > GraceTime /\ missed <= Tolerated => lease > 0

\* A renewal has ended when the next one starts: it never overwrites one.
RenewalsDoNotOverlap == renewalTimer = Period => renewal = Quiet
=============================================================================
