------------------------ MODULE FireplaceLease_proofs ------------------------
(***************************************************************************)
(* Theorems about FireplaceLease: an unwanted lease ends, a wanted one     *)
(* holds, and renewals do not overlap, for every length of lease, period   *)
(* and timeout allowed by LeaseAssumption, however many calls, losses,     *)
(* reloads and restarts.                                                   *)
(***************************************************************************)
EXTENDS FireplaceLease, TLAPS

Strays == [body : {"on", "off"}, age : 0..Linger]

\* The parts of TypeOK the arguments about time need.
Times ==
    /\ lease \in 0..ValidFor
    /\ strays \subseteq Strays
    /\ up \in BOOLEAN /\ signal \in BOOLEAN
    /\ call \in Requests /\ renewal \in Requests
    /\ earlier \in 0..Earlier
    /\ renewal.body = "other" => earlier < Earlier
    /\ renewalOf \in {"current", "on", "off"}
    /\ renewalTimer \in 0..Period
    /\ wantedFor \in Nat

\* The time a renewal has taken at most when all its sends are made: request r
\* is under way and left more sends come before the signal's.
ElapsedAt(r, left) ==
    IF r.body = "other"
    THEN (Earlier - left - 1) * Timeout + r.age
    ELSE Earlier * Timeout + r.age

Elapsed == ElapsedAt(renewal, earlier)

\* A renewal under way is not older than the timer that started it.
TimerFits ==
    /\ renewal.body = "none" => renewal = Quiet /\ renewalOf = "current"
    /\ renewal.body # "none" => renewalTimer <= Elapsed
    /\ ~up => renewal = Quiet /\ call = Quiet /\ ~signal

\* Whatever may still prolong an unwanted lease was on its way before the signal
\* went off, or belongs to a renewal that looked at it before.
UnwantedEnds ==
    ~Wanted =>
        /\ lease > 0 => wantedFor + lease <= LostTime
        /\ \A stray \in strays : stray.body = "on" => wantedFor <= Earlier * Timeout + stray.age
        /\ call.body # "on"
        /\ renewal.body = "on" => wantedFor <= Elapsed
        /\ renewal.body = "other" /\ OwnSignal => wantedFor <= Elapsed

LeaseInv == Times /\ TimerFits /\ UnwantedEnds

-----------------------------------------------------------------------------
\* Arithmetic of the renewal's sends.

LEMMA SendTimes ==
    /\ Earlier * Timeout \in Nat
    /\ (Earlier + 1) * Timeout = Earlier * Timeout + Timeout
    /\ LostTime = Earlier * Timeout + Linger + ValidFor
    /\ LostTime \in Nat /\ LostTime < AgeCap /\ AgeCap \in Nat
    /\ \A e \in 0..(Earlier - 1) :
          /\ (Earlier - e - 1) * Timeout \in Nat
          /\ (Earlier - e - 1) * Timeout + Timeout <= Earlier * Timeout
          /\ e > 0 => (Earlier - (e - 1) - 1) * Timeout = (Earlier - e - 1) * Timeout + Timeout
<1>1. Earlier * Timeout \in Nat /\ (Earlier + 1) * Timeout = Earlier * Timeout + Timeout
  BY LeaseAssumption
<1>2. GraceTime \in Nat /\ GraceTime > 0
  <2>1. Period > 0 /\ ValidFor - (Earlier + 1) * Timeout - 1 >= Period
    BY <1>1, LeaseAssumption
  <2>2. \A x \in Nat : x >= Period => x \div Period \in Nat /\ x \div Period >= 1
    BY <2>1, LeaseAssumption
  <2>3. Tolerated \in Nat
    BY <1>1, <2>1, <2>2, LeaseAssumption DEF Tolerated
  <2>4. (Tolerated + 1) * Period \in Nat
    BY <2>3, LeaseAssumption
  <2> QED
    BY <1>1, <2>4, LeaseAssumption DEF GraceTime
<1>3. ASSUME NEW e \in 0..(Earlier - 1)
      PROVE  /\ (Earlier - e - 1) * Timeout \in Nat
             /\ (Earlier - e - 1) * Timeout + Timeout <= Earlier * Timeout
             /\ e > 0 => (Earlier - (e - 1) - 1) * Timeout = (Earlier - e - 1) * Timeout + Timeout
  <2>1. Earlier - e - 1 \in Nat /\ e * Timeout \in Nat
    BY LeaseAssumption
  <2>2. (Earlier - e - 1) * Timeout = Earlier * Timeout - e * Timeout - Timeout
    BY LeaseAssumption
  <2>3. (Earlier - (e - 1) - 1) * Timeout = Earlier * Timeout - e * Timeout
    BY LeaseAssumption
  <2>4. (Earlier - e - 1) * Timeout \in Nat
    BY <2>1, LeaseAssumption
  <2> QED
    BY <1>1, <2>1, <2>2, <2>3, <2>4, LeaseAssumption
<1> QED
  BY <1>1, <1>2, <1>3, LeaseAssumption DEF LostTime, AgeCap

\* A lease given to a request that may still be unwanted ends by LostTime.
LEMMA LostTimes ==
    /\ LostTime \in Nat /\ ValidFor <= LostTime
    /\ \A since \in Nat, age \in 0..Linger, left \in 0..ValidFor :
          since <= Earlier * Timeout + age => since + left <= LostTime
<1>1. Earlier * Timeout \in Nat /\ LostTime = Earlier * Timeout + Linger + ValidFor
  BY SendTimes
<1> QED
  BY <1>1, LeaseAssumption

\* A renewal has never taken longer than all its sends may take.
LEMMA ElapsedBounds ==
    ASSUME NEW r \in Requests, NEW left \in 0..Earlier, r.body = "other" => left < Earlier
    PROVE  /\ ElapsedAt(r, left) \in Nat
           /\ ElapsedAt(r, left) <= Earlier * Timeout + r.age
           /\ r.age \in 0..Timeout
<1>1. r.age \in 0..Timeout
  BY DEF Requests
<1>2. CASE r.body = "other"
  <2>1. left \in 0..(Earlier - 1)
    BY <1>2, LeaseAssumption
  <2> QED
    BY <1>1, <1>2, <2>1, SendTimes, LeaseAssumption DEF ElapsedAt
<1>3. CASE r.body # "other"
  BY <1>1, <1>3, SendTimes, LeaseAssumption DEF ElapsedAt
<1> QED
  BY <1>2, <1>3

\* Renewals do not overlap: when the timer fires there is none under way.
LEMMA QuietAtFire ==
    ASSUME LeaseInv, renewalTimer = Period
    PROVE  renewal = Quiet
<1>1. Elapsed <= Earlier * Timeout + Timeout
  BY ElapsedBounds, SendTimes, LeaseAssumption DEF LeaseInv, Times, Elapsed
<1>2. renewal.body # "none" => Period <= Elapsed
  BY DEF LeaseInv, TimerFits
<1>3. Elapsed \in Nat
  BY ElapsedBounds DEF LeaseInv, Times, Elapsed
<1> QED
  BY <1>1, <1>2, <1>3, SendTimes, LeaseAssumption DEF LeaseInv, TimerFits

\* Giving up leaves behind what was under way, and nothing else.
LEMMA StraysFrom ==
    ASSUME NEW S, NEW on, GiveUp(S, on)
    PROVE  \A stray \in strays' :
               \/ stray \in strays
               \/ \E request \in S : /\ request.body \in {"on", "off"}
                                     /\ stray = [body |-> request.body, age |-> request.age]
BY DEF GiveUp

\* A new request is well-typed and has no age.
LEMMA RequestType ==
    ASSUME NEW body \in {"none", "other", "on", "off"}
    PROVE  /\ Request(body) \in Requests
           /\ Request(body).body = body /\ Request(body).age = 0
           /\ (Request(body) = Quiet) <=> (body = "none")
<1>1. /\ Request(body).body = body /\ Request(body).age = 0
      /\ (Request(body) = Quiet) <=> (body = "none")
  BY DEF Request, Quiet
<1>2. Request(body) \in Requests
  <2>1. 0 \in 0..Timeout /\ FALSE \in BOOLEAN
    BY LeaseAssumption
  <2> QED
    BY <2>1, Zenon DEF Request, Requests
<1> QED
  BY <1>1, <1>2

\* The next send of a renewal: it keeps the types, is made with the signal in
\* hand, and counts the time of the one before it.
LEMMA SendsKeep ==
    ASSUME NEW left \in 0..Earlier, RenewalSends(left), renewalOf \in {"current", "on", "off"}
    PROVE  /\ renewal' \in Requests /\ earlier' \in 0..Earlier
           /\ renewal'.body \in {"none", "other", "on"}
           /\ renewal'.body = "other" => earlier' < Earlier
           /\ renewal'.body = "on" => OwnSignal
           /\ renewal'.body = "none" => renewal' = Quiet /\ renewalOf' = "current"
           /\ renewal'.body # "none" => renewalOf' = renewalOf
           /\ renewalOf' \in {"current", "on", "off"}
           /\ Elapsed' = IF left > 0 THEN (Earlier - left) * Timeout ELSE Earlier * Timeout
<1> DEFINE body == IF left > 0 THEN "other" ELSE IF OwnSignal THEN "on" ELSE "none"
<1>1. /\ renewal' = Request(body)
      /\ earlier' = IF left > 0 THEN left - 1 ELSE 0
      /\ renewalOf' = IF body = "none" THEN "current" ELSE renewalOf
  BY DEF RenewalSends
<1>2. /\ renewal' \in Requests /\ renewal'.body = body /\ renewal'.age = 0
      /\ (renewal' = Quiet) <=> (body = "none")
  BY <1>1, RequestType
<1>3. earlier' \in 0..Earlier /\ (left > 0 => earlier' < Earlier)
  BY <1>1, LeaseAssumption
<1>4. Elapsed' = IF left > 0 THEN (Earlier - left) * Timeout ELSE Earlier * Timeout
  <2>1. Elapsed' = IF body = "other" THEN (Earlier - earlier' - 1) * Timeout + 0
                   ELSE Earlier * Timeout + 0
    BY <1>2 DEF Elapsed, ElapsedAt
  <2>2. CASE left > 0
    <3>1. Earlier - earlier' - 1 = Earlier - left
      BY <1>1, <2>2, LeaseAssumption
    <3> QED
      BY <2>1, <2>2, <3>1, LeaseAssumption
  <2>3. CASE left = 0
    BY <2>1, <2>3, SendTimes
  <2> QED
    BY <2>2, <2>3
<1> QED
  BY <1>1, <1>2, <1>3, <1>4

-----------------------------------------------------------------------------
\* One lemma for each kind of step.

\* When the signal has just gone off, everything under way is young enough.
LEMMA JustUnwanted ==
    ASSUME Times', wantedFor' = 0, call'.body # "on"
    PROVE  UnwantedEnds'
<1>1. Elapsed' \in Nat
  BY ElapsedBounds DEF Times, Elapsed
<1>2. \A stray \in strays' : 0 <= Earlier * Timeout + stray.age
  BY SendTimes, LeaseAssumption DEF Times, Strays
<1>3. 0 + lease' <= LostTime
  <2>1. PICK left \in 0..ValidFor : lease' = left
    BY DEF Times
  <2> QED
    BY <2>1, LostTimes, LeaseAssumption
<1> QED
  BY <1>1, <1>2, <1>3 DEF UnwantedEnds

\* What the Pi grants is a lease, and a request for it that counts as old as an
\* unwanted signal ends in time.
LEMMA HandleLease ==
    ASSUME NEW body, Handle(body), lease \in 0..ValidFor
    PROVE  lease' \in 0..ValidFor /\ (body # "on" => lease' <= lease)
BY LeaseAssumption DEF Handle

LEMMA CallHandled ==
    ASSUME LeaseInv, PiHandlesCall
    PROVE  LeaseInv'
<1>1. /\ call' = [call EXCEPT !.handled = TRUE] /\ call.body # "none"
      /\ UNCHANGED <<strays, up, signal, renewal, earlier, renewalOf, renewalTimer, wantedFor>>
  BY DEF PiHandlesCall, switchVars, renewalVars
<1>2. call' \in Requests /\ call'.body = call.body
  BY <1>1 DEF LeaseInv, Times, Requests
<1>3. lease' \in 0..ValidFor /\ (call.body # "on" => lease' <= lease)
  BY HandleLease DEF PiHandlesCall, LeaseInv, Times
<1>4. Times'
  BY <1>1, <1>2, <1>3 DEF LeaseInv, Times
<1>5. TimerFits'
  BY <1>1, <1>2 DEF LeaseInv, TimerFits, Elapsed, Quiet, Request
<1>6. UnwantedEnds'
  <2>1. wantedFor \in Nat /\ lease \in Nat /\ lease' \in Nat /\ LostTime \in Nat
    BY <1>3, SendTimes, LeaseAssumption DEF LeaseInv, Times
  <2> QED
    BY <1>1, <1>2, <1>3, <2>1 DEF LeaseInv, UnwantedEnds, Wanted, Elapsed, OwnSignal
<1> QED
  BY <1>4, <1>5, <1>6 DEF LeaseInv

LEMMA RenewalHandled ==
    ASSUME LeaseInv, PiHandlesRenewal
    PROVE  LeaseInv'
<1>1. /\ renewal' = [renewal EXCEPT !.handled = TRUE] /\ renewal.body # "none"
      /\ UNCHANGED <<strays, up, signal, call, earlier, renewalOf, renewalTimer, wantedFor>>
  BY DEF PiHandlesRenewal, switchVars
<1>2. /\ renewal' \in Requests /\ renewal'.body = renewal.body
      /\ Elapsed' = Elapsed
  BY <1>1 DEF LeaseInv, Times, Requests, Elapsed, ElapsedAt
<1>3. lease' \in 0..ValidFor /\ (renewal.body # "on" => lease' <= lease)
  BY HandleLease DEF PiHandlesRenewal, LeaseInv, Times
<1>4. Times'
  BY <1>1, <1>2, <1>3 DEF LeaseInv, Times
<1>5. TimerFits'
  BY <1>1, <1>2 DEF LeaseInv, TimerFits, Quiet, Request
<1>6. UnwantedEnds'
  <2> PICK left \in 0..ValidFor : lease' = left
    BY <1>3
  <2>1. /\ wantedFor \in Nat /\ lease \in Nat /\ left \in Nat /\ LostTime \in Nat
        /\ Elapsed \in Nat /\ Elapsed <= Earlier * Timeout + Timeout
    BY <1>3, SendTimes, ElapsedBounds, LeaseAssumption DEF LeaseInv, Times, Elapsed
  <2>2. renewal.body = "on" /\ ~Wanted => wantedFor + lease' <= LostTime
    <3>1. renewal.body = "on" /\ ~Wanted => wantedFor <= Elapsed
      BY DEF LeaseInv, UnwantedEnds
    <3>2. Timeout \in 0..Linger /\ Earlier * Timeout \in Nat
      BY SendTimes, LeaseAssumption
    <3>3. wantedFor <= Elapsed => wantedFor <= Earlier * Timeout + Timeout
      BY <2>1, <3>2
    <3> QED
      BY <2>1, <3>1, <3>2, <3>3, LostTimes
  <2>3. renewal.body # "on" /\ ~Wanted /\ lease' > 0 => wantedFor + lease' <= LostTime
    <3>1. ~Wanted /\ lease > 0 => wantedFor + lease <= LostTime
      BY DEF LeaseInv, UnwantedEnds
    <3> QED
      BY <2>1, <3>1, <1>3
  <2> QED
    BY <1>1, <1>2, <2>2, <2>3 DEF LeaseInv, UnwantedEnds, Wanted, OwnSignal
<1> QED
  BY <1>4, <1>5, <1>6 DEF LeaseInv

LEMMA StrayHandled ==
    ASSUME LeaseInv, PiHandlesStray
    PROVE  LeaseInv'
<1>1. PICK stray \in strays : Handle(stray.body) /\ strays' = strays \ {stray}
  BY DEF PiHandlesStray
<1>2. UNCHANGED <<up, signal, call, renewal, earlier, renewalOf, renewalTimer, wantedFor>>
  BY DEF PiHandlesStray, switchVars, renewalVars
<1>3. lease' \in 0..ValidFor /\ (stray.body # "on" => lease' <= lease)
  BY <1>1, HandleLease DEF LeaseInv, Times
<1>4. Times'
  BY <1>1, <1>2, <1>3 DEF LeaseInv, Times
<1>5. TimerFits'
  BY <1>2 DEF LeaseInv, TimerFits, Elapsed
<1>6. UnwantedEnds'
  <2> PICK left \in 0..ValidFor : lease' = left
    BY <1>3
  <2>1. /\ wantedFor \in Nat /\ lease \in Nat /\ left \in Nat /\ LostTime \in Nat
        /\ stray.age \in 0..Linger
    BY <1>3, SendTimes, LeaseAssumption DEF LeaseInv, Times, Strays
  <2>2. ~Wanted /\ lease' > 0 => wantedFor + lease' <= LostTime
    <3>1. ~Wanted /\ lease > 0 => wantedFor + lease <= LostTime
      BY DEF LeaseInv, UnwantedEnds
    <3>2. ~Wanted /\ stray.body = "on" => wantedFor <= Earlier * Timeout + stray.age
      BY DEF LeaseInv, UnwantedEnds
    <3>3. CASE stray.body = "on"
      BY <1>3, <2>1, <3>2, <3>3, LostTimes
    <3>4. CASE stray.body # "on"
      BY <1>3, <2>1, <3>1, <3>4
    <3> QED
      BY <3>3, <3>4
  <2> QED
    BY <1>1, <1>2, <2>2 DEF LeaseInv, UnwantedEnds, Wanted, Elapsed, OwnSignal
<1> QED
  BY <1>4, <1>5, <1>6 DEF LeaseInv

\* Whoever stops waiting, what stays under way is as old as it was.
LEMMA StraysKeep ==
    ASSUME LeaseInv, NEW S \in SUBSET {call, renewal}, NEW on, GiveUp(S, on)
    PROVE  /\ strays' \subseteq Strays
           /\ ~Wanted => \A stray \in strays' :
                 stray.body = "on" => wantedFor <= Earlier * Timeout + stray.age
<1>1. call.age \in 0..Timeout /\ renewal.age \in 0..Timeout /\ wantedFor \in Nat
  BY DEF LeaseInv, Times, Requests
<1>2. ~Wanted => /\ call.body # "on"
                 /\ renewal.body = "on" => wantedFor <= Earlier * Timeout + renewal.age
  BY <1>1, ElapsedBounds, SendTimes DEF LeaseInv, UnwantedEnds, Times, Elapsed
<1>3. \A stray \in strays' :
         \/ stray \in strays
         \/ \E request \in {call, renewal} :
               /\ request.body \in {"on", "off"}
               /\ stray = [body |-> request.body, age |-> request.age]
  BY StraysFrom
<1>4. strays' \subseteq Strays
  BY <1>1, <1>3, LeaseAssumption DEF LeaseInv, Times, Strays
<1>5. ~Wanted => \A stray \in strays' :
          stray.body = "on" => wantedFor <= Earlier * Timeout + stray.age
  BY <1>2, <1>3 DEF LeaseInv, UnwantedEnds
<1> QED
  BY <1>4, <1>5

LEMMA TurnKeepsInv ==
    ASSUME LeaseInv, NEW value \in BOOLEAN, TurnTo(value)
    PROVE  LeaseInv'
<1>1. /\ up /\ up' = up /\ signal' = value /\ call' = Request(OnOff(value))
      /\ wantedFor' = IF value = Wanted THEN wantedFor ELSE 0
      /\ UNCHANGED <<lease, renewal, earlier, renewalOf, renewalTimer>>
      /\ GiveUp({call}, value)
  BY DEF TurnTo, SetInForce, renewalVars
<1>2. call' \in Requests /\ call'.body = OnOff(value) /\ OnOff(value) \in {"on", "off"}
  BY <1>1, RequestType DEF OnOff
<1>3. /\ strays' \subseteq Strays
      /\ ~Wanted => \A stray \in strays' :
            stray.body = "on" => wantedFor <= Earlier * Timeout + stray.age
  BY <1>1, StraysKeep
<1>4. Times'
  BY <1>1, <1>2, <1>3 DEF LeaseInv, Times
<1>5. TimerFits'
  BY <1>1, <1>4 DEF LeaseInv, TimerFits, Elapsed, Times
<1>6. UnwantedEnds'
  <2>1. CASE value
    BY <1>1, <2>1 DEF UnwantedEnds, Wanted
  <2>2. CASE ~value /\ Wanted
    BY <1>1, <1>2, <1>4, <2>2, JustUnwanted DEF OnOff
  <2>3. CASE ~value /\ ~Wanted
    <3>1. wantedFor' = wantedFor /\ call'.body = "off" /\ ~signal
      BY <1>1, <1>2, <2>3 DEF OnOff, Wanted
    <3> QED
      BY <1>1, <1>3, <2>3, <3>1 DEF LeaseInv, UnwantedEnds, Elapsed, OwnSignal
  <2> QED
    BY <2>1, <2>2, <2>3
<1> QED
  BY <1>4, <1>5, <1>6 DEF LeaseInv

LEMMA CallEndKeepsInv ==
    ASSUME LeaseInv, CallEnds
    PROVE  LeaseInv'
<1>1. /\ call' = Quiet /\ GiveUp({call}, Wanted)
      /\ UNCHANGED <<lease, up, signal, renewal, earlier, renewalOf, renewalTimer, wantedFor>>
  BY DEF CallEnds, switchVars, renewalVars
<1>2. call' \in Requests /\ call'.body = "none"
  BY <1>1, RequestType DEF Quiet
<1>3. /\ strays' \subseteq Strays
      /\ ~Wanted => \A stray \in strays' :
            stray.body = "on" => wantedFor <= Earlier * Timeout + stray.age
  BY <1>1, StraysKeep
<1>4. Times'
  BY <1>1, <1>2, <1>3 DEF LeaseInv, Times
<1>5. TimerFits' /\ UnwantedEnds'
  BY <1>1, <1>2, <1>3 DEF LeaseInv, TimerFits, UnwantedEnds, Elapsed, OwnSignal, Wanted
<1> QED
  BY <1>4, <1>5 DEF LeaseInv

LEMMA RenewKeepsInv ==
    ASSUME LeaseInv, Renew
    PROVE  LeaseInv'
<1>1. /\ up /\ renewalTimer = Period /\ renewalTimer' = 0
      /\ UNCHANGED <<lease, strays, up, signal, call, wantedFor>>
  BY DEF Renew, switchVars
<1>2. PICK left \in 0..Earlier : RenewalSends(left)
  BY DEF Renew
<1>3. renewal = Quiet /\ renewal.body = "none" /\ renewalOf = "current"
  BY <1>1, QuietAtFire, RequestType DEF LeaseInv, TimerFits, Quiet
<1>4. /\ renewal' \in Requests /\ earlier' \in 0..Earlier
      /\ renewal'.body \in {"none", "other", "on"}
      /\ renewal'.body = "other" => earlier' < Earlier
      /\ renewal'.body = "on" => OwnSignal
      /\ renewal'.body = "none" => renewal' = Quiet /\ renewalOf' = "current"
      /\ renewal'.body # "none" => renewalOf' = "current"
  BY <1>2, <1>3, SendsKeep
<1>5. Times'
  BY <1>1, <1>4, LeaseAssumption DEF LeaseInv, Times
<1>6. Elapsed' \in Nat
  BY <1>5, ElapsedBounds DEF Times, Elapsed
<1>7. TimerFits'
  BY <1>1, <1>4, <1>6 DEF LeaseInv, TimerFits
<1>8. UnwantedEnds'
  BY <1>1, <1>3, <1>4 DEF LeaseInv, UnwantedEnds, Wanted, OwnSignal
<1> QED
  BY <1>5, <1>7, <1>8 DEF LeaseInv

\* The next send of a renewal is not earlier than the one it follows.
LEMMA NextSendIsLater ==
    ASSUME LeaseInv, RenewalSendEnds, renewal.body = "other"
    PROVE  \E e \in Nat, later \in Nat : e = Elapsed /\ later = Elapsed' /\ e <= later
<1>1. RenewalSends(earlier) /\ earlier \in 0..(Earlier - 1) /\ renewal.age \in 0..Timeout
  BY LeaseAssumption DEF RenewalSendEnds, RenewalGoesOn, LeaseInv, Times, Requests
<1>2. Elapsed' = IF earlier > 0 THEN (Earlier - earlier) * Timeout ELSE Earlier * Timeout
  BY <1>1, SendsKeep DEF LeaseInv, Times
<1>3. (Earlier - earlier - 1) * Timeout + Timeout = (Earlier - earlier) * Timeout
  BY <1>1, LeaseAssumption
<1>4. (Earlier - earlier - 1) * Timeout \in Nat /\ Elapsed = (Earlier - earlier - 1) * Timeout + renewal.age
  BY <1>1, SendTimes DEF Elapsed, ElapsedAt
<1>5. (Earlier - earlier) * Timeout <= Earlier * Timeout /\ (Earlier - earlier) * Timeout \in Nat
  BY <1>1, <1>3, <1>4, SendTimes, LeaseAssumption
<1> DEFINE later == IF earlier > 0 THEN (Earlier - earlier) * Timeout ELSE Earlier * Timeout
<1>6. later \in Nat /\ later >= (Earlier - earlier) * Timeout
  BY <1>5, SendTimes
<1>7. Elapsed \in Nat /\ Elapsed <= later
  BY <1>1, <1>3, <1>4, <1>6, LeaseAssumption
<1> QED
  BY <1>2, <1>6, <1>7

LEMMA RenewalEndKeepsInv ==
    ASSUME LeaseInv, RenewalSendEnds
    PROVE  LeaseInv'
<1>1. /\ renewal.body # "none" /\ GiveUp({renewal}, Wanted)
      /\ UNCHANGED <<lease, up, signal, call, renewalTimer, wantedFor>>
  BY DEF RenewalSendEnds, switchVars
<1>2. /\ strays' \subseteq Strays
      /\ ~Wanted => \A stray \in strays' :
            stray.body = "on" => wantedFor <= Earlier * Timeout + stray.age
  BY <1>1, StraysKeep
<1>3. CASE renewal.body # "other"
  <2>1. renewal' = Quiet /\ earlier' = 0 /\ renewalOf' = "current"
    BY <1>3 DEF RenewalSendEnds, RenewalGoesOn
  <2>2. renewal' \in Requests /\ renewal'.body = "none"
    BY <2>1, RequestType DEF Quiet
  <2>3. Times'
    BY <1>1, <1>2, <2>1, <2>2, LeaseAssumption DEF LeaseInv, Times
  <2>4. TimerFits' /\ UnwantedEnds'
    BY <1>1, <1>2, <2>1, <2>2 DEF LeaseInv, TimerFits, UnwantedEnds, Wanted
  <2> QED
    BY <2>3, <2>4 DEF LeaseInv
<1>4. CASE renewal.body = "other"
  <2>1. RenewalSends(earlier) /\ earlier \in 0..(Earlier - 1) /\ renewal.age \in 0..Timeout
    BY <1>4, LeaseAssumption DEF RenewalSendEnds, RenewalGoesOn, LeaseInv, Times, Requests
  <2>2. /\ renewal' \in Requests /\ earlier' \in 0..Earlier
        /\ renewal'.body \in {"none", "other", "on"}
        /\ renewal'.body = "other" => earlier' < Earlier
        /\ renewal'.body = "on" => OwnSignal
        /\ renewal'.body = "none" => renewal' = Quiet /\ renewalOf' = "current"
        /\ renewal'.body # "none" => renewalOf' = renewalOf
        /\ renewalOf' \in {"current", "on", "off"}
        /\ Elapsed' = IF earlier > 0 THEN (Earlier - earlier) * Timeout ELSE Earlier * Timeout
    BY <2>1, SendsKeep DEF LeaseInv, Times
  <2>3. Times'
    BY <1>1, <1>2, <2>2 DEF LeaseInv, Times
  <2>4. PICK e \in Nat, later \in Nat :
            e = Elapsed /\ later = Elapsed' /\ e <= later
    BY <1>4, NextSendIsLater
  <2>5. TimerFits'
    <3>1. renewalTimer <= e /\ renewalTimer \in Nat
      BY <1>1, <2>4, LeaseAssumption DEF LeaseInv, TimerFits, Times
    <3>2. renewalTimer <= later
      BY <2>4, <3>1
    <3> QED
      BY <1>1, <2>2, <2>4, <3>2 DEF LeaseInv, TimerFits, Quiet, Request
  <2>6. UnwantedEnds'
    <3>1. ~Wanted /\ OwnSignal => wantedFor <= e
      BY <1>4, <2>4 DEF LeaseInv, UnwantedEnds
    <3>2. ~Wanted /\ OwnSignal => wantedFor <= later
      BY <2>4, <3>1 DEF LeaseInv, Times
    <3>3. renewal'.body = "other" /\ OwnSignal' => OwnSignal
      BY <1>1, <2>2 DEF OwnSignal
    <3> QED
      BY <1>1, <1>2, <2>2, <2>4, <3>2, <3>3 DEF LeaseInv, UnwantedEnds, Wanted
  <2> QED
    BY <2>3, <2>5, <2>6 DEF LeaseInv
<1> QED
  BY <1>3, <1>4

LEMMA ReloadKeepsInv ==
    ASSUME LeaseInv, Reload
    PROVE  LeaseInv'
<1> DEFINE on == stored' = "on"
<1>1. /\ up /\ up' = TRUE /\ signal' = on /\ GiveUp({call}, on)
      /\ wantedFor' = IF on = Wanted THEN wantedFor ELSE 0
      /\ call' = IF on THEN Request("on") ELSE Quiet
      /\ renewalTimer' = 0
      /\ renewalOf' = IF renewal.body # "none" /\ renewalOf = "current" THEN OnOff(signal) ELSE renewalOf
      /\ UNCHANGED <<lease, renewal, earlier>>
  BY DEF Reload, SetUp, SetInForce
<1>2. on => signal
  BY DEF Reload, Displays, OnOff
<1>3. call' \in Requests /\ (~on => call'.body = "none")
  BY <1>1, RequestType DEF Quiet
<1>4. /\ strays' \subseteq Strays
      /\ ~Wanted => \A stray \in strays' :
            stray.body = "on" => wantedFor <= Earlier * Timeout + stray.age
  BY <1>1, StraysKeep
<1>5. Times'
  BY <1>1, <1>3, <1>4, LeaseAssumption DEF LeaseInv, Times, OnOff
<1>6. Elapsed' \in Nat
  BY <1>5, ElapsedBounds DEF Times, Elapsed
<1>7. TimerFits'
  BY <1>1, <1>6 DEF LeaseInv, TimerFits
<1>8. UnwantedEnds'
  <2>1. CASE on
    BY <1>1, <2>1 DEF UnwantedEnds, Wanted
  <2>2. CASE ~on /\ Wanted
    <3>1. wantedFor' = 0 /\ call'.body # "on"
      BY <1>1, <1>3, <2>2
    <3> QED
      BY <1>5, <3>1, JustUnwanted
  <2>3. CASE ~on /\ ~Wanted
    <3>1. wantedFor' = wantedFor /\ ~signal /\ call'.body = "none"
      BY <1>1, <1>3, <2>3 DEF Wanted
    <3>2. renewal.body = "other" /\ OwnSignal' => OwnSignal
      BY <1>1, <2>3, <3>1 DEF OwnSignal, OnOff
    <3> QED
      BY <1>1, <1>4, <2>3, <3>1, <3>2 DEF LeaseInv, UnwantedEnds, Elapsed
  <2> QED
    BY <2>1, <2>2, <2>3
<1> QED
  BY <1>5, <1>7, <1>8 DEF LeaseInv

LEMMA StopKeepsInv ==
    ASSUME LeaseInv, Stop
    PROVE  LeaseInv'
<1>1. /\ up /\ up' = FALSE /\ signal' = FALSE /\ GiveUp({call, renewal}, FALSE)
      /\ wantedFor' = IF FALSE = Wanted THEN wantedFor ELSE 0
      /\ call' = Quiet /\ renewal' = Quiet /\ earlier' = 0
      /\ renewalOf' = "current" /\ renewalTimer' = 0
      /\ lease' = lease
  BY DEF Stop, SetInForce
<1>2. Quiet \in Requests /\ Quiet.body = "none"
  BY RequestType DEF Quiet
<1>3. /\ strays' \subseteq Strays
      /\ ~Wanted => \A stray \in strays' :
            stray.body = "on" => wantedFor <= Earlier * Timeout + stray.age
  BY <1>1, StraysKeep
<1>4. Times'
  <2>1. wantedFor' \in Nat
    BY <1>1 DEF LeaseInv, Times
  <2>2. earlier' \in 0..Earlier /\ renewalTimer' \in 0..Period
    BY <1>1, LeaseAssumption
  <2> QED
    BY <1>1, <1>2, <1>3, <2>1, <2>2 DEF LeaseInv, Times
<1>5. TimerFits'
  BY <1>1, <1>2 DEF TimerFits
<1>6. UnwantedEnds'
  <2>1. CASE Wanted
    BY <1>1, <1>2, <1>4, <2>1, JustUnwanted
  <2>2. CASE ~Wanted
    BY <1>1, <1>2, <1>3, <2>2 DEF LeaseInv, UnwantedEnds, Wanted
  <2> QED
    BY <2>1, <2>2
<1> QED
  BY <1>4, <1>5, <1>6 DEF LeaseInv

LEMMA StartKeepsInv ==
    ASSUME LeaseInv, Start
    PROVE  LeaseInv'
<1> DEFINE on == stored = "on"
<1>1. /\ ~up /\ up' = TRUE /\ signal' = on /\ GiveUp({call}, on)
      /\ wantedFor' = IF on = Wanted THEN wantedFor ELSE 0
      /\ call' = IF on THEN Request("on") ELSE Quiet
      /\ renewalTimer' = 0
      /\ UNCHANGED <<lease, renewal, earlier, renewalOf>>
  BY DEF Start, SetUp, SetInForce
<1>2. call' \in Requests /\ (~on => call'.body = "none")
  BY <1>1, RequestType DEF Quiet
<1>3. renewal = Quiet /\ renewal.body = "none" /\ ~Wanted
  BY <1>1, RequestType DEF LeaseInv, TimerFits, Quiet, Wanted
<1>4. /\ strays' \subseteq Strays
      /\ \A stray \in strays' :
            stray.body = "on" => wantedFor <= Earlier * Timeout + stray.age
  BY <1>1, <1>3, StraysKeep
<1>5. Times'
  BY <1>1, <1>2, <1>4, LeaseAssumption DEF LeaseInv, Times
<1>6. TimerFits'
  BY <1>1, <1>3 DEF LeaseInv, TimerFits
<1>7. UnwantedEnds'
  BY <1>1, <1>2, <1>3, <1>4 DEF LeaseInv, UnwantedEnds, Wanted
<1> QED
  BY <1>5, <1>6, <1>7 DEF LeaseInv

\* A second of age more for a request that may wait for it.
LEMMA OlderRequest ==
    ASSUME NEW request \in Requests, MayWait(request)
    PROVE  /\ Older(request) \in Requests /\ Older(request).body = request.body
           /\ request.body # "none" => Older(request).age = request.age + 1
BY LeaseAssumption DEF MayWait, Older, Requests

\* A second more has elapsed for a renewal under way.
LEMMA ElapsedGrows ==
    ASSUME LeaseInv, Tick
    PROVE  renewal.body # "none" => Elapsed \in Nat /\ Elapsed' = Elapsed + 1
<1>1. MayWait(renewal) /\ renewal' = Older(renewal) /\ earlier' = earlier
  BY DEF Tick
<1>2. /\ renewal' \in Requests /\ renewal'.body = renewal.body
      /\ renewal.body # "none" => renewal'.age = renewal.age + 1
  BY <1>1, OlderRequest DEF LeaseInv, Times
<1>3. Elapsed \in Nat /\ renewal.age \in Nat
  BY ElapsedBounds, LeaseAssumption DEF LeaseInv, Times, Elapsed
<1>4. CASE renewal.body = "other"
  <2>1. earlier \in 0..(Earlier - 1)
    BY <1>4, LeaseAssumption DEF LeaseInv, Times
  <2>2. (Earlier - earlier - 1) * Timeout \in Nat
    BY <2>1, SendTimes
  <2> QED
    BY <1>1, <1>2, <1>3, <1>4, <2>2 DEF Elapsed, ElapsedAt
<1>5. CASE renewal.body # "other"
  BY <1>1, <1>2, <1>3, <1>5, SendTimes DEF Elapsed, ElapsedAt
<1> QED
  BY <1>4, <1>5

LEMMA TickKeepsInv ==
    ASSUME LeaseInv, Tick
    PROVE  LeaseInv'
<1>1. /\ MayWait(call) /\ MayWait(renewal)
      /\ up => renewalTimer < Period
      /\ lease' = IF lease > 0 THEN lease - 1 ELSE 0
      /\ strays' = {[stray EXCEPT !.age = @ + 1] : stray \in {s \in strays : s.age < Linger}}
      /\ call' = Older(call) /\ renewal' = Older(renewal)
      /\ renewalTimer' = IF up THEN renewalTimer + 1 ELSE 0
      /\ wantedFor' = IF wantedFor < AgeCap THEN wantedFor + 1 ELSE wantedFor
      /\ UNCHANGED <<up, signal, earlier, renewalOf>>
  BY DEF Tick, switchVars
<1>2. /\ call' \in Requests /\ call'.body = call.body
      /\ renewal' \in Requests /\ renewal'.body = renewal.body
      /\ renewal.body # "none" => renewal'.age = renewal.age + 1
  BY <1>1, OlderRequest DEF LeaseInv, Times
<1>3. \A stray \in strays' : \E s \in strays :
         stray = [body |-> s.body, age |-> s.age + 1] /\ s.age + 1 \in 0..Linger
  <2>1. SUFFICES ASSUME NEW s \in strays, s.age < Linger
                 PROVE  /\ [s EXCEPT !.age = @ + 1] = [body |-> s.body, age |-> s.age + 1]
                        /\ s.age + 1 \in 0..Linger
    BY <1>1
  <2> QED
    BY <2>1, LeaseAssumption DEF LeaseInv, Times, Strays
<1>4. PICK left \in Nat, since \in Nat :
         /\ lease' = left /\ wantedFor' = since
         /\ lease \in 0..ValidFor /\ wantedFor \in Nat
         /\ left <= lease /\ (lease > 0 => left = lease - 1)
         /\ since <= wantedFor + 1
  BY <1>1, SendTimes, LeaseAssumption DEF LeaseInv, Times
<1>5. Times'
  <2>1. strays' \subseteq Strays
    BY <1>3 DEF LeaseInv, Times, Strays
  <2>2. renewalTimer' \in 0..Period
    BY <1>1, LeaseAssumption DEF LeaseInv, Times
  <2>3. lease' \in 0..ValidFor /\ wantedFor' \in Nat
    BY <1>4, LeaseAssumption
  <2> QED
    BY <1>1, <1>2, <2>1, <2>2, <2>3 DEF LeaseInv, Times
<1>6. renewal.body # "none" => Elapsed \in Nat /\ Elapsed' = Elapsed + 1
  BY ElapsedGrows
<1>7. TimerFits'
  <2>1. renewal'.body = "none" => renewal' = Quiet /\ renewalOf' = "current"
    BY <1>1, <1>2 DEF LeaseInv, TimerFits, Older
  <2>2. renewal.body # "none" => renewalTimer' <= Elapsed'
    <3>1. PICK before \in Nat, after \in Nat :
              before = renewalTimer /\ after = renewalTimer' /\ after <= before + 1
      BY <1>1, LeaseAssumption DEF LeaseInv, Times
    <3>2. renewal.body # "none" => before <= Elapsed
      BY <3>1 DEF LeaseInv, TimerFits
    <3> QED
      BY <1>6, <3>1, <3>2
  <2>3. ~up' => renewal' = Quiet /\ call' = Quiet /\ ~signal'
    BY <1>1 DEF LeaseInv, TimerFits, Older, Quiet, Request
  <2> QED
    BY <1>2, <2>1, <2>2, <2>3 DEF TimerFits
<1>8. UnwantedEnds'
  <2>1. SUFFICES ASSUME ~Wanted
                 PROVE  UnwantedEnds'
    BY <1>1 DEF UnwantedEnds, Wanted
  <2>2. lease' > 0 => wantedFor' + lease' <= LostTime
    <3>1. lease > 0 => wantedFor + lease <= LostTime
      BY <2>1 DEF LeaseInv, UnwantedEnds
    <3>2. LostTime \in Nat /\ lease \in Nat
      BY <1>4, LostTimes, LeaseAssumption
    <3>3. left > 0 => since + left <= LostTime
      BY <1>4, <3>1, <3>2
    <3> QED
      BY <1>4, <3>3
  <2>3. \A stray \in strays' : stray.body = "on" => wantedFor' <= Earlier * Timeout + stray.age
    <3>1. SUFFICES ASSUME NEW s \in strays, s.body = "on"
                   PROVE  since <= Earlier * Timeout + (s.age + 1)
      BY <1>3, <1>4
    <3>2. wantedFor <= Earlier * Timeout + s.age
      BY <2>1, <3>1 DEF LeaseInv, UnwantedEnds
    <3>3. s.age \in Nat
      BY LeaseAssumption DEF LeaseInv, Times, Strays
    <3> QED
      BY <1>4, <3>2, <3>3, SendTimes
  <2>4. call'.body # "on"
    BY <1>2, <2>1 DEF LeaseInv, UnwantedEnds
  <2>5. renewal.body # "none" /\ wantedFor <= Elapsed => wantedFor' <= Elapsed'
    BY <1>4, <1>6
  <2>6. /\ renewal.body = "on" => wantedFor <= Elapsed
        /\ renewal.body = "other" /\ OwnSignal => wantedFor <= Elapsed
        /\ OwnSignal' = OwnSignal
    BY <1>1, <2>1 DEF LeaseInv, UnwantedEnds, OwnSignal
  <2> QED
    BY <1>2, <2>2, <2>3, <2>4, <2>5, <2>6 DEF UnwantedEnds
<1> QED
  BY <1>5, <1>7, <1>8 DEF LeaseInv

-----------------------------------------------------------------------------
\* It holds at the start.
LEMMA LeaseInitially == Init => LeaseInv
<1>1. SUFFICES ASSUME Init PROVE LeaseInv
  OBVIOUS
<1>2. Quiet \in Requests /\ Quiet.body = "none" /\ AgeCap \in Nat
  BY RequestType, SendTimes DEF Quiet
<1>3. Times
  <2>1. 0 \in 0..ValidFor /\ 0 \in 0..Earlier /\ 0 \in 0..Period
    BY LeaseAssumption
  <2>2. strays \subseteq Strays
    BY <1>1 DEF Init
  <2>3. up \in BOOLEAN /\ signal \in BOOLEAN
    BY <1>1 DEF Init
  <2> QED
    BY <1>1, <1>2, <2>1, <2>2, <2>3 DEF Init, Times
<1>4. TimerFits /\ UnwantedEnds
  BY <1>1, <1>2 DEF Init, TimerFits, UnwantedEnds
<1> QED
  BY <1>3, <1>4 DEF LeaseInv

\* LeaseInv holds in every reachable state.
THEOREM LeaseInvariant == Spec => []LeaseInv
<1>1. Init => LeaseInv
  BY LeaseInitially
<1>2. LeaseInv /\ [Next]_vars => LeaseInv'
  <2> SUFFICES ASSUME LeaseInv, [Next]_vars PROVE LeaseInv'
    OBVIOUS
  <2>1. CASE PiHandlesCall
    BY <2>1, CallHandled
  <2>2. CASE PiHandlesRenewal
    BY <2>2, RenewalHandled
  <2>3. CASE PiHandlesStray
    BY <2>3, StrayHandled
  <2>4. CASE \E value \in BOOLEAN : TurnTo(value)
    BY <2>4, TurnKeepsInv
  <2>5. CASE CallEnds
    BY <2>5, CallEndKeepsInv
  <2>6. CASE Renew
    BY <2>6, RenewKeepsInv
  <2>7. CASE RenewalSendEnds
    BY <2>7, RenewalEndKeepsInv
  <2>8. CASE Reload
    BY <2>8, ReloadKeepsInv
  <2>9. CASE Stop
    BY <2>9, StopKeepsInv
  <2>10. CASE Start
    BY <2>10, StartKeepsInv
  <2>11. CASE Dump
    BY <2>11 DEF Dump, renewalVars, LeaseInv, Times, TimerFits, UnwantedEnds, Elapsed, OwnSignal,
                 Wanted
  <2>12. CASE Tick
    BY <2>12, TickKeepsInv
  <2>13. CASE UNCHANGED vars
    BY <2>13 DEF vars, switchVars, renewalVars, LeaseInv, Times, TimerFits, UnwantedEnds, Elapsed,
                 OwnSignal, Wanted
  <2> QED
    BY <2>1, <2>2, <2>3, <2>4, <2>5, <2>6, <2>7, <2>8, <2>9, <2>10, <2>11, <2>12, <2>13 DEF Next
<1> QED
  BY <1>1, <1>2, PTL DEF Spec

\* The Pi forgets a signal that is no longer in force within LostTime, however
\* long the lease, the renewal and the network take, whatever is lost, and
\* across reloads, stops and restarts.
THEOREM ForgetsUnwanted == Spec => []UnwantedLeaseEnds
<1>1. LeaseInv => UnwantedLeaseEnds
  <2>1. SUFFICES ASSUME LeaseInv, ~Wanted, wantedFor >= LostTime, lease # 0
                 PROVE  FALSE
    BY DEF UnwantedLeaseEnds
  <2>2. lease \in Nat /\ lease > 0 /\ wantedFor \in Nat /\ LostTime \in Nat
    BY <2>1, LostTimes, LeaseAssumption DEF LeaseInv, Times
  <2>3. wantedFor + lease <= LostTime
    BY <2>1, <2>2 DEF LeaseInv, UnwantedEnds
  <2> QED
    BY <2>1, <2>2, <2>3
<1> QED
  BY <1>1, LeaseInvariant, PTL

\* Whatever its sends wait for, a renewal has ended when the next one starts,
\* also across a reload that leaves one behind.
THEOREM RenewalsAreApart == Spec => []RenewalsDoNotOverlap
<1>1. LeaseInv => RenewalsDoNotOverlap
  BY QuietAtFire DEF RenewalsDoNotOverlap
<1> QED
  BY <1>1, LeaseInvariant, PTL

-----------------------------------------------------------------------------
(***************************************************************************)
(* A wanted lease holds.  Each firing of the timer, and each set-up, starts *)
(* a request for the lease; two of them are at most Period apart.  So the   *)
(* time without an answer is bounded by the requests lost so far, those     *)
(* under way, and the time since the timer fired.                           *)
(***************************************************************************)

RenewalTime == (Earlier + 1) * Timeout

\* A request for the lease is under way: the switch's, or one the renewal makes
\* or will make.
Calls == call.body = "on" /\ ~call.handled
Renews ==
    \/ renewal.body = "on" /\ ~renewal.handled
    \/ renewal.body = "other" /\ OwnSignal

\* A silence is explained by requests lost that cost so much time, by those under
\* way, and by the timer.  A call that is younger than the timer was not started
\* with it, and explains nothing.
Explains(silence, cost, timer, calls, renews, age, elapsed) ==
    /\ ~calls /\ ~renews => silence <= cost + timer
    /\ ~calls /\ renews => silence <= cost + Period + timer
    /\ calls /\ ~renews => /\ silence <= cost + Period + timer
                           /\ timer > age => silence <= cost + timer
    /\ calls /\ renews => /\ silence <= cost + Period + elapsed
                          /\ silence <= cost + Period + Period + timer
                          /\ timer > age => silence <= cost + Period + timer

Explained(silence) ==
    Explains(silence, missed * Period, renewalTimer, Calls, Renews, call.age, Elapsed)

\* What could still end a wanted lease was sent before it was wanted.
OffsGone ==
    /\ renewal.body # "off"
    /\ Wanted => /\ call.body # "off"
                 /\ \A stray \in strays : stray.body = "off" => wantedFor <= stray.age

\* The time since the Pi took the last request for the lease, or since nothing
\* could end it any more.
Held ==
    Wanted /\ missed <= Tolerated =>
        Explained(ValidFor - lease) \/ Explained(wantedFor - Linger)

HeldInv == LeaseInv /\ missed \in Nat /\ OffsGone /\ Held

-----------------------------------------------------------------------------
\* Arithmetic of the silence.

LEMMA LossTimes ==
    /\ Tolerated \in Nat /\ RenewalTime \in Nat /\ RenewalTime = Earlier * Timeout + Timeout
    /\ Timeout <= RenewalTime
    /\ Tolerated * Period + Period + RenewalTime < ValidFor
    /\ GraceTime = Linger + Tolerated * Period + Period + RenewalTime
    /\ \A m \in Nat : /\ m * Period \in Nat
                      /\ (m + 1) * Period = m * Period + Period
                      /\ m <= Tolerated => m * Period <= Tolerated * Period
<1>1. RenewalTime \in Nat /\ RenewalTime = Earlier * Timeout + Timeout /\ Timeout <= RenewalTime
  BY SendTimes, LeaseAssumption DEF RenewalTime
<1>2. Period \in Nat /\ Period > 0 /\ ValidFor - RenewalTime - 1 \in Nat
      /\ ValidFor - RenewalTime - 1 >= Period
  BY <1>1, LeaseAssumption DEF RenewalTime
<1> DEFINE spare == ValidFor - RenewalTime - 1
           times == spare \div Period
<1>3. times \in Nat /\ times >= 1 /\ times * Period <= spare
  <2>1. \A n \in Nat, p \in Nat \ {0} :
            n >= p => n \div p \in Nat /\ n \div p >= 1 /\ (n \div p) * p <= n
    OBVIOUS
  <2> QED
    BY <1>2, <2>1
<1>4. Tolerated = times - 1
  BY DEF Tolerated, RenewalTime
<1>5. Tolerated \in Nat /\ times = Tolerated + 1
  <2> HIDE DEF times
  <2> QED
    BY <1>3, <1>4
<1>6. ASSUME NEW m \in Nat
      PROVE  /\ m * Period \in Nat
             /\ (m + 1) * Period = m * Period + Period
             /\ m <= Tolerated => m * Period <= Tolerated * Period
  BY <1>2, <1>5
<1>7. Tolerated * Period + Period + RenewalTime < ValidFor
  <2>1. times * Period = Tolerated * Period + Period
    BY <1>5, <1>6
  <2>2. Tolerated * Period + Period <= spare
    BY <1>3, <2>1
  <2> QED
    BY <1>1, <1>2, <1>5, <1>6, <2>2, LeaseAssumption
<1>8. GraceTime = Linger + Tolerated * Period + Period + RenewalTime
  <2>1. (Tolerated + 1) * Period = Tolerated * Period + Period
    BY <1>5, <1>6
  <2> QED
    BY <1>1, <1>5, <1>6, <2>1, LeaseAssumption DEF GraceTime, RenewalTime
<1> QED
  BY <1>1, <1>5, <1>6, <1>7, <1>8

\* No silence needs no explanation.
LEMMA NoSilence ==
    ASSUME NEW silence \in Int, silence <= 0, NEW cost \in Nat, NEW timer \in Nat,
           NEW age \in Nat, NEW elapsed \in Nat, NEW calls, NEW renews
    PROVE  Explains(silence, cost, timer, calls, renews, age, elapsed)
BY LeaseAssumption DEF Explains

\* A new call, which explains something only where the timer starts with it.
LEMMA CallExplains ==
    ASSUME NEW silence \in Int, NEW cost \in Nat, NEW timer \in 0..Period, NEW renews \in BOOLEAN,
           NEW age \in Nat, NEW elapsed \in Nat, renews => timer <= elapsed,
           Explains(silence, cost, timer, FALSE, renews, age, elapsed)
    PROVE  /\ Explains(silence, cost, timer, TRUE, renews, 0, elapsed)
           /\ Explains(silence, cost, 0, TRUE, renews, 0, elapsed)
BY LeaseAssumption DEF Explains

\* A silence that is explained is not longer than the losses, one period and the
\* time of a renewal.
LEMMA SilenceBound ==
    ASSUME NEW silence \in Int, NEW cost \in Nat, NEW timer \in 0..Period, NEW calls \in BOOLEAN,
           NEW renews \in BOOLEAN, NEW age \in 0..Timeout, NEW elapsed \in Nat,
           renews => timer <= elapsed, elapsed <= RenewalTime,
           Explains(silence, cost, timer, calls, renews, age, elapsed)
    PROVE  silence <= cost + Period + RenewalTime
BY LossTimes, LeaseAssumption DEF Explains

-----------------------------------------------------------------------------
\* The measures of what is under way.

LEMMA Measures ==
    ASSUME LeaseInv
    PROVE  /\ lease \in 0..ValidFor /\ wantedFor \in Nat
           /\ Elapsed \in Nat /\ Elapsed <= RenewalTime /\ Elapsed <= Period
           /\ call.age \in 0..Timeout /\ renewalTimer \in 0..Period
           /\ Renews => renewalTimer <= Elapsed
           /\ Calls \in BOOLEAN /\ Renews \in BOOLEAN
<1>1. Elapsed \in Nat /\ Elapsed <= RenewalTime
  BY ElapsedBounds, LossTimes, SendTimes, LeaseAssumption DEF LeaseInv, Times, Elapsed
<1>2. RenewalTime < Period
  BY LeaseAssumption DEF RenewalTime
<1>3. /\ call.age \in 0..Timeout /\ renewalTimer \in 0..Period
      /\ lease \in 0..ValidFor /\ wantedFor \in Nat
  BY DEF LeaseInv, Times, Requests
<1>4. Renews => renewalTimer <= Elapsed
  BY DEF Renews, LeaseInv, TimerFits
<1>5. Calls \in BOOLEAN /\ Renews \in BOOLEAN
  BY DEF Calls, Renews, LeaseInv, Times, Requests
<1> QED
  BY <1>1, <1>2, <1>3, <1>4, <1>5, LossTimes, LeaseAssumption

\* After an answer, and while a signal is new, there is no silence.
LEMMA HeldAfresh ==
    ASSUME LeaseInv', missed' \in Nat,
           lease' = ValidFor \/ wantedFor' <= Linger
    PROVE  Held'
<1>1. /\ lease' \in 0..ValidFor /\ wantedFor' \in Nat /\ Elapsed' \in Nat
      /\ call'.age \in Nat /\ renewalTimer' \in Nat
  BY ElapsedBounds, LeaseAssumption DEF LeaseInv, Times, Requests, Elapsed
<1>2. missed' * Period \in Nat
  BY LossTimes
<1>3. \A silence \in Int : silence <= 0 => Explained(silence)'
  BY <1>1, <1>2, NoSilence DEF Explained
<1>4. ValidFor - lease' <= 0 \/ wantedFor' - Linger <= 0
  <2>1. CASE lease' = ValidFor
    BY <2>1, LeaseAssumption
  <2>2. CASE wantedFor' <= Linger
    <3>1. \A since \in Nat : since <= Linger => since - Linger <= 0
      BY LeaseAssumption
    <3> QED
      BY <1>1, <2>2, <3>1
  <2> QED
    BY <2>1, <2>2
<1> QED
  BY <1>1, <1>3, <1>4, LeaseAssumption DEF Held

\* A step that explains every silence the state before explained.
LEMMA HeldOn ==
    ASSUME HeldInv, Wanted, missed <= Tolerated, lease' = lease, wantedFor' = wantedFor,
           \A silence \in Int : Explained(silence) => Explained(silence)'
    PROVE  Held'
<1>1. ValidFor - lease \in Int /\ wantedFor - Linger \in Int
  BY Measures, LeaseAssumption DEF HeldInv
<1> QED
  BY <1>1 DEF HeldInv, Held

\* What giving up on some requests counts as lost.
LEMMA LossesCount ==
    ASSUME NEW S, NEW on, GiveUp(S, on), missed \in Nat, Wanted, missed' <= Tolerated
    PROVE  /\ missed' \in Nat /\ missed <= Tolerated
           /\ (\E request \in S : request.body = "on" /\ ~request.handled)
                  => missed' = missed + 1
           /\ (\A request \in S : ~(request.body = "on" /\ ~request.handled))
                  => missed' = missed
BY LossTimes DEF GiveUp

\* The call in hand is given up: what explained a silence with it explains it
\* without.
LEMMA CallGivenUp ==
    ASSUME HeldInv, NEW on, GiveUp({call}, on), Wanted, missed' <= Tolerated,
           NEW silence \in Int, Explained(silence)
    PROVE  /\ missed <= Tolerated /\ missed' * Period \in Nat
           /\ \A age \in Nat :
                 Explains(silence, missed' * Period, renewalTimer, FALSE, Renews, age, Elapsed)
<1>1. missed \in Nat /\ missed' \in Nat /\ missed <= Tolerated
      /\ (Calls => missed' = missed + 1) /\ (~Calls => missed' = missed)
  <2>1. /\ missed' \in Nat /\ missed <= Tolerated
        /\ (\E request \in {call} : request.body = "on" /\ ~request.handled)
               => missed' = missed + 1
        /\ (\A request \in {call} : ~(request.body = "on" /\ ~request.handled))
               => missed' = missed
    <3>1. missed \in Nat
      BY DEF HeldInv
    <3> QED
      BY <3>1, LossesCount
  <2> QED
    BY <2>1 DEF HeldInv, Calls
<1>2. /\ Elapsed \in Nat /\ Elapsed <= Period /\ call.age \in Nat /\ renewalTimer \in Nat
      /\ Renews \in BOOLEAN /\ Calls \in BOOLEAN
  BY Measures, LeaseAssumption DEF HeldInv
<1>3. missed * Period \in Nat /\ missed' * Period \in Nat
      /\ (missed + 1) * Period = missed * Period + Period
  BY <1>1, LossTimes
<1>4. CASE Calls
  <2>1. Explains(silence, missed * Period, renewalTimer, TRUE, Renews, call.age, Elapsed)
    BY <1>4 DEF Explained
  <2>2. missed' * Period = missed * Period + Period
    BY <1>1, <1>3, <1>4
  <2>3. \A age \in Nat :
            Explains(silence, missed * Period + Period, renewalTimer, FALSE, Renews, age, Elapsed)
    <3>1. PICK cost \in Nat, cost1 \in Nat : cost = missed * Period /\ cost1 = missed * Period + Period
      BY <1>3, LeaseAssumption
    <3>2. cost1 = cost + Period
      BY <3>1
    <3>3. Explains(silence, cost, renewalTimer, Calls, Renews, call.age, Elapsed)
      BY <3>1 DEF Explained
    <3> QED
      BY <1>2, <1>4, <3>1, <3>2, <3>3, LeaseAssumption DEF Explains
  <2> QED
    BY <1>1, <1>3, <2>2, <2>3
<1>5. CASE ~Calls
  <2>1. Explains(silence, missed * Period, renewalTimer, Calls, Renews, call.age, Elapsed)
    BY DEF Explained
  <2>2. missed' = missed
    BY <1>1, <1>5
  <2> QED
    BY <1>1, <1>3, <1>5, <2>1, <2>2 DEF Explains
<1> QED
  BY <1>2, <1>4, <1>5

LEMMA CallHandledHolds ==
    ASSUME HeldInv, LeaseInv', PiHandlesCall
    PROVE  HeldInv'
<1>1. /\ call' = [call EXCEPT !.handled = TRUE] /\ call.body # "none" /\ Handle(call.body)
      /\ UNCHANGED <<strays, up, signal, renewal, earlier, renewalOf, renewalTimer, wantedFor>>
  BY DEF PiHandlesCall, switchVars, renewalVars
<1>2. call' \in Requests /\ call'.body = call.body /\ call'.age = call.age /\ call'.handled
  BY <1>1 DEF HeldInv, LeaseInv, Times, Requests
<1>3. OffsGone' /\ missed' \in Nat
  BY <1>1, <1>2 DEF HeldInv, OffsGone, Wanted, Handle
<1>4. CASE call.body = "on"
  BY <1>1, <1>3, <1>4, HeldAfresh DEF Handle, HeldInv
<1>5. CASE call.body # "on" /\ ~Wanted
  BY <1>1, <1>3, <1>5 DEF HeldInv, Held, Wanted
<1>6. CASE call.body # "on" /\ Wanted
  <2>1. lease' = lease /\ missed' = missed
    BY <1>1, <1>6 DEF HeldInv, OffsGone, Handle
  <2>2. \A silence \in Int : Explained(silence) => Explained(silence)'
    BY <1>1, <1>2, <1>6, <2>1 DEF Explained, Calls, Renews, Elapsed, OwnSignal
  <2>3. CASE missed <= Tolerated
    BY <1>1, <1>3, <1>6, <2>1, <2>2, <2>3, HeldOn DEF HeldInv
  <2>4. CASE ~(missed <= Tolerated)
    BY <1>3, <2>1, <2>4 DEF HeldInv, Held
  <2> QED
    BY <2>3, <2>4
<1> QED
  BY <1>4, <1>5, <1>6

LEMMA RenewalHandledHolds ==
    ASSUME HeldInv, LeaseInv', PiHandlesRenewal
    PROVE  HeldInv'
<1>1. /\ renewal' = [renewal EXCEPT !.handled = TRUE] /\ renewal.body # "none"
      /\ Handle(renewal.body)
      /\ UNCHANGED <<strays, up, signal, call, earlier, renewalOf, renewalTimer, wantedFor>>
  BY DEF PiHandlesRenewal, switchVars
<1>2. renewal' \in Requests /\ renewal'.body = renewal.body /\ renewal'.age = renewal.age
  BY <1>1 DEF HeldInv, LeaseInv, Times, Requests
<1>3. OffsGone' /\ missed' \in Nat
  BY <1>1, <1>2 DEF HeldInv, OffsGone, Wanted, Handle
<1>4. CASE renewal.body = "on"
  BY <1>1, <1>3, <1>4, HeldAfresh DEF Handle, HeldInv
<1>5. CASE renewal.body # "on"
  <2>1. lease' = lease /\ missed' = missed
    BY <1>1, <1>5 DEF HeldInv, OffsGone, Handle
  <2>2. \A silence \in Int : Explained(silence) => Explained(silence)'
    BY <1>1, <1>2, <1>5, <2>1 DEF Explained, Calls, Renews, Elapsed, ElapsedAt, OwnSignal
  <2>3. CASE Wanted /\ missed <= Tolerated
    BY <1>1, <1>3, <2>1, <2>2, <2>3, HeldOn DEF HeldInv
  <2>4. CASE ~(Wanted /\ missed <= Tolerated)
    BY <1>1, <1>3, <2>1, <2>4 DEF HeldInv, Held, Wanted
  <2> QED
    BY <2>3, <2>4
<1> QED
  BY <1>4, <1>5

LEMMA StrayHandledHolds ==
    ASSUME HeldInv, LeaseInv', PiHandlesStray
    PROVE  HeldInv'
<1>1. PICK stray \in strays : Handle(stray.body) /\ strays' = strays \ {stray}
  BY DEF PiHandlesStray
<1>2. UNCHANGED <<up, signal, call, renewal, earlier, renewalOf, renewalTimer, wantedFor>>
  BY DEF PiHandlesStray, switchVars, renewalVars
<1>3. OffsGone' /\ missed' \in Nat /\ stray.body \in {"on", "off"} /\ stray.age \in 0..Linger
  BY <1>1, <1>2 DEF HeldInv, OffsGone, Wanted, Handle, LeaseInv, Times, Strays
<1>4. CASE stray.body = "on"
  BY <1>1, <1>3, <1>4, HeldAfresh DEF Handle, HeldInv
<1>5. CASE stray.body = "off" /\ Wanted
  <2>1. wantedFor' <= Linger
    <3>1. wantedFor <= stray.age /\ wantedFor \in Nat
      BY <1>5, Measures DEF HeldInv, OffsGone
    <3> QED
      BY <1>2, <1>3, <3>1, LeaseAssumption
  <2> QED
    BY <1>3, <2>1, HeldAfresh DEF HeldInv
<1>6. CASE ~Wanted
  BY <1>2, <1>3, <1>6 DEF HeldInv, Held, Wanted
<1> QED
  BY <1>3, <1>4, <1>5, <1>6

\* Giving up lets go of no request to end a wanted lease: there is none.
LEMMA OffsStayGone ==
    ASSUME HeldInv, NEW S \in SUBSET {call, renewal}, NEW on, GiveUp(S, on)
    PROVE  /\ missed' \in Nat
           /\ Wanted => \A stray \in strays' : stray.body = "off" => wantedFor <= stray.age
<1>1. missed' \in Nat
  BY DEF GiveUp, HeldInv
<1>2. \A stray \in strays' :
         \/ stray \in strays
         \/ \E request \in {call, renewal} :
               /\ request.body \in {"on", "off"}
               /\ stray = [body |-> request.body, age |-> request.age]
  BY StraysFrom
<1> QED
  BY <1>1, <1>2 DEF HeldInv, OffsGone

\* A signal that has just come into force: nothing is older.
LEMMA JustWanted ==
    ASSUME LeaseInv', missed' \in Nat, wantedFor' = 0, renewal'.body # "off", call'.body # "off"
    PROVE  HeldInv'
<1>1. \A stray \in strays' : 0 <= stray.age
  BY LeaseAssumption DEF LeaseInv, Times, Strays
<1>2. OffsGone'
  BY <1>1 DEF OffsGone
<1>3. Held'
  BY HeldAfresh, LeaseAssumption
<1> QED
  BY <1>2, <1>3 DEF HeldInv

\* A new call by a signal that was in force.
LEMMA NewCallHolds ==
    ASSUME HeldInv, LeaseInv', Wanted, NEW on, GiveUp({call}, on),
           call' = Request("on"), renewalTimer' \in {0, renewalTimer}, Renews' <=> Renews,
           UNCHANGED <<lease, renewal, earlier, wantedFor>>
    PROVE  HeldInv'
<1>1. Calls' /\ call'.body = "on" /\ call'.age = 0
  BY DEF Calls, Request
<1>2. OffsGone' /\ missed' \in Nat
  BY <1>1, OffsStayGone DEF HeldInv, OffsGone
<1>3. ASSUME missed' <= Tolerated, NEW silence \in Int, Explained(silence)
      PROVE  missed <= Tolerated /\ Explained(silence)'
  <2>1. PICK cost \in Nat : cost = missed' * Period
    BY <1>3, CallGivenUp
  <2>2. missed <= Tolerated /\ Explains(silence, cost, renewalTimer, FALSE, Renews, 0, Elapsed)
    BY <1>3, <2>1, CallGivenUp
  <2>3. /\ Elapsed \in Nat /\ renewalTimer \in 0..Period /\ Renews \in BOOLEAN
        /\ Renews => renewalTimer <= Elapsed
    BY Measures DEF HeldInv
  <2>4. Elapsed' = Elapsed
    BY DEF Elapsed
  <2>5. Explains(silence, cost, renewalTimer', TRUE, Renews, 0, Elapsed)
    <3>1. PICK timer \in 0..Period :
              timer = renewalTimer' /\ (timer = 0 \/ timer = renewalTimer)
      BY <2>3, LeaseAssumption
    <3>2. PICK before \in 0..Period, elapsed \in Nat : before = renewalTimer /\ elapsed = Elapsed
      BY <2>3
    <3>3. Explains(silence, cost, before, FALSE, Renews, 0, elapsed)
      BY <2>2, <3>2
    <3>4. Explains(silence, cost, timer, TRUE, Renews, 0, elapsed)
      <4>1. Renews => before <= elapsed
        BY <2>3, <3>2
      <4>2. Renews \in BOOLEAN
        BY <2>3
      <4> QED
        BY <3>1, <3>2, <3>3, <4>1, <4>2, CallExplains
    <3> QED
      BY <3>1, <3>2, <3>4
  <2> QED
    BY <1>1, <2>1, <2>2, <2>4, <2>5 DEF Explained, Explains
<1>4. CASE missed' <= Tolerated /\ missed <= Tolerated
  BY <1>2, <1>3, <1>4, HeldOn DEF HeldInv
<1>5. CASE ~(missed' <= Tolerated /\ missed <= Tolerated)
  <2>1. missed' <= Tolerated => missed <= Tolerated
    BY LossesCount DEF HeldInv
  <2> QED
    BY <1>2, <1>5, <2>1 DEF HeldInv, Held
<1> QED
  BY <1>4, <1>5

LEMMA TurnHolds ==
    ASSUME HeldInv, LeaseInv', NEW value \in BOOLEAN, TurnTo(value)
    PROVE  HeldInv'
<1>1. /\ up /\ up' = up /\ signal' = value /\ call' = Request(OnOff(value))
      /\ wantedFor' = IF value = Wanted THEN wantedFor ELSE 0
      /\ UNCHANGED <<lease, renewal, earlier, renewalOf, renewalTimer>>
      /\ GiveUp({call}, value)
  BY DEF TurnTo, SetInForce, renewalVars
<1>2. missed' \in Nat
  BY <1>1, OffsStayGone
<1>3. CASE ~value
  BY <1>1, <1>2, <1>3 DEF HeldInv, OffsGone, Held, Wanted
<1>4. CASE value /\ ~Wanted
  BY <1>1, <1>2, <1>4, JustWanted DEF Request, OnOff, HeldInv, OffsGone
<1>5. CASE value /\ Wanted
  <2>1. Renews' <=> Renews
    BY <1>1, <1>5 DEF Renews, OwnSignal, Wanted
  <2> QED
    BY <1>1, <1>5, <2>1, NewCallHolds DEF OnOff
<1> QED
  BY <1>3, <1>4, <1>5

LEMMA ReloadHolds ==
    ASSUME HeldInv, LeaseInv', Reload
    PROVE  HeldInv'
<1> DEFINE on == stored' = "on"
<1>1. /\ up /\ up' = TRUE /\ signal' = on /\ GiveUp({call}, on)
      /\ wantedFor' = IF on = Wanted THEN wantedFor ELSE 0
      /\ call' = IF on THEN Request("on") ELSE Quiet
      /\ renewalTimer' = 0
      /\ renewalOf' = IF renewal.body # "none" /\ renewalOf = "current" THEN OnOff(signal) ELSE renewalOf
      /\ UNCHANGED <<lease, renewal, earlier>>
  BY DEF Reload, SetUp, SetInForce
<1>2. on => signal /\ Wanted
  BY <1>1 DEF Reload, Displays, OnOff, Wanted
<1>3. missed' \in Nat
  BY <1>1, OffsStayGone
<1>4. CASE ~on
  BY <1>1, <1>3, <1>4 DEF HeldInv, OffsGone, Held, Wanted
<1>5. CASE on
  <2>1. Renews' <=> Renews
    BY <1>1, <1>2, <1>5 DEF Renews, OwnSignal, OnOff
  <2>2. wantedFor' = wantedFor
    BY <1>1, <1>2, <1>5 DEF Wanted
  <2> QED
    BY <1>1, <1>2, <1>5, <2>1, <2>2, NewCallHolds
<1> QED
  BY <1>4, <1>5

LEMMA StopHolds ==
    ASSUME HeldInv, LeaseInv', Stop
    PROVE  HeldInv'
<1>1. up' = FALSE /\ GiveUp({call, renewal}, FALSE) /\ renewal' = Quiet
  BY DEF Stop
<1>2. missed' \in Nat
  BY <1>1, OffsStayGone
<1> QED
  BY <1>1, <1>2 DEF HeldInv, OffsGone, Held, Wanted, Quiet, Request

LEMMA StartHolds ==
    ASSUME HeldInv, LeaseInv', Start
    PROVE  HeldInv'
<1> DEFINE on == stored = "on"
<1>1. /\ ~up /\ up' = TRUE /\ signal' = on /\ GiveUp({call}, on)
      /\ wantedFor' = IF on = Wanted THEN wantedFor ELSE 0
      /\ call' = IF on THEN Request("on") ELSE Quiet
      /\ renewal' = renewal
  BY DEF Start, SetUp, SetInForce
<1>2. missed' \in Nat
  BY <1>1, OffsStayGone
<1>3. CASE ~on
  BY <1>1, <1>2, <1>3 DEF HeldInv, OffsGone, Held, Wanted
<1>4. CASE on
  <2>1. wantedFor' = 0 /\ call'.body # "off"
    BY <1>1, <1>4 DEF Wanted, Request
  <2> QED
    BY <1>1, <1>2, <2>1, JustWanted DEF HeldInv, OffsGone
<1> QED
  BY <1>3, <1>4

LEMMA CallEndHolds ==
    ASSUME HeldInv, LeaseInv', CallEnds
    PROVE  HeldInv'
<1>1. /\ call' = Quiet /\ GiveUp({call}, Wanted)
      /\ UNCHANGED <<lease, up, signal, renewal, earlier, renewalOf, renewalTimer, wantedFor>>
  BY DEF CallEnds, switchVars, renewalVars
<1>2. ~Calls' /\ call'.body = "none" /\ call'.age = 0 /\ Renews' = Renews /\ Elapsed' = Elapsed
  BY <1>1 DEF Calls, Quiet, Request, Renews, OwnSignal, Elapsed
<1>3. OffsGone' /\ missed' \in Nat
  BY <1>1, <1>2, OffsStayGone DEF HeldInv, OffsGone, Wanted
<1>4. CASE Wanted /\ missed' <= Tolerated
  <2>1. missed <= Tolerated
    BY <1>1, <1>4, LossesCount DEF HeldInv
  <2>2. ASSUME NEW silence \in Int, Explained(silence)
        PROVE  Explained(silence)'
    <3>1. Explains(silence, missed' * Period, renewalTimer, FALSE, Renews, 0, Elapsed)
      BY <1>1, <1>4, <2>2, CallGivenUp
    <3> QED
      BY <1>1, <1>2, <3>1 DEF Explained, Explains
  <2> QED
    BY <1>1, <1>3, <1>4, <2>1, <2>2, HeldOn DEF HeldInv
<1>5. CASE ~(Wanted /\ missed' <= Tolerated)
  BY <1>1, <1>3, <1>5 DEF HeldInv, Held, Wanted
<1> QED
  BY <1>4, <1>5

LEMMA RenewHolds ==
    ASSUME HeldInv, LeaseInv', Renew
    PROVE  HeldInv'
<1>1. /\ up /\ renewalTimer = Period /\ renewalTimer' = 0
      /\ UNCHANGED <<lease, strays, up, signal, call, wantedFor, missed>>
  BY DEF Renew, switchVars
<1>2. PICK left \in 0..Earlier : RenewalSends(left)
  BY DEF Renew
<1>3. renewal.body = "none" /\ renewalOf = "current"
  BY <1>1, QuietAtFire DEF HeldInv, LeaseInv, TimerFits, Quiet, Request
<1>4. /\ renewal'.body \in {"none", "other", "on"} /\ ~renewal'.handled
      /\ renewal'.body = "none" => ~OwnSignal
      /\ renewal'.body # "none" => renewalOf' = "current"
  BY <1>2, <1>3 DEF RenewalSends, Request
<1>5. OffsGone'
  BY <1>1, <1>4 DEF HeldInv, OffsGone, Wanted
<1>6. CASE Wanted /\ missed <= Tolerated
  <2>1. ~Renews /\ Renews'
    BY <1>1, <1>3, <1>4, <1>6 DEF Renews, OwnSignal, Wanted
  <2>2. ASSUME NEW silence \in Int, Explained(silence)
        PROVE  Explained(silence)'
    <3>1. PICK cost \in Nat : cost = missed * Period
      BY LossTimes DEF HeldInv
    <3>2. Explains(silence, cost, Period, Calls, Renews, call.age, Elapsed)
      BY <1>1, <2>2, <3>1 DEF Explained
    <3>3. PICK elapsed \in Nat : elapsed = Elapsed'
      BY ElapsedBounds DEF LeaseInv, Times, Elapsed
    <3>4. call.age \in Nat /\ call.age < Period /\ Calls \in BOOLEAN
      BY Measures, LossTimes, LeaseAssumption DEF HeldInv, RenewalTime
    <3>5. Explains(silence, cost, 0, Calls, Renews', call.age, elapsed)
      BY <2>1, <3>2, <3>4, LeaseAssumption DEF Explains
    <3>6. Calls' = Calls
      BY <1>1 DEF Calls
    <3> QED
      BY <1>1, <3>1, <3>3, <3>5, <3>6 DEF Explained
  <2> QED
    BY <1>1, <1>5, <1>6, <2>2, HeldOn DEF HeldInv
<1>7. CASE ~(Wanted /\ missed <= Tolerated)
  BY <1>1, <1>5, <1>7 DEF HeldInv, Held, Wanted
<1> QED
  BY <1>6, <1>7

LEMMA RenewalEndHolds ==
    ASSUME HeldInv, LeaseInv', RenewalSendEnds
    PROVE  HeldInv'
<1>1. /\ renewal.body # "none" /\ GiveUp({renewal}, Wanted)
      /\ UNCHANGED <<lease, up, signal, call, renewalTimer, wantedFor>>
  BY DEF RenewalSendEnds, switchVars
<1>2. Calls' = Calls /\ (Wanted' <=> Wanted)
  BY <1>1 DEF Calls, Wanted
<1>3. /\ missed' \in Nat
      /\ Wanted => \A stray \in strays' : stray.body = "off" => wantedFor <= stray.age
  BY <1>1, OffsStayGone
<1>4. PICK elapsed \in Nat, elapsed1 \in Nat : elapsed = Elapsed /\ elapsed1 = Elapsed'
  BY ElapsedBounds DEF HeldInv, LeaseInv, Times, Elapsed
<1>5. CASE renewal.body = "other"
  <2>1. RenewalSends(earlier)
    BY <1>5 DEF RenewalSendEnds, RenewalGoesOn
  <2>2. /\ renewal'.body \in {"none", "other", "on"} /\ ~renewal'.handled
        /\ renewal'.body = "none" => ~OwnSignal
        /\ renewal'.body = "on" => OwnSignal
        /\ renewal'.body = "other" => renewalOf' = renewalOf
    BY <2>1 DEF RenewalSends, Request
  <2>3. Renews' <=> Renews
    BY <1>1, <1>5, <2>2 DEF Renews, OwnSignal
  <2>4. OffsGone'
    BY <1>1, <1>2, <1>3, <2>2 DEF HeldInv, OffsGone
  <2>5. CASE Wanted /\ missed' <= Tolerated
    <3>0. /\ missed <= Tolerated
          /\ (\E request \in {renewal} : request.body = "on" /\ ~request.handled)
                 => missed' = missed + 1
          /\ (\A request \in {renewal} : ~(request.body = "on" /\ ~request.handled))
                 => missed' = missed
      BY <1>1, <2>5, LossTimes DEF GiveUp, HeldInv
    <3>1. missed <= Tolerated /\ missed' = missed
      BY <1>5, <3>0
    <3>2. elapsed <= elapsed1
      BY <1>4, <1>5, NextSendIsLater DEF HeldInv
    <3>3. ASSUME NEW silence \in Int, Explained(silence)
          PROVE  Explained(silence)'
      <4>1. PICK cost \in Nat : cost = missed * Period
        BY LossTimes DEF HeldInv
      <4>2. Explains(silence, cost, renewalTimer, Calls, Renews, call.age, elapsed)
        BY <1>4, <3>3, <4>1 DEF Explained
      <4>3. Explains(silence, cost, renewalTimer, Calls, Renews, call.age, elapsed1)
        BY <3>2, <4>2, LeaseAssumption DEF Explains
      <4> QED
        BY <1>1, <1>2, <1>4, <2>3, <3>1, <4>1, <4>3 DEF Explained, Explains
    <3> QED
      BY <1>1, <1>3, <2>4, <2>5, <3>1, <3>3, HeldOn DEF HeldInv
  <2>6. CASE ~(Wanted /\ missed' <= Tolerated)
    BY <1>2, <1>3, <2>4, <2>6 DEF HeldInv, Held
  <2> QED
    BY <2>5, <2>6
<1>6. CASE renewal.body # "other"
  <2>1. renewal' = Quiet /\ renewal'.body = "none" /\ ~Renews'
    BY <1>6 DEF RenewalSendEnds, RenewalGoesOn, Renews, Quiet, Request
  <2>2. renewal.body = "on" /\ (Renews <=> ~renewal.handled)
    BY <1>1, <1>6 DEF HeldInv, OffsGone, LeaseInv, Times, Requests, Renews
  <2>3. OffsGone'
    BY <1>1, <1>2, <1>3, <2>1 DEF HeldInv, OffsGone
  <2>4. CASE Wanted /\ missed' <= Tolerated
    <3>0. /\ missed <= Tolerated
          /\ (\E request \in {renewal} : request.body = "on" /\ ~request.handled)
                 => missed' = missed + 1
          /\ (\A request \in {renewal} : ~(request.body = "on" /\ ~request.handled))
                 => missed' = missed
      BY <1>1, <2>4, LossTimes DEF GiveUp, HeldInv
    <3>1. missed <= Tolerated /\ (Renews => missed' = missed + 1) /\ (~Renews => missed' = missed)
      BY <2>2, <3>0
    <3>2. ASSUME NEW silence \in Int, Explained(silence)
          PROVE  Explained(silence)'
      <4>1. PICK cost \in Nat : cost = missed * Period
        BY LossTimes DEF HeldInv
      <4>2. PICK cost1 \in Nat : /\ cost1 = missed' * Period
                                 /\ Renews => cost1 = cost + Period
                                 /\ ~Renews => cost1 = cost
        BY <1>3, <3>1, <4>1, LossTimes DEF HeldInv
      <4>3. Explains(silence, cost, renewalTimer, Calls, Renews, call.age, elapsed)
        BY <1>4, <3>2, <4>1 DEF Explained
      <4>4. call.age \in Nat /\ renewalTimer \in Nat
        BY Measures, LeaseAssumption DEF HeldInv
      <4>5. Explains(silence, cost1, renewalTimer, Calls, FALSE, call.age, elapsed1)
        BY <4>2, <4>3, <4>4, LeaseAssumption DEF Explains
      <4> QED
        BY <1>1, <1>2, <1>4, <2>1, <4>2, <4>5 DEF Explained, Explains
    <3> QED
      BY <1>1, <1>3, <2>3, <2>4, <3>1, <3>2, HeldOn DEF HeldInv
  <2>5. CASE ~(Wanted /\ missed' <= Tolerated)
    BY <1>2, <1>3, <2>3, <2>5 DEF HeldInv, Held
  <2> QED
    BY <2>4, <2>5
<1> QED
  BY <1>5, <1>6

LEMMA TickHolds ==
    ASSUME HeldInv, LeaseInv', Tick
    PROVE  HeldInv'
<1>1. /\ MayWait(call) /\ MayWait(renewal)
      /\ lease' = IF lease > 0 THEN lease - 1 ELSE 0
      /\ strays' = {[stray EXCEPT !.age = @ + 1] : stray \in {s \in strays : s.age < Linger}}
      /\ call' = Older(call) /\ renewal' = Older(renewal)
      /\ up => renewalTimer' = renewalTimer + 1
      /\ wantedFor' = IF wantedFor < AgeCap THEN wantedFor + 1 ELSE wantedFor
      /\ UNCHANGED <<up, signal, earlier, renewalOf, missed>>
  BY DEF Tick, switchVars
<1>2. /\ call'.body = call.body /\ renewal'.body = renewal.body
      /\ call'.handled = call.handled /\ renewal'.handled = renewal.handled
      /\ call.body = "on" => call'.age = call.age + 1
  BY <1>1 DEF Older, HeldInv, LeaseInv, Times, Requests
<1>3. (Calls' <=> Calls) /\ (Renews' <=> Renews) /\ (Wanted' <=> Wanted)
  BY <1>1, <1>2 DEF Calls, Renews, OwnSignal, Wanted
<1>4. PICK since \in Nat, since1 \in Nat, left \in Nat, left1 \in Nat :
         /\ since = wantedFor /\ since1 = wantedFor' /\ since1 <= since + 1
         /\ left = lease /\ left1 = lease' /\ left <= left1 + 1
  <2>1. wantedFor \in Nat /\ lease \in 0..ValidFor /\ AgeCap \in Nat
    BY SendTimes, Measures DEF HeldInv
  <2> QED
    BY <1>1, <2>1, LeaseAssumption
<1>5. OffsGone'
  <2>1. ASSUME Wanted, NEW stray \in strays', stray.body = "off"
        PROVE  wantedFor' <= stray.age
    <3>1. PICK s \in strays : stray = [s EXCEPT !.age = @ + 1]
      BY <1>1, <2>1
    <3>2. s.age \in Nat /\ stray.age = s.age + 1 /\ stray.body = s.body
      BY <3>1, LeaseAssumption DEF HeldInv, LeaseInv, Times, Strays
    <3>3. since <= s.age
      BY <1>4, <2>1, <3>2 DEF HeldInv, OffsGone
    <3>4. since1 <= s.age + 1
      BY <1>4, <3>2, <3>3
    <3> QED
      BY <1>4, <3>2, <3>4
  <2> QED
    BY <1>2, <1>3, <2>1 DEF HeldInv, OffsGone
<1>6. CASE Wanted /\ missed <= Tolerated
  <2>1. ASSUME NEW silence \in Int, NEW longer \in Int, longer <= silence + 1, Explained(silence)
        PROVE  Explained(longer)'
    <3>1. PICK cost \in Nat : cost = missed * Period
      BY LossTimes DEF HeldInv
    <3>2. PICK timer \in Nat, age \in Nat, age1 \in Nat, elapsed \in Nat, elapsed1 \in Nat :
             /\ timer = renewalTimer /\ age = call.age /\ age1 = call'.age
             /\ elapsed = Elapsed /\ elapsed1 = Elapsed'
      BY Measures, ElapsedBounds, LeaseAssumption
         DEF HeldInv, LeaseInv, Times, Requests, Elapsed
    <3>3. /\ Calls => age1 = age + 1
          /\ Renews => elapsed1 = elapsed + 1
          /\ renewalTimer' = timer + 1
      BY <1>1, <1>2, <1>6, <3>2, ElapsedGrows DEF HeldInv, Calls, Renews, Wanted
    <3>4. Explains(silence, cost, timer, Calls, Renews, age, elapsed)
      BY <2>1, <3>1, <3>2 DEF Explained
    <3>5. Explains(longer, cost, timer + 1, Calls, Renews, age1, elapsed1)
      BY <2>1, <3>3, <3>4, LeaseAssumption DEF Explains
    <3> QED
      BY <1>1, <1>3, <3>1, <3>2, <3>3, <3>5 DEF Explained, Explains
  <2>2. /\ ValidFor - left \in Int /\ ValidFor - left1 \in Int /\ since - Linger \in Int
        /\ since1 - Linger \in Int
        /\ ValidFor - left1 <= ValidFor - left + 1 /\ since1 - Linger <= since - Linger + 1
    <3>1. left <= left1 + 1 /\ since1 <= since + 1
      BY <1>4
    <3> QED
      BY <3>1, LeaseAssumption
  <2>3. Explained(ValidFor - left) \/ Explained(since - Linger)
    BY <1>4, <1>6 DEF HeldInv, Held
  <2>4. Explained(ValidFor - left1)' \/ Explained(since1 - Linger)'
    BY <2>1, <2>2, <2>3
  <2> QED
    BY <1>1, <1>4, <1>5, <2>4 DEF HeldInv, Held
<1>7. CASE ~(Wanted /\ missed <= Tolerated)
  BY <1>1, <1>3, <1>5, <1>7 DEF HeldInv, Held
<1> QED
  BY <1>6, <1>7

\* HeldInv holds in every reachable state.
THEOREM HeldInvariant == Spec => []HeldInv
<1>1. Init => HeldInv
  <2>1. SUFFICES ASSUME Init, LeaseInv PROVE HeldInv
    BY LeaseInitially
  <2> QED
    BY <2>1 DEF Init, HeldInv, OffsGone, Held, Wanted, Quiet, Request
<1>2. LeaseInv /\ LeaseInv' /\ HeldInv /\ [Next]_vars => HeldInv'
  <2> SUFFICES ASSUME HeldInv, LeaseInv', [Next]_vars PROVE HeldInv'
    OBVIOUS
  <2>1. CASE PiHandlesCall
    BY <2>1, CallHandledHolds
  <2>2. CASE PiHandlesRenewal
    BY <2>2, RenewalHandledHolds
  <2>3. CASE PiHandlesStray
    BY <2>3, StrayHandledHolds
  <2>4. CASE \E value \in BOOLEAN : TurnTo(value)
    BY <2>4, TurnHolds
  <2>5. CASE CallEnds
    BY <2>5, CallEndHolds
  <2>6. CASE Renew
    BY <2>6, RenewHolds
  <2>7. CASE RenewalSendEnds
    BY <2>7, RenewalEndHolds
  <2>8. CASE Reload
    BY <2>8, ReloadHolds
  <2>9. CASE Stop
    BY <2>9, StopHolds
  <2>10. CASE Start
    BY <2>10, StartHolds
  <2>11. CASE Dump \/ UNCHANGED vars
    <3>1. UNCHANGED <<lease, strays, up, signal, call, renewal, earlier, renewalOf, renewalTimer,
                      wantedFor, missed>>
      BY <2>11 DEF Dump, vars, switchVars, renewalVars
    <3> QED
      BY <3>1 DEF HeldInv, OffsGone, Held, Wanted, Explained, Calls, Renews, Elapsed, OwnSignal
  <2>12. CASE Tick
    BY <2>12, TickHolds
  <2> QED
    BY <2>1, <2>2, <2>3, <2>4, <2>5, <2>6, <2>7, <2>8, <2>9, <2>10, <2>11, <2>12 DEF Next
<1> QED
  BY <1>1, <1>2, LeaseInvariant, PTL DEF Spec

\* A signal that stays on keeps its lease on the Pi, for every length of lease,
\* period and timeout, although up to Tolerated requests for it in a row are
\* lost, late or overtaken, and across reloads.
THEOREM KeepsWanted == Spec => []WantedLeaseHolds
<1>1. HeldInv => WantedLeaseHolds
  <2>1. SUFFICES ASSUME HeldInv, Wanted, wantedFor > GraceTime, missed <= Tolerated
                 PROVE  lease > 0
    BY DEF WantedLeaseHolds
  <2>2. PICK cost \in Nat, most \in Nat :
            cost = missed * Period /\ most = Tolerated * Period /\ cost <= most
    BY <2>1, LossTimes DEF HeldInv
  <2>3. ASSUME NEW silence \in Int, Explained(silence)
        PROVE  silence <= cost + Period + RenewalTime
    <3>1. Explains(silence, cost, renewalTimer, Calls, Renews, call.age, Elapsed)
      BY <2>2, <2>3 DEF Explained
    <3>2. /\ renewalTimer \in 0..Period /\ Calls \in BOOLEAN /\ Renews \in BOOLEAN
          /\ call.age \in 0..Timeout /\ Elapsed \in Nat /\ Elapsed <= RenewalTime
          /\ Renews => renewalTimer <= Elapsed
      BY <2>1, Measures DEF HeldInv
    <3> QED
      BY <3>1, <3>2, SilenceBound
  <2>4. lease \in Nat /\ wantedFor \in Nat
    BY <2>1, Measures, LeaseAssumption DEF HeldInv
  <2>5. PICK silence \in {ValidFor - lease, wantedFor - Linger} :
            silence \in Int /\ silence <= most + Period + RenewalTime
    <3>1. ValidFor - lease \in Int /\ wantedFor - Linger \in Int
      BY <2>4, LeaseAssumption
    <3>2. Explained(ValidFor - lease) \/ Explained(wantedFor - Linger)
      BY <2>1 DEF HeldInv, Held
    <3>3. \A silence \in Int : silence <= cost + Period + RenewalTime
                                   => silence <= most + Period + RenewalTime
      BY <2>2, LossTimes, LeaseAssumption
    <3> QED
      BY <2>3, <3>1, <3>2, <3>3
  <2>6. most + Period + RenewalTime < ValidFor /\ GraceTime = Linger + most + Period + RenewalTime
    BY <2>2, LossTimes
  <2>7. CASE silence = ValidFor - lease
    BY <2>4, <2>5, <2>6, <2>7, LossTimes, LeaseAssumption
  <2>8. CASE silence = wantedFor - Linger
    BY <2>1, <2>2, <2>4, <2>5, <2>6, <2>8, LossTimes, LeaseAssumption
  <2> QED
    BY <2>5, <2>7, <2>8
<1> QED
  BY <1>1, HeldInvariant, PTL

-----------------------------------------------------------------------------
\* What TypeOK says beyond Times: the histories stay within their caps.
Capped ==
    /\ stored \in {"on", "off", "unavailable"}
    /\ wantedFor \in 0..AgeCap
    /\ missed \in 0..(Tolerated + 1)

\* A signal that changes or not keeps its history within the cap.
LEMMA CapsKeep ==
    ASSUME Capped
    PROVE  /\ \A on : SetInForce(on) => wantedFor' \in 0..AgeCap
           /\ \A S, on : GiveUp(S, on) => missed' \in 0..(Tolerated + 1)
           /\ \A body : Handle(body) => missed' \in 0..(Tolerated + 1)
<1>1. AgeCap \in Nat /\ Tolerated \in Nat
  BY SendTimes, LossTimes
<1>2. ASSUME NEW on, SetInForce(on) PROVE wantedFor' \in 0..AgeCap
  BY <1>1, <1>2 DEF SetInForce, Capped
<1>3. ASSUME NEW S, NEW on, GiveUp(S, on) PROVE missed' \in 0..(Tolerated + 1)
  BY <1>1, <1>3 DEF GiveUp, Capped
<1>4. ASSUME NEW body, Handle(body) PROVE missed' \in 0..(Tolerated + 1)
  BY <1>1, <1>4 DEF Handle, Capped
<1> QED
  BY <1>2, <1>3, <1>4

\* Every variable keeps its type, and the histories their caps.
THEOREM TypeCorrect == Spec => []TypeOK
<1>1. Init => Capped
  BY SendTimes, LossTimes DEF Init, Capped
<1>2. Capped /\ [Next]_vars => Capped'
  <2> SUFFICES ASSUME Capped, [Next]_vars PROVE Capped'
    OBVIOUS
  <2>1. CASE PiHandlesCall
    BY <2>1, CapsKeep DEF PiHandlesCall, switchVars, Capped
  <2>2. CASE PiHandlesRenewal
    BY <2>2, CapsKeep DEF PiHandlesRenewal, switchVars, Capped
  <2>3. CASE PiHandlesStray
    BY <2>3, CapsKeep DEF PiHandlesStray, switchVars, Capped
  <2>4. ASSUME NEW value \in BOOLEAN, TurnTo(value) PROVE Capped'
    BY <2>4, CapsKeep DEF TurnTo, Capped
  <2>5. CASE CallEnds
    BY <2>5, CapsKeep DEF CallEnds, switchVars, Capped
  <2>6. CASE Renew
    BY <2>6 DEF Renew, switchVars, Capped
  <2>7. CASE RenewalSendEnds
    BY <2>7, CapsKeep DEF RenewalSendEnds, switchVars, Capped
  <2>8. CASE Reload
    BY <2>8, CapsKeep DEF Reload, SetUp, Displays, OnOff, Capped
  <2>9. CASE Stop
    BY <2>9, CapsKeep DEF Stop, Displays, OnOff, Capped
  <2>10. CASE Start
    BY <2>10, CapsKeep DEF Start, SetUp, Capped
  <2>11. CASE Dump
    BY <2>11 DEF Dump, Displays, OnOff, Capped
  <2>12. CASE Tick
    BY <2>12, SendTimes DEF Tick, switchVars, Capped
  <2>13. CASE UNCHANGED vars
    BY <2>13 DEF vars, switchVars, Capped
  <2> QED
    BY <2>1, <2>2, <2>3, <2>4, <2>5, <2>6, <2>7, <2>8, <2>9, <2>10, <2>11, <2>12, <2>13 DEF Next
<1>3. LeaseInv /\ Capped => TypeOK
  BY DEF LeaseInv, Times, Strays, Capped, TypeOK
<1> QED
  BY <1>1, <1>2, <1>3, LeaseInvariant, PTL DEF Spec
=============================================================================
