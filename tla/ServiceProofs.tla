--------------------------- MODULE ServiceProofs ----------------------------
(***************************************************************************)
(* Theorems about RpcCall, for every set of requests and lanes and every   *)
(* policy: the probe of a half-open breaker, the end of a request, and the *)
(* books of its retry budget; and about ServiceGroup, for every list of    *)
(* services: what a successful run means, and the order of its shutdown.   *)
(***************************************************************************)
EXTENDS RpcCall, ServiceGroup, BreakerProofs, FiniteSetTheorems

-----------------------------------------------------------------------------
(***************************************************************************)
(* RpcCall                                                                 *)
(***************************************************************************)

(* The inductive invariant.  What a call knows of budgets and statuses plays *)
(* no part in it: a call is known by its fields.                             *)

IsCall(k) ==
    /\ k = [at |-> k.at, permit |-> k.permit, attempt |-> k.attempt, seen |-> k.seen,
            allocated |-> k.allocated, status |-> k.status, delay |-> k.delay]
    /\ k.permit \in Permits /\ k.attempt \in Nat

RpcTypeOK ==
    /\ breaker \in Breakers
    /\ DOMAIN call = Calls /\ call = [c \in Calls |-> call[c]]
    /\ \A c \in Calls : IsCall(call[c])

IdleWithout == \A c \in Calls : call[c].at = "idle" => call[c].permit = None

\* What ProbeIsCarried says, without a cardinality.
OneProbe ==
    /\ breaker.phase = "half_open" <=> \E c \in Calls : call[c].permit = "probe"
    /\ \A c, d \in Calls : call[c].permit = "probe" /\ call[d].permit = "probe" => c = d

RpcInv == RpcTypeOK /\ IdleWithout /\ OneProbe

LEMMA IdleIsCall ==
    /\ IsCall(IdleCall)
    /\ IdleCall.at = "idle" /\ IdleCall.permit = None /\ IdleCall.attempt = 0
BY Zenon DEF IsCall, IdleCall, Permits

LEMMA RpcInitInv == Init => RpcInv
<1> SUFFICES ASSUME Init PROVE RpcInv
  BY Zenon
<1>1. breaker \in Breakers /\ breaker.phase = "closed"
  BY Zenon DEF Init, ClosedBreaker, Breakers, Time
<1>2. \A c \in Calls : call[c] = IdleCall
  BY Zenon DEF Init
<1>3. RpcTypeOK
  BY <1>1, <1>2, IdleIsCall, Zenon DEF Init, RpcTypeOK
<1>4. IdleWithout /\ OneProbe
  BY <1>1, <1>2, IdleIsCall, BreakerConstants, Zenon DEF IdleWithout, OneProbe
<1> QED
  BY <1>3, <1>4, Zenon DEF RpcInv

-----------------------------------------------------------------------------
(* The fields of a call *)

\* The call n is k as far as the invariant looks at it.
Same(k, n) ==
    IsCall(n) /\ n.at = k.at /\ n.permit = k.permit /\ n.attempt = k.attempt

LEMMA OtherFields ==
    ASSUME NEW k, IsCall(k), NEW v
    PROVE  /\ Same(k, [k EXCEPT !.seen = v]) /\ Same(k, [k EXCEPT !.allocated = v])
           /\ Same(k, [k EXCEPT !.status = v]) /\ Same(k, [k EXCEPT !.delay = v])
<1>1. Same(k, [k EXCEPT !.seen = v])
  BY DEF Same, IsCall
<1>2. Same(k, [k EXCEPT !.allocated = v])
  BY DEF Same, IsCall
<1>3. Same(k, [k EXCEPT !.status = v])
  BY DEF Same, IsCall
<1>4. Same(k, [k EXCEPT !.delay = v])
  BY DEF Same, IsCall
<1> QED
  BY <1>1, <1>2, <1>3, <1>4, Zenon

LEMMA SameTwice == \A k, m, n : Same(k, m) /\ Same(m, n) => Same(k, n)
BY Zenon DEF Same

LEMMA AtField ==
    ASSUME NEW k, IsCall(k), NEW v
    PROVE  LET n == [k EXCEPT !.at = v]
           IN  IsCall(n) /\ n.at = v /\ n.permit = k.permit /\ n.attempt = k.attempt
BY DEF IsCall

LEMMA PermitField ==
    ASSUME NEW k, IsCall(k), NEW v \in Permits
    PROVE  LET n == [k EXCEPT !.permit = v]
           IN  IsCall(n) /\ n.at = k.at /\ n.permit = v /\ n.attempt = k.attempt
BY DEF IsCall

LEMMA AttemptField ==
    ASSUME NEW k, IsCall(k), NEW v \in Nat
    PROVE  LET n == [k EXCEPT !.attempt = v]
           IN  IsCall(n) /\ n.at = k.at /\ n.permit = k.permit /\ n.attempt = v
BY DEF IsCall

-----------------------------------------------------------------------------
(* The kinds of step *)

OthersStay(c) ==
    /\ DOMAIN call' = Calls /\ call' = [d \in Calls |-> call'[d]]
    /\ \A d \in Calls : d # c => call'[d] = call[d]

\* A call goes on with the permit that it has, in the attempt that it is in.
GoesOn(c) ==
    /\ OthersStay(c) /\ breaker' = breaker
    /\ call[c].at # "idle" /\ call'[c].at # "idle"
    /\ IsCall(call'[c])
    /\ call'[c].permit = call[c].permit /\ call'[c].attempt = call[c].attempt

\* Retries: the request has not ended, and its time is not up.
GoesOnAgain(c) ==
    /\ OthersStay(c) /\ breaker' = breaker
    /\ call[c].at # "idle" /\ call'[c].at # "idle"
    /\ IsCall(call'[c])
    /\ call'[c].permit = call[c].permit
    /\ ~ctx[c[1]].cancelled /\ ctx[c[1]].deadline # 0

\* A call that only moves on.
LEMMA MoveGoesOn ==
    ASSUME RpcTypeOK, NEW c \in Calls, NEW place, place # "idle", call[c].at # "idle",
           breaker' = breaker, NEW n, Same([call[c] EXCEPT !.at = place], n),
           call' = [call EXCEPT ![c] = n]
    PROVE  GoesOn(c)
<1>1. IsCall(call[c])
  BY Zenon DEF RpcTypeOK
<1>2. /\ IsCall(n)
      /\ n.at = place /\ n.permit = call[c].permit /\ n.attempt = call[c].attempt
  BY <1>1, AtField DEF Same
<1>3. OthersStay(c) /\ call'[c] = n
  BY Zenon DEF OthersStay, RpcTypeOK
<1> QED
  BY <1>2, <1>3, Zenon DEF GoesOn

LEMMA StartGoesOn == ASSUME RpcTypeOK, NEW c \in Calls, Start(c) PROVE GoesOn(c)
<1> DEFINE n == [call[c] EXCEPT !.at = "attempt"]
<1>1. call[c].at # "idle" /\ breaker' = breaker /\ call' = [call EXCEPT ![c] = n]
  BY Zenon DEF Start
<1>2. Same(n, n)
  BY AtField, Zenon DEF RpcTypeOK, Same
<1> QED
  BY <1>1, <1>2, MoveGoesOn, Zenon

LEMMA ReadBudgetGoesOn == ASSUME RpcTypeOK, NEW c \in Calls, ReadBudget(c) PROVE GoesOn(c)
<1> DEFINE n1 == [call[c] EXCEPT !.at = "delegate"]
           n2 == [n1 EXCEPT !.seen = ctx[c[1]].budget]
<1>1. call[c].at # "idle" /\ breaker' = breaker
  BY Zenon DEF ReadBudget
<1>2. call' = [call EXCEPT ![c] = n2]
  BY Zenon DEF ReadBudget, RpcTypeOK
<1>3. IsCall(n1)
  BY AtField, Zenon DEF RpcTypeOK
<1> HIDE DEF n1
<1>4. Same(n1, n2)
  BY <1>3, OtherFields, Zenon
<1> HIDE DEF n2
<1> QED
  BY <1>1, <1>2, <1>4, MoveGoesOn, Zenon DEF n1

LEMMA TakeShareGoesOn == ASSUME RpcTypeOK, NEW c \in Calls, TakeShare(c) PROVE GoesOn(c)
<1> DEFINE a  == Taken(ctx[c[1]].budget, call[c].seen \div 2)
           n1 == [call[c] EXCEPT !.at = "flight"]
           n2 == [n1 EXCEPT !.allocated = a]
           n3 == [n2 EXCEPT !.seen = 0]
<1>1. call[c].at # "idle" /\ breaker' = breaker
  BY Zenon DEF TakeShare
<1>2. call' = [call EXCEPT ![c] = n3]
  <2> HIDE DEF a
  <2> QED
    BY Zenon DEF TakeShare, RpcTypeOK, a
<1>3. IsCall(n1)
  BY AtField, Zenon DEF RpcTypeOK
<1> HIDE DEF n1, a
<1>4. Same(n1, n2)
  BY <1>3, OtherFields, Zenon
<1> HIDE DEF n2
<1>5. IsCall(n2)
  BY <1>4, Zenon DEF Same
<1>6. Same(n2, n3)
  BY <1>5, OtherFields, Zenon
<1> HIDE DEF n3
<1> QED
  BY <1>1, <1>2, <1>4, <1>6, SameTwice, MoveGoesOn, Zenon DEF n1

\* The answer of a server, or that there is none.
LEMMA AnsweredGoesOn ==
    ASSUME RpcTypeOK, NEW c \in Calls, NEW status, call[c].at = "flight", breaker' = breaker,
           call' = [call EXCEPT ![c].at = "answered", ![c].allocated = 0, ![c].status = status]
    PROVE  GoesOn(c)
<1> DEFINE n1 == [call[c] EXCEPT !.at = "answered"]
           n2 == [n1 EXCEPT !.allocated = 0]
           n3 == [n2 EXCEPT !.status = status]
<1>1. call' = [call EXCEPT ![c] = n3]
  BY Zenon DEF RpcTypeOK
<1>2. IsCall(n1)
  BY AtField, Zenon DEF RpcTypeOK
<1> HIDE DEF n1
<1>3. Same(n1, n2)
  BY <1>2, OtherFields, Zenon
<1> HIDE DEF n2
<1>4. IsCall(n2)
  BY <1>3, Zenon DEF Same
<1>5. Same(n2, n3)
  BY <1>4, OtherFields, Zenon
<1> HIDE DEF n3
<1>6. call[c].at # "idle"
  BY Zenon
<1> QED
  BY <1>1, <1>3, <1>5, <1>6, SameTwice, MoveGoesOn, Zenon DEF n1

LEMMA EndWithGoesOn ==
    ASSUME RpcTypeOK, NEW c \in Calls, NEW status, call[c].at # "idle", breaker' = breaker,
           EndWith(c, status)
    PROVE  GoesOn(c)
<1> DEFINE n1 == [call[c] EXCEPT !.at = "end"]
           n2 == [n1 EXCEPT !.status = status]
<1>1. call' = [call EXCEPT ![c] = n2]
  BY Zenon DEF EndWith, RpcTypeOK
<1>2. IsCall(n1)
  BY AtField, Zenon DEF RpcTypeOK
<1> HIDE DEF n1
<1>3. Same(n1, n2)
  BY <1>2, OtherFields, Zenon
<1> HIDE DEF n2
<1> QED
  BY <1>1, <1>3, MoveGoesOn, Zenon DEF n1

LEMMA ScheduleGoesOn ==
    ASSUME RpcTypeOK, NEW c \in Calls, NEW delay, Schedule(c, delay)
    PROVE  GoesOn(c)
<1> DEFINE n1 == [call[c] EXCEPT !.at = "sleep"]
           n2 == [n1 EXCEPT !.delay = delay]
<1>1. call[c].at # "idle" /\ breaker' = breaker
  BY Zenon DEF Schedule
<1>2. \/ \E status : EndWith(c, status)
      \/ call' = [call EXCEPT ![c].at = "sleep", ![c].delay = delay]
  BY Zenon DEF Schedule
<1>3. CASE \E status : EndWith(c, status)
  BY <1>1, <1>3, EndWithGoesOn, Zenon
<1>4. CASE call' = [call EXCEPT ![c].at = "sleep", ![c].delay = delay]
  <2>1. call' = [call EXCEPT ![c] = n2]
    BY <1>4, Zenon DEF RpcTypeOK
  <2>2. IsCall(n1)
    BY AtField, Zenon DEF RpcTypeOK
  <2> HIDE DEF n1
  <2>3. Same(n1, n2)
    BY <2>2, OtherFields, Zenon
  <2> HIDE DEF n2
  <2> QED
    BY <1>1, <2>1, <2>3, MoveGoesOn, Zenon DEF n1
<1> QED
  BY <1>2, <1>3, <1>4, Zenon

\* What ContextStatus lets pass has not ended.
LEMMA GoingOn ==
    ASSUME NEW r, ContextStatus(r, 0) = None
    PROVE  ~ctx[r].cancelled /\ ctx[r].deadline # 0
<1>1. None # "cancelled" /\ None # "transient" /\ None # 0
  BY NoneIsNoStatus, NoneIsNoTime DEF Statuses
<1> QED
  BY <1>1 DEF ContextStatus

LEMMA WakeGoesOn ==
    ASSUME RpcTypeOK, NEW c \in Calls, Wake(c)
    PROVE  GoesOn(c) \/ GoesOnAgain(c)
<1> DEFINE n1 == [call[c] EXCEPT !.at = "attempt"]
           n2 == [n1 EXCEPT !.attempt = @ + 1]
           n3 == [n2 EXCEPT !.status = "ok"]
<1>1. call[c].at # "idle" /\ breaker' = breaker
  BY Zenon DEF Wake
<1>2. \/ \E status : EndWith(c, status)
      \/ /\ ContextStatus(c[1], 0) = None
         /\ call' = [call EXCEPT ![c].at = "attempt", ![c].attempt = @ + 1, ![c].status = "ok"]
  BY Zenon DEF Wake
<1>3. CASE \E status : EndWith(c, status)
  BY <1>1, <1>3, EndWithGoesOn, Zenon
<1>4. ASSUME ContextStatus(c[1], 0) = None,
             call' = [call EXCEPT ![c].at = "attempt", ![c].attempt = @ + 1, ![c].status = "ok"]
      PROVE  GoesOnAgain(c)
  <2>1. call' = [call EXCEPT ![c] = n3]
    BY <1>4, Zenon DEF RpcTypeOK
  <2>2. IsCall(n1) /\ n1.at = "attempt" /\ n1.permit = call[c].permit
    BY AtField, Zenon DEF RpcTypeOK
  <2> HIDE DEF n1
  <2>3. n1.attempt + 1 \in Nat
    BY <2>2 DEF IsCall
  <2>4. IsCall(n2) /\ n2.at = "attempt" /\ n2.permit = call[c].permit
    BY <2>2, <2>3, AttemptField, Zenon
  <2> HIDE DEF n2
  <2>5. IsCall(n3) /\ n3.at = "attempt" /\ n3.permit = call[c].permit
    <3>1. Same(n2, n3)
      BY <2>4, OtherFields, Zenon
    <3> QED
      BY <2>4, <3>1, Zenon DEF Same
  <2> HIDE DEF n3
  <2>6. OthersStay(c) /\ call'[c] = n3
    BY <2>1, Zenon DEF OthersStay, RpcTypeOK
  <2>7. ~ctx[c[1]].cancelled /\ ctx[c[1]].deadline # 0
    BY <1>4, GoingOn, Zenon
  <2> QED
    BY <1>1, <2>5, <2>6, <2>7, Zenon DEF GoesOnAgain
<1> QED
  BY <1>2, <1>3, <1>4, Zenon

-----------------------------------------------------------------------------
(* Permits *)

\* A call that goes on carries what it carried.
LEMMA GoesOnInv ==
    ASSUME RpcInv, NEW c \in Calls, GoesOn(c) \/ GoesOnAgain(c)
    PROVE  RpcInv'
<1>1. /\ OthersStay(c) /\ breaker' = breaker /\ call'[c].at # "idle" /\ IsCall(call'[c])
      /\ call'[c].permit = call[c].permit
  BY Zenon DEF GoesOn, GoesOnAgain
<1>2. \A d \in Calls : IsCall(call'[d]) /\ call'[d].permit = call[d].permit
  BY <1>1, Zenon DEF OthersStay, RpcInv, RpcTypeOK
<1>3. RpcTypeOK'
  BY <1>1, <1>2, Zenon DEF OthersStay, RpcInv, RpcTypeOK
<1>4. IdleWithout'
  BY <1>1, Zenon DEF OthersStay, RpcInv, IdleWithout
<1>5. OneProbe'
  BY <1>1, <1>2, Zenon DEF RpcInv, OneProbe
<1> QED
  BY <1>3, <1>4, <1>5, Zenon DEF RpcInv

LEMMA AskBreakerInv ==
    ASSUME RpcInv, NEW c \in Calls, AskBreaker(c)
    PROVE  RpcInv' /\ \A d \in Calls : call'[d].attempt = call[d].attempt
<1> DEFINE given == BreakerPermit(breaker)
           n1 == [call[c] EXCEPT !.at = "start"]
           n2 == [n1 EXCEPT !.permit = given]
<1>1. /\ breaker \in Breakers /\ IsCall(call[c])
      /\ call[c].at = "idle" /\ call[c].permit = None
      /\ breaker' = BreakerAllow(breaker)
  BY Zenon DEF AskBreaker, RpcInv, RpcTypeOK, IdleWithout
<1>2. given \in Permits /\ breaker' \in Breakers
  BY <1>1, BreakerTypes, Zenon DEF Permits
<1>3. CASE given = None
  <2>1. breaker' = breaker
    BY <1>1, <1>3, AllowEffect, BreakerConstants, Zenon
  <2>2. call' = call
    BY <1>3, Zenon DEF AskBreaker
  <2> QED
    BY <2>1, <2>2, Zenon DEF RpcInv, RpcTypeOK, IdleWithout, OneProbe
<1>4. CASE given # None
  <2>1. call' = [call EXCEPT ![c] = n2]
    <3>1. call' = [call EXCEPT ![c].at = "start", ![c].permit = given]
      BY <1>4, Zenon DEF AskBreaker
    <3> HIDE DEF given
    <3> QED
      BY <3>1, Zenon DEF RpcInv, RpcTypeOK
  <2>2. IsCall(n1) /\ n1.at = "start" /\ n1.attempt = call[c].attempt
    BY <1>1, AtField, Zenon
  <2> HIDE DEF n1, given
  <2>3. IsCall(n2) /\ n2.at = "start" /\ n2.permit = given /\ n2.attempt = call[c].attempt
    BY <1>2, <2>2, PermitField, Zenon
  <2> HIDE DEF n2
  <2>4. call'[c] = n2 /\ OthersStay(c)
    BY <2>1, Zenon DEF RpcInv, RpcTypeOK, OthersStay
  <2>5. RpcTypeOK' /\ \A d \in Calls : call'[d].attempt = call[d].attempt
    BY <1>2, <2>3, <2>4, Zenon DEF RpcInv, RpcTypeOK, OthersStay
  <2>6. IdleWithout'
    BY <2>3, <2>4, Zenon DEF RpcInv, IdleWithout, OthersStay
  <2>7. OneProbe'
    <3>1. CASE given = "probe"
      <4>1. breaker.phase = "open" /\ breaker'.phase = "half_open"
        BY <1>1, <3>1, AllowEffect, Zenon DEF given
      <4>2. \A d \in Calls : call[d].permit # "probe"
        BY <4>1, Zenon DEF RpcInv, OneProbe
      <4> QED
        BY <2>3, <2>4, <3>1, <4>1, <4>2 DEF OneProbe, OthersStay
    <3>2. CASE given # "probe"
      <4>1. breaker' = breaker
        BY <1>1, <3>2, AllowEffect, Zenon DEF given
      <4>2. \A d \in Calls : call'[d].permit = "probe" <=> call[d].permit = "probe"
        BY <1>1, <2>3, <2>4, <3>2, BreakerConstants, Zenon DEF OthersStay
      <4> QED
        BY <4>1, <4>2, Zenon DEF RpcInv, OneProbe
    <3> QED
      BY <3>1, <3>2, Zenon
  <2> QED
    BY <2>5, <2>6, <2>7, Zenon DEF RpcInv
<1> QED
  BY <1>3, <1>4, Zenon

\* The end of a call, and its drop, settle its permit.
LEMMA RpcSettleInv ==
    ASSUME RpcInv, NEW c \in Calls, Finish(c) \/ DropCall(c)
    PROVE  RpcInv' /\ \A d \in Calls : ~(call'[d].attempt > call[d].attempt)
<1> DEFINE p == call[c].permit
<1>1. breaker \in Breakers /\ p \in Permits /\ call' = [call EXCEPT ![c] = IdleCall]
  BY Zenon DEF Finish, DropCall, RpcInv, RpcTypeOK, IsCall
<1>2. breaker' \in {BreakerCancel(breaker, p), BreakerFailure(breaker, p), BreakerSuccess(breaker, p)}
  BY Zenon DEF Finish, DropCall
<1>3. breaker' \in Breakers /\ HalfOpenEndsWith(breaker, breaker', p)
  BY <1>1, <1>2, BreakerTypes, SettleEffect, Zenon
<1>4. call'[c] = IdleCall /\ OthersStay(c)
  BY <1>1, Zenon DEF RpcInv, RpcTypeOK, OthersStay
<1>5. RpcTypeOK'
  BY <1>3, <1>4, IdleIsCall, Zenon DEF RpcInv, RpcTypeOK, OthersStay
<1>6. IdleWithout'
  BY <1>4, IdleIsCall, Zenon DEF RpcInv, IdleWithout, OthersStay
<1>7. \A d \in Calls : call'[d].permit = "probe" <=> call[d].permit = "probe" /\ d # c
  BY <1>4, IdleIsCall, BreakerConstants, Zenon DEF OthersStay
<1>8. OneProbe'
  BY <1>3, <1>7, Zenon DEF RpcInv, OneProbe, HalfOpenEndsWith
<1>9. \A d \in Calls : ~(call'[d].attempt > call[d].attempt)
  BY <1>4, IdleIsCall DEF OthersStay, RpcInv, RpcTypeOK, IsCall
<1> QED
  BY <1>5, <1>6, <1>8, <1>9, Zenon DEF RpcInv

LEMMA TickInv ==
    ASSUME RpcInv, Tick
    PROVE  RpcInv' /\ \A d \in Calls : call'[d].attempt = call[d].attempt
<1>1. breaker' \in Breakers /\ breaker'.phase = breaker.phase
  <2>1. breaker \in Breakers /\ None \in Permits /\ breaker' = BreakerTick(breaker)
    BY Zenon DEF RpcInv, RpcTypeOK, Tick, Permits
  <2> QED
    BY <2>1, BreakerTypes, PhaseEffect, Zenon
<1>2. \A d \in Calls : Same(call[d], call'[d])
  <2>1. SUFFICES ASSUME NEW d \in Calls PROVE Same(call[d], call'[d])
    BY Zenon
  <2> DEFINE n == [call[d] EXCEPT !.delay = CountDown(call[d].delay)]
  <2>2. call'[d] = n
    BY Zenon DEF Tick
  <2>3. IsCall(call[d])
    BY Zenon DEF RpcInv, RpcTypeOK
  <2>4. Same(call[d], n)
    BY <2>3, OtherFields, Zenon
  <2> HIDE DEF n
  <2> QED
    BY <2>2, <2>4, Zenon
<1>3. DOMAIN call' = Calls /\ call' = [d \in Calls |-> call'[d]]
  BY Zenon DEF Tick
<1> QED
  BY <1>1, <1>2, <1>3 DEF RpcInv, RpcTypeOK, IdleWithout, OneProbe, Same

-----------------------------------------------------------------------------
(* The theorems *)

LEMMA ProceedGoesOn ==
    ASSUME RpcTypeOK, NEW c \in Calls, Proceed(c), ~Finish(c)
    PROVE  GoesOn(c) \/ GoesOnAgain(c)
<1>1. CASE NoChannel(c)
  BY <1>1, AnsweredGoesOn, Zenon DEF NoChannel
<1>2. CASE Respond(c)
  BY <1>2, AnsweredGoesOn, Zenon DEF Respond, Answer
<1>3. CASE GiveUp(c)
  <2>1. call[c].at # "idle" /\ breaker' = breaker /\ EndWith(c, call[c].status)
    BY <1>3, Zenon DEF GiveUp
  <2> QED
    BY <2>1, EndWithGoesOn, Zenon
<1>4. CASE Start(c) \/ ReadBudget(c) \/ TakeShare(c)
  BY <1>4, StartGoesOn, ReadBudgetGoesOn, TakeShareGoesOn, Zenon
<1>5. CASE (\E delay \in 0..Backoff : Schedule(c, delay)) \/ Wake(c)
  BY <1>5, ScheduleGoesOn, WakeGoesOn, Zenon
<1> QED
  BY <1>1, <1>2, <1>3, <1>4, <1>5, Zenon DEF Proceed

\* A step keeps the invariant, and raises an attempt only for a request that goes on.
LEMMA InvStep ==
    ASSUME RpcInv, [Next]_vars
    PROVE  /\ RpcInv'
           /\ \A c \in Calls : call'[c].attempt > call[c].attempt
                => ~ctx[c[1]].cancelled /\ ctx[c[1]].deadline # 0
<1> DEFINE Rises == \A c \in Calls : call'[c].attempt > call[c].attempt
                      => ~ctx[c[1]].cancelled /\ ctx[c[1]].deadline # 0
<1>1. ASSUME \A d \in Calls : call'[d].attempt = call[d].attempt PROVE Rises
  BY <1>1 DEF RpcInv, RpcTypeOK, IsCall
<1>2. CASE UNCHANGED <<breaker, call>>
  <2>1. Rises
    BY <1>1, <1>2, Zenon
  <2> QED
    BY <1>2, <2>1, Zenon DEF RpcInv, RpcTypeOK, IdleWithout, OneProbe
<1>3. CASE Tick
  BY <1>1, <1>3, TickInv, Zenon
<1>4. ASSUME NEW c \in Calls, AskBreaker(c) PROVE RpcInv' /\ Rises
  BY <1>1, <1>4, AskBreakerInv, Zenon
<1>5. ASSUME NEW c \in Calls, Finish(c) \/ DropCall(c) PROVE RpcInv' /\ Rises
  BY <1>5, RpcSettleInv, Zenon
<1>6. ASSUME NEW c \in Calls, Proceed(c), ~Finish(c) PROVE RpcInv' /\ Rises
  <2>1. GoesOn(c) \/ GoesOnAgain(c)
    BY <1>6, ProceedGoesOn, Zenon DEF RpcInv
  <2>2. CASE GoesOn(c)
    <3>1. \A d \in Calls : call'[d].attempt = call[d].attempt
      BY <2>2, Zenon DEF GoesOn, OthersStay
    <3> QED
      BY <1>1, <2>2, <3>1, GoesOnInv, Zenon
  <2>3. CASE GoesOnAgain(c)
    <3>1. \A d \in Calls : d # c => call'[d].attempt = call[d].attempt
      BY <2>3, Zenon DEF GoesOnAgain, OthersStay
    <3>2. Rises
      BY <2>3, <3>1 DEF GoesOnAgain, RpcInv, RpcTypeOK, IsCall
    <3> QED
      BY <2>3, <3>2, GoesOnInv, Zenon
  <2> QED
    BY <2>1, <2>2, <2>3, Zenon
<1>7. ASSUME NEW r \in Requests, CancelRequest(r) \/ NextRequest(r) PROVE UNCHANGED <<breaker, call>>
  BY <1>7, Zenon DEF CancelRequest, NextRequest
<1>8. CASE UNCHANGED vars
  BY <1>2, <1>8, Zenon DEF vars
<1> QED
  BY <1>2, <1>3, <1>4, <1>5, <1>6, <1>7, <1>8, Zenon DEF Next

LEMMA RpcInvPreserved == RpcInv /\ [Next]_vars => RpcInv'
BY InvStep, Zenon

LEMMA InvMeans == RpcInv => ProbeIsCarried
<1> SUFFICES ASSUME RpcInv PROVE ProbeIsCarried
  BY Zenon
<1> DEFINE Carrying == {c \in Calls : call[c].permit = "probe"}
<1>1. Carrying = {} \/ \E c \in Calls : Carrying = {c}
  BY Zenon DEF RpcInv, OneProbe
<1>2. Cardinality(Carrying) = 0 \/ Cardinality(Carrying) = 1
  BY <1>1, FS_EmptySet, FS_Singleton, Zenon
<1> QED
  BY <1>2 DEF RpcInv, OneProbe, ProbeIsCarried

\* The probe of a half-open breaker is carried by exactly one call, for any number
\* of requests and of calls in each (ClientBreakerGuard).
THEOREM ProbeAlwaysCarried == Spec => []ProbeIsCarried
BY RpcInitInv, RpcInvPreserved, InvMeans, PTL DEF Spec

\* No call of a request that is cancelled, or whose time is up, starts another
\* attempt (retry_context_status before and after the backoff).
THEOREM NoAttemptAfterEnd == Spec => NoRetryAfterEnd
<1>1. RpcInv /\ [Next]_vars
      => [\A c \in Calls : call'[c].attempt > call[c].attempt
            => ~ctx[c[1]].cancelled /\ ctx[c[1]].deadline # 0]_vars
  BY InvStep, Zenon
<1> QED
  BY <1>1, RpcInitInv, RpcInvPreserved, PTL DEF Spec, NoRetryAfterEnd

-----------------------------------------------------------------------------
(* Shares of a retry budget: how their number changes with one call *)

LEMMA ShareCount ==
    ASSUME NEW l, NEW n \in Nat
    PROVE  IsFiniteSet({l} \X (1..n)) /\ Cardinality({l} \X (1..n)) = n
<1>1. IsFiniteSet({l}) /\ Cardinality({l}) = 1
  BY FS_Singleton, Zenon
<1>2. IsFiniteSet(1..n) /\ Cardinality(1..n) = n
  BY FS_Interval
<1>3. /\ IsFiniteSet({l} \X (1..n))
      /\ Cardinality({l} \X (1..n)) = Cardinality({l}) * Cardinality(1..n)
  BY <1>1, <1>2, FS_Product, Zenon
<1>4. 1 * n = n
  OBVIOUS
<1> QED
  BY <1>1, <1>2, <1>3, <1>4, Zenon

SharesBut(alloc, l) == UNION {{m} \X (1..alloc[m]) : m \in Lanes \ {l}}

LEMMA SharesSplit ==
    ASSUME NEW alloc \in [Lanes -> Nat], NEW l \in Lanes
    PROVE  /\ IsFiniteSet(SharesBut(alloc, l)) /\ IsFiniteSet(Shares(alloc))
           /\ Cardinality(Shares(alloc)) = Cardinality(SharesBut(alloc, l)) + alloc[l]
<1> DEFINE Rest == SharesBut(alloc, l)
           Own  == {l} \X (1..alloc[l])
           Each == {{m} \X (1..alloc[m]) : m \in Lanes \ {l}}
<1>1. IsFiniteSet(Lanes \ {l})
  BY RpcCallConstants, FS_Subset, Zenon
<1>2. IsFiniteSet(Each)
  <2> DEFINE f == [m \in Lanes \ {l} |-> {m} \X (1..alloc[m])]
  <2>1. f \in Surjection(Lanes \ {l}, Each)
    BY Zenon DEF Surjection
  <2> QED
    BY <1>1, <2>1, FS_Surjection, Zenon
<1>3. \A e \in Each : IsFiniteSet(e)
  <2>1. SUFFICES ASSUME NEW m \in Lanes PROVE IsFiniteSet({m} \X (1..alloc[m]))
    BY Zenon
  <2>2. alloc[m] \in Nat
    BY Zenon
  <2> QED
    BY <2>2, ShareCount, Zenon
<1>4. IsFiniteSet(Rest)
  BY <1>2, <1>3, FS_UNION, Zenon DEF SharesBut
<1>5. IsFiniteSet(Own) /\ Cardinality(Own) = alloc[l]
  BY ShareCount, Zenon
<1>6. Shares(alloc) = Rest \cup Own
  BY Zenon DEF Shares, SharesBut
<1>7. Rest \cap Own = {}
  BY DEF SharesBut
<1> HIDE DEF Rest, Own
<1>8. /\ IsFiniteSet(Rest \cup Own)
      /\ Cardinality(Rest \cup Own) = Cardinality(Rest) + Cardinality(Own) - Cardinality(Rest \cap Own)
  BY <1>4, <1>5, FS_Union, Zenon
<1>9. Cardinality(Rest) \in Nat /\ Cardinality({}) = 0
  BY <1>4, FS_CardinalityType, FS_EmptySet, Zenon
<1>10. Cardinality(Rest \cup Own) = Cardinality(Rest) + alloc[l]
  <2>1. alloc[l] \in Nat
    BY Zenon
  <2>2. Cardinality(Rest \cap Own) = 0
    BY <1>7, <1>9, Zenon
  <2>3. \A a, b \in Nat : a + b - 0 = a + b
    OBVIOUS
  <2> QED
    BY <1>5, <1>8, <1>9, <2>1, <2>2, <2>3, Zenon
<1> QED
  BY <1>4, <1>6, <1>8, <1>10, Zenon DEF Rest

\* What one call has handed out counts for itself.
LEMMA SharesChange ==
    ASSUME NEW f \in [Lanes -> Nat], NEW g \in [Lanes -> Nat], NEW l \in Lanes,
           \A m \in Lanes : m # l => g[m] = f[m]
    PROVE  /\ Cardinality(Shares(f)) \in Nat /\ Cardinality(Shares(g)) \in Nat
           /\ Cardinality(Shares(g)) + f[l] = Cardinality(Shares(f)) + g[l]
<1>1. SharesBut(g, l) = SharesBut(f, l)
  BY Zenon DEF SharesBut
<1>2. Cardinality(SharesBut(f, l)) \in Nat
  BY SharesSplit, FS_CardinalityType, Zenon
<1>3. Cardinality(Shares(f)) = Cardinality(SharesBut(f, l)) + f[l]
  BY SharesSplit, Zenon
<1>4. Cardinality(Shares(g)) = Cardinality(SharesBut(f, l)) + g[l]
  BY <1>1, SharesSplit, Zenon
<1>5. f[l] \in Nat /\ g[l] \in Nat
  BY Zenon
<1> QED
  BY <1>2, <1>3, <1>4, <1>5

LEMMA NoShares ==
    ASSUME NEW f \in [Lanes -> Nat], \A l \in Lanes : f[l] = 0
    PROVE  Cardinality(Shares(f)) = 0
<1>1. Shares(f) = {}
  BY DEF Shares
<1> QED
  BY <1>1, FS_EmptySet, Zenon

-----------------------------------------------------------------------------
(* The books of a request *)

Contexts == [budget : Time, grant : Time, cancelled : BOOLEAN, deadline : Time]

BooksTypeOK ==
    /\ ctx \in [Requests -> Contexts]
    /\ retries \in [Requests -> Nat]
    /\ \A c \in Calls : call[c].seen \in Nat /\ call[c].allocated \in Nat

\* Only a call in flight has handed out a share, and only a request with a budget
\* has calls past their start.
SharesInFlight ==
    \A c \in Calls : /\ call[c].at # "flight" => call[c].allocated = 0
                     /\ call[c].at \notin {"idle", "start"} => ctx[c[1]].budget # None

FreshWithout ==
    \A r \in Requests : /\ ctx[r].budget = None <=> ctx[r].grant = None
                        /\ ctx[r].budget = None => retries[r] = 0

BooksInv == BooksTypeOK /\ SharesInFlight /\ FreshWithout /\ BudgetConserved

LEMMA AllocatedType ==
    ASSUME BooksTypeOK, NEW r \in Requests
    PROVE  /\ Allocated(r) \in [Lanes -> Nat]
           /\ \A l \in Lanes : <<r, l>> \in Calls /\ Allocated(r)[l] = call[<<r, l>>].allocated
<1>1. \A l \in Lanes : <<r, l>> \in Calls
  BY Zenon DEF Calls
<1> QED
  BY <1>1, Zenon DEF BooksTypeOK, Allocated

\* Nothing happens to the books.
BooksStay ==
    /\ ctx' \in [Requests -> Contexts] /\ retries' = retries
    /\ \A r \in Requests : ctx'[r].budget = ctx[r].budget /\ ctx'[r].grant = ctx[r].grant
    /\ \A c \in Calls : /\ call'[c].seen = call[c].seen /\ call'[c].allocated = call[c].allocated
                        /\ \/ call'[c].at = call[c].at
                           \/ call[c].at = "idle" /\ call'[c].at = "start"

LEMMA BooksStayInv == ASSUME BooksInv, BooksStay PROVE BooksInv'
<1>1. BooksTypeOK'
  BY Zenon DEF BooksInv, BooksTypeOK, BooksStay
<1>2. SharesInFlight'
  <2>1. \A c \in Calls : c[1] \in Requests
    BY Zenon DEF Calls
  <2> QED
    BY <2>1, Zenon DEF BooksInv, SharesInFlight, BooksStay
<1>3. FreshWithout'
  BY Zenon DEF BooksInv, FreshWithout, BooksStay
<1>4. \A r \in Requests : Allocated(r)' = Allocated(r)
  <2>1. \A r \in Requests, l \in Lanes : <<r, l>> \in Calls
    BY Zenon DEF Calls
  <2> QED
    BY <2>1, Zenon DEF Allocated, BooksStay
<1>5. BudgetConserved'
  BY <1>4, Zenon DEF BooksInv, BudgetConserved, BooksStay
<1> QED
  BY <1>1, <1>2, <1>3, <1>5, Zenon DEF BooksInv

\* A call of a request that has a budget moves retries between what is left of
\* it (b), what is made (n) and what it has handed out (a).
Moves(c, b, n, a) ==
    LET r == c[1]
    IN  /\ b \in Nat /\ n \in Nat /\ a \in Nat
        /\ ctx[r].budget # None
        /\ b + n + a <= ctx[r].budget + retries[r] + call[c].allocated
        /\ ctx' \in [Requests -> Contexts]
        /\ ctx'[r].budget = b /\ ctx'[r].grant = ctx[r].grant
        /\ \A q \in Requests : q # r => ctx'[q] = ctx[q]
        /\ retries' \in [Requests -> Nat] /\ retries'[r] = n
        /\ \A q \in Requests : q # r => retries'[q] = retries[q]
        /\ OthersStay(c)
        /\ call'[c].seen \in Nat /\ call'[c].allocated = a
        /\ call'[c].at # "flight" => a = 0

LEMMA MovesInv ==
    ASSUME BooksInv, NEW c \in Calls, NEW b, NEW n, NEW a, Moves(c, b, n, a)
    PROVE  BooksInv'
<1> DEFINE r == c[1]
           l == c[2]
<1>1. r \in Requests /\ l \in Lanes /\ c = <<r, l>>
  BY DEF Calls
<1>2. /\ b \in Nat /\ n \in Nat /\ a \in Nat
      /\ ctx[r].budget # None
      /\ b + n + a <= ctx[r].budget + retries[r] + call[c].allocated
  BY Zenon DEF Moves
<1>3. /\ ctx' \in [Requests -> Contexts]
      /\ ctx'[r].budget = b /\ ctx'[r].grant = ctx[r].grant
      /\ \A q \in Requests : q # r => ctx'[q] = ctx[q]
  BY Zenon DEF Moves
<1>4. /\ retries' \in [Requests -> Nat] /\ retries'[r] = n
      /\ \A q \in Requests : q # r => retries'[q] = retries[q]
  BY Zenon DEF Moves
<1>5. /\ \A d \in Calls : d # c => call'[d] = call[d]
      /\ call'[c].seen \in Nat /\ call'[c].allocated = a
      /\ call'[c].at # "flight" => a = 0
  BY Zenon DEF Moves, OthersStay
<1> HIDE DEF r, l
<1>6. b # None
  BY <1>2, NoneIsNoTime
<1>7. BooksTypeOK'
  <2>1. \A d \in Calls : call'[d].seen \in Nat /\ call'[d].allocated \in Nat
    BY <1>2, <1>5, Zenon DEF BooksInv, BooksTypeOK
  <2> QED
    BY <1>3, <1>4, <2>1, Zenon DEF BooksTypeOK
<1>8. SharesInFlight'
  <2>1. \A d \in Calls : d[1] \in Requests /\ (d[1] = r \/ ctx'[d[1]] = ctx[d[1]])
    BY <1>3, Zenon DEF Calls
  <2>2. \A d \in Calls : ctx[d[1]].budget # None => ctx'[d[1]].budget # None
    BY <1>3, <1>6, <2>1, Zenon
  <2>3. ctx'[c[1]].budget # None
    BY <1>3, <1>6, Zenon DEF r
  <2>4. \A d \in Calls : /\ call'[d].at # "flight" => call'[d].allocated = 0
                         /\ call'[d].at \notin {"idle", "start"} => ctx'[d[1]].budget # None
    BY <1>5, <2>2, <2>3, Zenon DEF BooksInv, SharesInFlight
  <2> QED
    BY <2>4, Zenon DEF SharesInFlight
<1>9. FreshWithout'
  <2>1. ctx'[r].budget # None /\ ctx'[r].grant # None
    BY <1>1, <1>2, <1>3, <1>6, Zenon DEF BooksInv, FreshWithout
  <2> QED
    BY <1>3, <1>4, <2>1, Zenon DEF BooksInv, FreshWithout
<1>10. BudgetConserved'
  <2>1. ASSUME NEW q \in Requests, ctx'[q].budget # None
        PROVE  ctx'[q].budget + retries'[q] + Cardinality(Shares(Allocated(q)')) <= ctx'[q].grant
    <3>1. CASE q # r
      <4>1. \A m \in Lanes : <<q, m>> \in Calls /\ <<q, m>> # c
        BY <1>1, <3>1, Zenon DEF Calls
      <4>2. Allocated(q)' = Allocated(q)
        BY <1>5, <4>1, Zenon DEF Allocated
      <4> QED
        BY <1>3, <1>4, <2>1, <3>1, <4>2, Zenon DEF BooksInv, BudgetConserved
    <3>2. CASE q = r
      <4> DEFINE f == Allocated(r)
                 g == Allocated(r)'
      <4>1. /\ f \in [Lanes -> Nat] /\ g \in [Lanes -> Nat]
            /\ f[l] = call[c].allocated /\ g[l] = a
        <5>1. f \in [Lanes -> Nat] /\ f[l] = call[c].allocated
          BY <1>1, AllocatedType, Zenon DEF BooksInv
        <5>2. \A m \in Lanes : <<r, m>> \in Calls
          BY <1>1, Zenon DEF Calls
        <5>3. g \in [Lanes -> Nat] /\ g[l] = call'[c].allocated
          BY <1>1, <1>7, <5>2, Zenon DEF BooksTypeOK, Allocated
        <5> QED
          BY <1>5, <5>1, <5>3, Zenon
      <4>2. \A m \in Lanes : m # l => g[m] = f[m]
        <5>1. \A m \in Lanes : m # l => <<r, m>> \in Calls /\ <<r, m>> # c
          BY <1>1, Zenon DEF Calls
        <5> QED
          BY <1>5, <5>1, Zenon DEF Allocated
      <4> HIDE DEF f, g
      <4>3. /\ Cardinality(Shares(f)) \in Nat /\ Cardinality(Shares(g)) \in Nat
            /\ Cardinality(Shares(g)) + f[l] = Cardinality(Shares(f)) + g[l]
        BY <1>1, <4>1, <4>2, SharesChange, Zenon
      <4>4. ctx[r].budget + retries[r] + Cardinality(Shares(f)) <= ctx[r].grant
        BY <1>1, <1>2, Zenon DEF BooksInv, BudgetConserved, f
      <4>5. ctx[r].budget \in Nat /\ ctx[r].grant \in Nat /\ retries[r] \in Nat
        <5>1. ctx[r].budget \in Time /\ ctx[r].grant \in Time /\ retries[r] \in Nat
          BY <1>1, Zenon DEF BooksInv, BooksTypeOK, Contexts
        <5>2. ctx[r].grant # None
          BY <1>1, <1>2, Zenon DEF BooksInv, FreshWithout
        <5> QED
          BY <1>2, <5>1, <5>2, Zenon DEF Time
      <4>6. f[l] \in Nat
        BY <1>1, <4>1, Zenon
      <4>7. b + n + Cardinality(Shares(g)) <= ctx[r].grant
        BY <1>2, <4>1, <4>3, <4>4, <4>5, <4>6
      <4> QED
        BY <1>3, <1>4, <3>2, <4>7, Zenon DEF g
    <3> QED
      BY <3>1, <3>2, Zenon
  <2> QED
    BY <2>1, Zenon DEF BudgetConserved
<1> QED
  BY <1>7, <1>8, <1>9, <1>10, Zenon DEF BooksInv

-----------------------------------------------------------------------------
(* The fields of a call that the books look at *)

Looks(k, place, seen, allocated) ==
    IsCall(k) /\ k.at = place /\ k.seen = seen /\ k.allocated = allocated

LEMMA LooksFields ==
    ASSUME NEW k, NEW place, NEW s, NEW a, Looks(k, place, s, a), NEW v
    PROVE  /\ Looks([k EXCEPT !.at = v], v, s, a)
           /\ Looks([k EXCEPT !.seen = v], place, v, a)
           /\ Looks([k EXCEPT !.allocated = v], place, s, v)
           /\ Looks([k EXCEPT !.status = v], place, s, a)
           /\ Looks([k EXCEPT !.delay = v], place, s, a)
           /\ v \in Nat => Looks([k EXCEPT !.attempt = v], place, s, a)
           /\ v \in Permits => Looks([k EXCEPT !.permit = v], place, s, a)
<1>1. Looks([k EXCEPT !.at = v], v, s, a)
  BY DEF Looks, IsCall
<1>2. Looks([k EXCEPT !.seen = v], place, v, a)
  BY DEF Looks, IsCall
<1>3. Looks([k EXCEPT !.allocated = v], place, s, v)
  BY DEF Looks, IsCall
<1>4. Looks([k EXCEPT !.status = v], place, s, a)
  BY DEF Looks, IsCall
<1>5. Looks([k EXCEPT !.delay = v], place, s, a)
  BY DEF Looks, IsCall
<1>6. v \in Nat => Looks([k EXCEPT !.attempt = v], place, s, a)
  BY DEF Looks, IsCall
<1>7. v \in Permits => Looks([k EXCEPT !.permit = v], place, s, a)
  BY DEF Looks, IsCall
<1> QED
  BY <1>1, <1>2, <1>3, <1>4, <1>5, <1>6, <1>7, Zenon

\* The call c becomes one that looks so, and the others stay.
Becomes(c, place, seen, allocated) ==
    OthersStay(c) /\ Looks(call'[c], place, seen, allocated)

LEMMA BecomesIt ==
    ASSUME RpcTypeOK, NEW c \in Calls, NEW n, NEW place, NEW s, NEW a, Looks(n, place, s, a),
           call' = [call EXCEPT ![c] = n]
    PROVE  Becomes(c, place, s, a)
<1>1. OthersStay(c) /\ call'[c] = n
  BY Zenon DEF OthersStay, RpcTypeOK
<1> QED
  BY <1>1, Zenon DEF Becomes

LEMMA LooksNow ==
    ASSUME RpcTypeOK, NEW c \in Calls
    PROVE  Looks(call[c], call[c].at, call[c].seen, call[c].allocated)
BY Zenon DEF RpcTypeOK, Looks

-----------------------------------------------------------------------------
(* The steps of a call *)

\* What is known of a call past its start.
LEMMA Started ==
    ASSUME BooksInv, NEW c \in Calls
    PROVE  /\ c[1] \in Requests
           /\ ctx[c[1]] \in Contexts /\ retries[c[1]] \in Nat
           /\ call[c].seen \in Nat /\ call[c].allocated \in Nat
           /\ call[c].at # "flight" => call[c].allocated = 0
           /\ ctx[c[1]].budget # None => ctx[c[1]].budget \in Nat
           /\ call[c].at \notin {"idle", "start"} => ctx[c[1]].budget # None
<1>1. c[1] \in Requests
  BY Zenon DEF Calls
<1>2. ctx[c[1]] \in Contexts /\ retries[c[1]] \in Nat
  BY <1>1, Zenon DEF BooksInv, BooksTypeOK
<1>3. ctx[c[1]].budget \in Time
  BY <1>2, Zenon DEF Contexts
<1>4. ctx[c[1]].budget # None => ctx[c[1]].budget \in Nat
  BY <1>3, Zenon DEF Time
<1> QED
  BY <1>1, <1>2, <1>4, Zenon DEF BooksInv, BooksTypeOK, SharesInFlight

LEMMA SetBudgetEffect ==
    ASSUME ctx \in [Requests -> Contexts], NEW r \in Requests, NEW b \in Nat, SetBudget(r, b)
    PROVE  /\ ctx' \in [Requests -> Contexts]
           /\ ctx'[r].budget = b /\ ctx'[r].grant = ctx[r].grant
           /\ \A q \in Requests : q # r => ctx'[q] = ctx[q]
<1> DEFINE n == [ctx[r] EXCEPT !.budget = b]
<1>1. ctx' = [ctx EXCEPT ![r] = n]
  BY Zenon DEF SetBudget
<1>2. n \in Contexts /\ n.budget = b /\ n.grant = ctx[r].grant
  BY Zenon DEF Contexts, Time
<1> HIDE DEF n
<1> QED
  BY <1>1, <1>2, Zenon

\* A step that leaves the counters alone hands out nothing new.
LEMMA PlainInv ==
    ASSUME BooksInv, NEW c \in Calls, ctx' = ctx, retries' = retries,
           call[c].at \notin {"idle", "start"},
           NEW place, NEW s \in Nat, NEW a \in Nat, Becomes(c, place, s, a),
           a <= call[c].allocated, place # "flight" => a = 0
    PROVE  BooksInv'
<1> DEFINE r == c[1]
<1>1. r \in Requests /\ ctx[r].budget \in Nat /\ ctx[r].budget # None /\ retries[r] \in Nat
      /\ call[c].allocated \in Nat
  BY Started, Zenon
<1>2. ctx[r].budget + retries[r] + a <= ctx[r].budget + retries[r] + call[c].allocated
  BY <1>1
<1>3. OthersStay(c) /\ call'[c].seen = s /\ call'[c].allocated = a /\ call'[c].at = place
  BY Zenon DEF Becomes, Looks
<1>4. ctx \in [Requests -> Contexts] /\ retries \in [Requests -> Nat]
  BY Zenon DEF BooksInv, BooksTypeOK
<1>5. Moves(c, ctx[r].budget, retries[r], a)
  BY <1>1, <1>2, <1>3, <1>4, Zenon DEF Moves
<1> QED
  BY <1>5, MovesInv, Zenon

LEMMA EndWithBooks ==
    ASSUME RpcTypeOK, BooksInv, NEW c \in Calls, NEW status, ctx' = ctx, retries' = retries,
           call[c].at \in {"answered", "sleep"}, EndWith(c, status)
    PROVE  BooksInv'
<1> DEFINE n1 == [call[c] EXCEPT !.at = "end"]
           n2 == [n1 EXCEPT !.status = status]
<1>1. call' = [call EXCEPT ![c] = n2]
  BY Zenon DEF EndWith, RpcTypeOK
<1>2. Looks(n1, "end", call[c].seen, call[c].allocated)
  BY LooksNow, LooksFields, Zenon
<1> HIDE DEF n1
<1>3. Looks(n2, "end", call[c].seen, call[c].allocated)
  BY <1>2, LooksFields, Zenon
<1> HIDE DEF n2
<1>4. Becomes(c, "end", call[c].seen, call[c].allocated)
  BY <1>1, <1>3, BecomesIt, Zenon
<1>5. /\ call[c].seen \in Nat /\ call[c].allocated \in Nat
      /\ call[c].allocated = 0 /\ call[c].at \notin {"idle", "start"}
  BY Started, Zenon
<1>6. call[c].allocated <= call[c].allocated
  BY <1>5
<1> QED
  BY <1>4, <1>5, <1>6, PlainInv, Zenon

LEMMA ReadBudgetBooks ==
    ASSUME RpcTypeOK, BooksInv, NEW c \in Calls, ReadBudget(c)
    PROVE  BooksInv'
<1> DEFINE b  == ctx[c[1]].budget
           n1 == [call[c] EXCEPT !.at = "delegate"]
           n2 == [n1 EXCEPT !.seen = b]
<1>1. ctx' = ctx /\ retries' = retries /\ call[c].at = "attempt"
  BY Zenon DEF ReadBudget
<1>2. call' = [call EXCEPT ![c] = n2]
  BY Zenon DEF ReadBudget, RpcTypeOK
<1>3. b \in Nat /\ call[c].allocated = 0 /\ call[c].at \notin {"idle", "start"}
  BY <1>1, Started, Zenon
<1> HIDE DEF b
<1>4. Looks(n1, "delegate", call[c].seen, call[c].allocated)
  BY LooksNow, LooksFields, Zenon
<1> HIDE DEF n1
<1>5. Looks(n2, "delegate", b, call[c].allocated)
  BY <1>4, LooksFields, Zenon
<1> HIDE DEF n2
<1>6. Becomes(c, "delegate", b, 0)
  BY <1>2, <1>3, <1>5, BecomesIt, Zenon
<1>7. 0 \in Nat /\ 0 <= call[c].allocated
  BY <1>3
<1> QED
  BY <1>1, <1>3, <1>6, <1>7, PlainInv, Zenon

\* take_retry_budget_up_to: what is taken is missing.
LEMMA TakenEffect ==
    ASSUME NEW b \in Nat, NEW m \in Nat
    PROVE  /\ Taken(b, m) \in Nat /\ LeftOver(b, m) \in Nat
           /\ LeftOver(b, m) + Taken(b, m) = b
<1>1. b # None
  BY NoneIsNoTime
<1> QED
  BY <1>1 DEF Taken, LeftOver, AtMost

\* What comes back is at most what was handed out and not spent.
LEMMA RestoreEffect ==
    ASSUME NEW b \in Nat, NEW a \in Nat, NEW spent \in 0..a, NEW reported \in Reports(a, spent)
    PROVE  LET left == Restore(b, AtMost(reported, a))
           IN  left \in Nat /\ left + spent <= b + a
<1> DEFINE m == AtMost(reported, a)
<1>1. b # None
  BY NoneIsNoTime
<1>2. MaxPropagated \in Nat
  BY RetryBudgetConstants, Zenon
<1>3. reported \in Nat /\ (spent # 0 => reported <= a - spent)
  BY <1>2 DEF Reports
<1>4. m \in Nat /\ m + spent <= a
  BY <1>3 DEF AtMost
<1> HIDE DEF m
<1>5. Restore(b, m) \in Nat /\ Restore(b, m) <= b + m
  BY <1>1, <1>2, <1>4 DEF Restore, AtMost
<1> QED
  BY <1>4, <1>5 DEF m

LEMMA TakeShareBooks ==
    ASSUME RpcTypeOK, BooksInv, NEW c \in Calls, TakeShare(c)
    PROVE  BooksInv'
<1> DEFINE r  == c[1]
           b  == ctx[r].budget
           h  == call[c].seen \div 2
           a  == Taken(b, h)
           n1 == [call[c] EXCEPT !.at = "flight"]
           n2 == [n1 EXCEPT !.allocated = a]
           n3 == [n2 EXCEPT !.seen = 0]
<1>1. /\ call[c].at = "delegate" /\ retries' = retries
      /\ SetBudget(r, LeftOver(b, h))
  BY Zenon DEF TakeShare
<1>2. call' = [call EXCEPT ![c] = n3]
  <2> HIDE DEF a
  <2> QED
    BY Zenon DEF TakeShare, RpcTypeOK, a
<1>3. /\ r \in Requests /\ b \in Nat /\ b # None /\ retries[r] \in Nat
      /\ call[c].seen \in Nat /\ call[c].allocated = 0
  BY <1>1, Started, Zenon
<1>4. h \in Nat
  BY <1>3
<1> HIDE DEF b, h
<1>5. a \in Nat /\ LeftOver(b, h) \in Nat /\ LeftOver(b, h) + a = b
  BY <1>3, <1>4, TakenEffect, Zenon
<1> HIDE DEF a
<1>6. Looks(n1, "flight", call[c].seen, call[c].allocated)
  BY LooksNow, LooksFields, Zenon
<1> HIDE DEF n1
<1>7. Looks(n2, "flight", call[c].seen, a)
  BY <1>6, LooksFields, Zenon
<1> HIDE DEF n2
<1>8. Looks(n3, "flight", 0, a)
  BY <1>7, LooksFields, Zenon
<1> HIDE DEF n3
<1>9. Becomes(c, "flight", 0, a)
  BY <1>2, <1>8, BecomesIt, Zenon
<1>10. /\ ctx' \in [Requests -> Contexts]
       /\ ctx'[r].budget = LeftOver(b, h) /\ ctx'[r].grant = ctx[r].grant
       /\ \A q \in Requests : q # r => ctx'[q] = ctx[q]
  BY <1>1, <1>3, <1>5, SetBudgetEffect, Zenon DEF BooksInv, BooksTypeOK
<1>11. LeftOver(b, h) + retries[r] + a <= b + retries[r] + call[c].allocated
  BY <1>3, <1>5
<1>12. /\ OthersStay(c) /\ call'[c].seen \in Nat /\ call'[c].allocated = a
       /\ call'[c].at = "flight"
  BY <1>9 DEF Becomes, Looks
<1>13. retries \in [Requests -> Nat]
  BY Zenon DEF BooksInv, BooksTypeOK
<1>14. Moves(c, LeftOver(b, h), retries[r], a)
  BY <1>1, <1>3, <1>5, <1>10, <1>11, <1>12, <1>13, Zenon DEF Moves, b
<1> QED
  BY <1>14, MovesInv, Zenon

\* The answer of a server, or that there is none: the call has nothing out.
LEMMA AnsweredBecomes ==
    ASSUME RpcTypeOK, NEW c \in Calls, NEW status,
           call' = [call EXCEPT ![c].at = "answered", ![c].allocated = 0, ![c].status = status]
    PROVE  Becomes(c, "answered", call[c].seen, 0)
<1> DEFINE n1 == [call[c] EXCEPT !.at = "answered"]
           n2 == [n1 EXCEPT !.allocated = 0]
           n3 == [n2 EXCEPT !.status = status]
<1>1. call' = [call EXCEPT ![c] = n3]
  BY Zenon DEF RpcTypeOK
<1>2. Looks(n1, "answered", call[c].seen, call[c].allocated)
  BY LooksNow, LooksFields, Zenon
<1> HIDE DEF n1
<1>3. Looks(n2, "answered", call[c].seen, 0)
  BY <1>2, LooksFields, Zenon
<1> HIDE DEF n2
<1>4. Looks(n3, "answered", call[c].seen, 0)
  BY <1>3, LooksFields, Zenon
<1> HIDE DEF n3
<1> QED
  BY <1>1, <1>4, BecomesIt, Zenon

LEMMA NoChannelBooks ==
    ASSUME RpcTypeOK, BooksInv, NEW c \in Calls, NoChannel(c)
    PROVE  BooksInv'
<1>1. call[c].at = "flight" /\ ctx' = ctx /\ retries' = retries
  BY Zenon DEF NoChannel
<1>2. Becomes(c, "answered", call[c].seen, 0)
  BY AnsweredBecomes, Zenon DEF NoChannel
<1>3. /\ 0 \in Nat /\ call[c].seen \in Nat /\ 0 <= call[c].allocated
      /\ call[c].at \notin {"idle", "start"}
  BY <1>1, Started
<1> QED
  BY <1>1, <1>2, <1>3, PlainInv, Zenon

LEMMA AnswerBooks ==
    ASSUME RpcTypeOK, BooksInv, NEW c \in Calls, NEW status, NEW spent \in 0..call[c].allocated,
           NEW reported \in Reports(call[c].allocated, spent), Answer(c, status, spent, reported)
    PROVE  BooksInv'
<1> DEFINE r == c[1]
           b == ctx[r].budget
           a == call[c].allocated
           left == Restore(b, AtMost(reported, a))
<1>1. /\ call[c].at = "flight" /\ SetBudget(r, left)
      /\ retries' = [retries EXCEPT ![r] = @ + spent]
  BY Zenon DEF Answer
<1>2. Becomes(c, "answered", call[c].seen, 0)
  BY AnsweredBecomes, Zenon DEF Answer
<1>3. /\ r \in Requests /\ b \in Nat /\ b # None /\ retries[r] \in Nat
      /\ call[c].seen \in Nat /\ a \in Nat
  BY <1>1, Started, Zenon
<1>4. left \in Nat /\ left + spent <= b + a
  BY <1>3, RestoreEffect, Zenon
<1> HIDE DEF left
<1>5. /\ ctx' \in [Requests -> Contexts]
      /\ ctx'[r].budget = left /\ ctx'[r].grant = ctx[r].grant
      /\ \A q \in Requests : q # r => ctx'[q] = ctx[q]
  BY <1>1, <1>3, <1>4, SetBudgetEffect, Zenon DEF BooksInv, BooksTypeOK
<1>6. retries[r] + spent \in Nat /\ left + (retries[r] + spent) + 0 <= b + retries[r] + a
  BY <1>3, <1>4
<1>7. /\ retries' \in [Requests -> Nat] /\ retries'[r] = retries[r] + spent
      /\ \A q \in Requests : q # r => retries'[q] = retries[q]
  BY <1>1, <1>3, <1>6, Zenon DEF BooksInv, BooksTypeOK
<1>8. /\ OthersStay(c) /\ call'[c].seen = call[c].seen /\ call'[c].allocated = 0
  BY <1>2, Zenon DEF Becomes, Looks
<1>9. Moves(c, left, retries[r] + spent, 0)
  <2>1. 0 \in Nat
    BY Zenon
  <2> QED
    BY <1>3, <1>4, <1>5, <1>6, <1>7, <1>8, <2>1, Zenon DEF Moves
<1> QED
  BY <1>9, MovesInv, Zenon

LEMMA ScheduleBooks ==
    ASSUME RpcTypeOK, BooksInv, NEW c \in Calls, NEW delay, Schedule(c, delay)
    PROVE  BooksInv'
<1> DEFINE n1 == [call[c] EXCEPT !.at = "sleep"]
           n2 == [n1 EXCEPT !.delay = delay]
<1>1. call[c].at = "answered" /\ ctx' = ctx /\ retries' = retries
  BY Zenon DEF Schedule
<1>2. \/ \E status : EndWith(c, status)
      \/ call' = [call EXCEPT ![c].at = "sleep", ![c].delay = delay]
  BY Zenon DEF Schedule
<1>3. CASE \E status : EndWith(c, status)
  BY <1>1, <1>3, EndWithBooks, Zenon
<1>4. CASE call' = [call EXCEPT ![c].at = "sleep", ![c].delay = delay]
  <2>1. call' = [call EXCEPT ![c] = n2]
    BY <1>4, Zenon DEF RpcTypeOK
  <2>2. Looks(n1, "sleep", call[c].seen, call[c].allocated)
    BY LooksNow, LooksFields, Zenon
  <2> HIDE DEF n1
  <2>3. Looks(n2, "sleep", call[c].seen, call[c].allocated)
    BY <2>2, LooksFields, Zenon
  <2> HIDE DEF n2
  <2>4. Becomes(c, "sleep", call[c].seen, call[c].allocated)
    BY <2>1, <2>3, BecomesIt, Zenon
  <2>5. /\ call[c].seen \in Nat /\ call[c].allocated \in Nat
        /\ call[c].allocated = 0 /\ call[c].at \notin {"idle", "start"}
    BY <1>1, Started, Zenon
  <2>6. call[c].allocated <= call[c].allocated
    BY <2>5
  <2> QED
    BY <1>1, <2>4, <2>5, <2>6, PlainInv, Zenon
<1> QED
  BY <1>2, <1>3, <1>4, Zenon

\* A retry is taken from the budget before it is made (try_consume_retry_budget).
LEMMA WakeBooks ==
    ASSUME RpcTypeOK, BooksInv, NEW c \in Calls, Wake(c)
    PROVE  BooksInv'
<1> DEFINE r  == c[1]
           b  == ctx[r].budget
           n1 == [call[c] EXCEPT !.at = "attempt"]
           n2 == [n1 EXCEPT !.attempt = @ + 1]
           n3 == [n2 EXCEPT !.status = "ok"]
<1>1. call[c].at = "sleep"
  BY Zenon DEF Wake
<1>2. \/ (\E status : EndWith(c, status)) /\ UNCHANGED <<ctx, retries>>
      \/ /\ Consumable(b) /\ SetBudget(r, Consume(b))
         /\ retries' = [retries EXCEPT ![r] = @ + 1]
         /\ call' = [call EXCEPT ![c].at = "attempt", ![c].attempt = @ + 1, ![c].status = "ok"]
  BY Zenon DEF Wake
<1>3. CASE (\E status : EndWith(c, status)) /\ UNCHANGED <<ctx, retries>>
  BY <1>1, <1>3, EndWithBooks, Zenon
<1>4. ASSUME Consumable(b), SetBudget(r, Consume(b)), retries' = [retries EXCEPT ![r] = @ + 1],
             call' = [call EXCEPT ![c].at = "attempt", ![c].attempt = @ + 1, ![c].status = "ok"]
      PROVE  BooksInv'
  <2>1. /\ r \in Requests /\ b \in Nat /\ b # None /\ retries[r] \in Nat
        /\ call[c].seen \in Nat /\ call[c].allocated = 0
    BY <1>1, Started, Zenon
  <2>2. Consume(b) = b - 1 /\ b - 1 \in Nat
    BY <1>4, <2>1 DEF Consumable, Consume
  <2>3. /\ ctx' \in [Requests -> Contexts]
        /\ ctx'[r].budget = b - 1 /\ ctx'[r].grant = ctx[r].grant
        /\ \A q \in Requests : q # r => ctx'[q] = ctx[q]
    BY <1>4, <2>1, <2>2, SetBudgetEffect, ZenonT(30) DEF BooksInv, BooksTypeOK
  <2>4. /\ retries' \in [Requests -> Nat] /\ retries'[r] = retries[r] + 1
        /\ \A q \in Requests : q # r => retries'[q] = retries[q]
    BY <1>4, <2>1 DEF BooksInv, BooksTypeOK
  <2>5. call' = [call EXCEPT ![c] = n3]
    BY <1>4, Zenon DEF RpcTypeOK
  <2>6. Looks(n1, "attempt", call[c].seen, call[c].allocated)
    BY LooksNow, LooksFields, Zenon
  <2> HIDE DEF n1
  <2>7. n1.attempt + 1 \in Nat
    BY <2>6 DEF Looks, IsCall
  <2>8. Looks(n2, "attempt", call[c].seen, call[c].allocated)
    BY <2>6, <2>7, LooksFields, Zenon
  <2> HIDE DEF n2
  <2>9. Looks(n3, "attempt", call[c].seen, call[c].allocated)
    BY <2>8, LooksFields, Zenon
  <2> HIDE DEF n3
  <2>10. Becomes(c, "attempt", call[c].seen, 0)
    BY <2>1, <2>5, <2>9, BecomesIt, Zenon
  <2>11. OthersStay(c) /\ call'[c].seen = call[c].seen /\ call'[c].allocated = 0
    BY <2>10, Zenon DEF Becomes, Looks
  <2> HIDE DEF b
  <2>12. /\ 0 \in Nat /\ retries[r] + 1 \in Nat
         /\ (b - 1) + (retries[r] + 1) + 0 <= b + retries[r] + call[c].allocated
    BY <2>1, <2>2
  <2>13. Moves(c, b - 1, retries[r] + 1, 0)
    BY <2>1, <2>2, <2>3, <2>4, <2>11, <2>12, Zenon DEF Moves, b
  <2> QED
    BY <2>13, MovesInv, Zenon
<1> QED
  BY <1>2, <1>3, <1>4, Zenon

LEMMA SettleBooks ==
    ASSUME RpcTypeOK, BooksInv, NEW c \in Calls, Finish(c) \/ DropCall(c)
    PROVE  BooksInv'
<1>1. /\ ctx' = ctx /\ retries' = retries /\ call[c].at \notin {"idle", "start"}
      /\ call' = [call EXCEPT ![c] = IdleCall]
  BY Zenon DEF Finish, DropCall
<1>2. Looks(IdleCall, "idle", 0, 0)
  BY IdleIsCall, Zenon DEF Looks, IdleCall
<1>3. Becomes(c, "idle", 0, 0)
  BY <1>1, <1>2, BecomesIt, Zenon
<1>4. 0 \in Nat /\ 0 <= call[c].allocated
  BY Started
<1> QED
  BY <1>1, <1>3, <1>4, PlainInv, Zenon

\* A request without calls past their start has handed out nothing.
LEMMA NothingOut ==
    ASSUME BooksInv, NEW r \in Requests, \A l \in Lanes : call[<<r, l>>].at # "flight"
    PROVE  Cardinality(Shares(Allocated(r))) = 0
<1>1. /\ Allocated(r) \in [Lanes -> Nat]
      /\ \A l \in Lanes : <<r, l>> \in Calls /\ Allocated(r)[l] = call[<<r, l>>].allocated
  BY AllocatedType, Zenon DEF BooksInv
<1>2. \A l \in Lanes : Allocated(r)[l] = 0
  BY <1>1, Zenon DEF BooksInv, SharesInFlight
<1> QED
  BY <1>1, <1>2, NoShares, Zenon

\* The books of r begin, with a budget or without, while nothing is handed out.
Begins(r) ==
    /\ ctx' \in [Requests -> Contexts] /\ ctx'[r].budget = ctx'[r].grant
    /\ \A q \in Requests : q # r => ctx'[q] = ctx[q]
    /\ retries' \in [Requests -> Nat] /\ retries'[r] = 0
    /\ \A q \in Requests : q # r => retries'[q] = retries[q]
    /\ \A c \in Calls : /\ call'[c].seen \in Nat /\ call'[c].allocated = call[c].allocated
                        /\ c[1] # r => call'[c].at = call[c].at
    /\ \A l \in Lanes : /\ call[<<r, l>>].at # "flight"
                        /\ ctx'[r].budget = None => call'[<<r, l>>].at = "idle"

LEMMA BeginInv == ASSUME BooksInv, NEW r \in Requests, Begins(r) PROVE BooksInv'
<1> USE DEF Begins
<1>0. \A c \in Calls : c[1] \in Requests /\ c[2] \in Lanes /\ c = <<c[1], c[2]>>
  BY DEF Calls
<1>1. BooksTypeOK'
  BY Zenon DEF BooksInv, BooksTypeOK
<1>2. SharesInFlight'
  <2>1. ASSUME NEW c \in Calls
        PROVE  /\ call'[c].at # "flight" => call'[c].allocated = 0
               /\ call'[c].at \notin {"idle", "start"} => ctx'[c[1]].budget # None
    <3>1. CASE c[1] = r
      <4>1. call[c].at # "flight"
        BY <1>0, <3>1
      <4>2. call'[c].allocated = 0
        BY <4>1, Zenon DEF BooksInv, SharesInFlight
      <4>3. ctx'[r].budget = None => call'[c].at = "idle"
        BY <1>0, <3>1
      <4> QED
        BY <3>1, <4>2, <4>3, Zenon
    <3>2. CASE c[1] # r
      BY <1>0, <3>2, Zenon DEF BooksInv, SharesInFlight
    <3> QED
      BY <3>1, <3>2, Zenon
  <2> QED
    BY <2>1, Zenon DEF SharesInFlight
<1>3. FreshWithout'
  BY DEF BooksInv, FreshWithout
<1>4. \A q \in Requests : Allocated(q)' = Allocated(q)
  <2>1. \A q \in Requests, l \in Lanes : <<q, l>> \in Calls
    BY Zenon DEF Calls
  <2> QED
    BY <2>1, Zenon DEF Allocated
<1>5. BudgetConserved'
  <2>1. ASSUME NEW q \in Requests, ctx'[q].budget # None
        PROVE  ctx'[q].budget + retries'[q] + Cardinality(Shares(Allocated(q)')) <= ctx'[q].grant
    <3>1. CASE q # r
      BY <1>4, <2>1, <3>1, Zenon DEF BooksInv, BudgetConserved
    <3>2. CASE q = r
      <4>1. Cardinality(Shares(Allocated(r)')) = 0
        BY <1>4, NothingOut, Zenon
      <4>2. ctx'[r].budget \in Nat
        <5>1. ctx'[r].budget \in Time
          BY Zenon DEF Contexts
        <5> QED
          BY <2>1, <3>2, <5>1, Zenon DEF Time
      <4> QED
        BY <3>2, <4>1, <4>2
    <3> QED
      BY <3>1, <3>2, Zenon
  <2> QED
    BY <2>1, Zenon DEF BudgetConserved
<1> QED
  BY <1>1, <1>2, <1>3, <1>5, Zenon DEF BooksInv

\* ensure_retry_budget: the first call of a request without a budget gives it one.
LEMMA StartBooks ==
    ASSUME RpcTypeOK, BooksInv, NEW c \in Calls, Start(c)
    PROVE  BooksInv'
<1> DEFINE r  == c[1]
           b  == EnsureBudget(ctx[r].budget, MaxRetries)
           m1 == [ctx[r] EXCEPT !.budget = b]
           m2 == [m1 EXCEPT !.grant = IF @ = None THEN b ELSE @]
           n  == [call[c] EXCEPT !.at = "attempt"]
<1>1. /\ call[c].at = "start" /\ retries' = retries
      /\ call' = [call EXCEPT ![c] = n]
  BY Zenon DEF Start
<1>2. /\ r \in Requests /\ ctx[r] \in Contexts /\ retries[r] \in Nat
      /\ call[c].seen \in Nat /\ call[c].allocated = 0
      /\ ctx[r].budget # None => ctx[r].budget \in Nat
  BY <1>1, Started, Zenon
<1>3. ctx' = [ctx EXCEPT ![r] = m2]
  <2> HIDE DEF b
  <2> QED
    BY <1>2, ZenonT(30) DEF Start, b, BooksInv, BooksTypeOK
<1>4. /\ b \in Nat /\ b # None
      /\ ctx[r].budget # None => b = ctx[r].budget
  BY <1>2, NoneIsNoTime, RetryBudgetConstants, RpcCallConstants DEF EnsureBudget, AtMost
<1> HIDE DEF b
<1>5. /\ m1 \in Contexts /\ m1.budget = b /\ m1.grant = ctx[r].grant
  BY <1>2, <1>4, Zenon DEF Contexts, Time
<1> HIDE DEF m1
<1>6. /\ m2 \in Contexts /\ m2.budget = b
      /\ m2.grant = IF ctx[r].grant = None THEN b ELSE ctx[r].grant
  BY <1>4, <1>5, Zenon DEF Contexts, Time
<1> HIDE DEF m2
<1>7. /\ ctx' \in [Requests -> Contexts] /\ ctx'[r] = m2
      /\ \A q \in Requests : q # r => ctx'[q] = ctx[q]
  BY <1>2, <1>3, <1>6, Zenon DEF BooksInv, BooksTypeOK
<1>8. Looks(n, "attempt", call[c].seen, call[c].allocated)
  BY LooksNow, LooksFields, Zenon
<1> HIDE DEF n
<1>9. Becomes(c, "attempt", call[c].seen, 0)
  BY <1>1, <1>2, <1>8, BecomesIt, Zenon
<1>10. OthersStay(c) /\ call'[c].seen = call[c].seen /\ call'[c].allocated = 0
  BY <1>9, Zenon DEF Becomes, Looks
<1>11. retries \in [Requests -> Nat]
  BY Zenon DEF BooksInv, BooksTypeOK
<1>12. CASE ctx[r].budget # None
  <2>1. ctx'[r].budget = b /\ ctx'[r].grant = ctx[r].grant /\ b = ctx[r].budget
    BY <1>2, <1>4, <1>6, <1>7, <1>12, Zenon DEF BooksInv, FreshWithout
  <2>2. 0 \in Nat /\ b + retries[r] + 0 <= b + retries[r] + call[c].allocated
    BY <1>2, <1>4
  <2>3. Moves(c, b, retries[r], 0)
    BY <1>1, <1>2, <1>4, <1>7, <1>10, <1>11, <1>12, <2>1, <2>2, Zenon DEF Moves
  <2> QED
    BY <2>3, MovesInv, Zenon
<1>13. CASE ctx[r].budget = None
  <2>1. ctx[r].grant = None /\ retries[r] = 0
    BY <1>2, <1>13, Zenon DEF BooksInv, FreshWithout
  <2>2. ctx'[r].budget = b /\ ctx'[r].grant = b
    BY <1>6, <1>7, <2>1, Zenon
  <2>3. \A d \in Calls : /\ call'[d].seen \in Nat /\ call'[d].allocated = call[d].allocated
                         /\ d[1] # r => call'[d].at = call[d].at
    BY <1>2, <1>10 DEF OthersStay, BooksInv, BooksTypeOK
  <2>4. \A l \in Lanes : call[<<r, l>>].at # "flight"
    <3>1. \A l \in Lanes : <<r, l>> \in Calls /\ <<r, l>>[1] = r
      BY <1>2, Zenon DEF Calls
    <3> QED
      BY <1>13, <3>1, Zenon DEF BooksInv, SharesInFlight
  <2>5. Begins(r)
    BY <1>1, <1>4, <1>7, <1>11, <2>1, <2>2, <2>3, <2>4, Zenon DEF Begins
  <2> QED
    BY <1>2, <2>5, BeginInv, Zenon
<1> QED
  BY <1>12, <1>13, Zenon

LEMMA NewContextType ==
    ASSUME NEW new \in NewContexts
    PROVE  new \in Contexts /\ new.budget = new.grant
<1>1. PICK g \in {IF g = None THEN None ELSE AtMost(g, MaxPropagated) : g \in Grants},
           d \in Deadlines :
         new = [budget |-> g, grant |-> g, cancelled |-> FALSE, deadline |-> d]
  BY DEF NewContexts
<1>2. g \in Time /\ d \in Time
  BY RpcCallConstants, RetryBudgetConstants, Zenon DEF Time, AtMost
<1> QED
  BY <1>1, <1>2, Zenon DEF Contexts

LEMMA NextRequestBooks ==
    ASSUME RpcTypeOK, BooksInv, NEW r \in Requests, NextRequest(r)
    PROVE  BooksInv'
<1>1. /\ \A l \in Lanes : call[<<r, l>>].at = "idle"
      /\ retries' = [retries EXCEPT ![r] = 0] /\ call' = call
  BY Zenon DEF NextRequest
<1>2. PICK new \in NewContexts : ctx' = [ctx EXCEPT ![r] = new]
  BY Zenon DEF NextRequest
<1>3. new \in Contexts /\ new.budget = new.grant
  BY NewContextType, Zenon
<1>4. /\ ctx' \in [Requests -> Contexts] /\ ctx'[r] = new
      /\ \A q \in Requests : q # r => ctx'[q] = ctx[q]
  BY <1>2, <1>3, Zenon DEF BooksInv, BooksTypeOK
<1>5. /\ retries' \in [Requests -> Nat] /\ retries'[r] = 0
      /\ \A q \in Requests : q # r => retries'[q] = retries[q]
  BY <1>1, Zenon DEF BooksInv, BooksTypeOK
<1>6. \A c \in Calls : call[c].seen \in Nat
  BY Zenon DEF BooksInv, BooksTypeOK
<1>7. \A l \in Lanes : call[<<r, l>>].at # "flight"
  BY <1>1, Zenon
<1>8. Begins(r)
  BY <1>1, <1>3, <1>4, <1>5, <1>6, <1>7, Zenon DEF Begins
<1> QED
  BY <1>8, BeginInv, Zenon

-----------------------------------------------------------------------------
(* Steps that leave the books alone *)

LEMMA AskBreakerBooks ==
    ASSUME RpcTypeOK, BooksInv, NEW c \in Calls, AskBreaker(c)
    PROVE  BooksInv'
<1> DEFINE given == BreakerPermit(breaker)
           n1 == [call[c] EXCEPT !.at = "start"]
           n2 == [n1 EXCEPT !.permit = given]
<1>1. call[c].at = "idle" /\ ctx' = ctx /\ retries' = retries
  BY Zenon DEF AskBreaker
<1>2. given \in Permits
  BY BreakerTypes, Zenon DEF RpcTypeOK, Permits
<1>3. call' = call \/ call' = [call EXCEPT ![c].at = "start", ![c].permit = given]
  BY Zenon DEF AskBreaker
<1>4. \A d \in Calls : /\ call'[d].seen = call[d].seen /\ call'[d].allocated = call[d].allocated
                       /\ \/ call'[d].at = call[d].at
                          \/ call[d].at = "idle" /\ call'[d].at = "start"
  <2>1. CASE call' = call
    BY <2>1, Zenon
  <2>2. CASE call' = [call EXCEPT ![c].at = "start", ![c].permit = given]
    <3> HIDE DEF given
    <3>1. call' = [call EXCEPT ![c] = n2]
      BY <2>2, Zenon DEF RpcTypeOK
    <3>2. Looks(n1, "start", call[c].seen, call[c].allocated)
      BY LooksNow, LooksFields, Zenon
    <3> HIDE DEF n1
    <3>3. Looks(n2, "start", call[c].seen, call[c].allocated)
      BY <1>2, <3>2, LooksFields, Zenon
    <3> HIDE DEF n2
    <3>4. Becomes(c, "start", call[c].seen, call[c].allocated)
      BY <3>1, <3>3, BecomesIt, Zenon
    <3> QED
      BY <1>1, <3>4, Zenon DEF Becomes, Looks, OthersStay
  <2> QED
    BY <1>3, <2>1, <2>2, Zenon
<1>5. ctx \in [Requests -> Contexts]
  BY Zenon DEF BooksInv, BooksTypeOK
<1>6. BooksStay
  BY <1>1, <1>4, <1>5, Zenon DEF BooksStay
<1> QED
  BY <1>6, BooksStayInv, Zenon

LEMMA CancelRequestBooks ==
    ASSUME BooksInv, NEW r \in Requests, CancelRequest(r)
    PROVE  BooksInv'
<1> DEFINE n == [ctx[r] EXCEPT !.cancelled = TRUE]
<1>1. ctx' = [ctx EXCEPT ![r] = n] /\ call' = call /\ retries' = retries
  BY Zenon DEF CancelRequest
<1>2. ctx \in [Requests -> Contexts]
  BY Zenon DEF BooksInv, BooksTypeOK
<1>3. n \in Contexts /\ n.budget = ctx[r].budget /\ n.grant = ctx[r].grant
  <2>1. ctx[r] \in Contexts
    BY <1>2, Zenon
  <2> QED
    BY <2>1, Zenon DEF Contexts
<1> HIDE DEF n
<1>4. /\ ctx' \in [Requests -> Contexts]
      /\ \A q \in Requests : ctx'[q].budget = ctx[q].budget /\ ctx'[q].grant = ctx[q].grant
  BY <1>1, <1>2, <1>3, Zenon
<1>5. BooksStay
  BY <1>1, <1>4, Zenon DEF BooksStay
<1> QED
  BY <1>5, BooksStayInv, Zenon

LEMMA TickBooks ==
    ASSUME RpcTypeOK, BooksInv, Tick
    PROVE  BooksInv'
<1>1. retries' = retries
  BY Zenon DEF Tick
<1>2. \A r \in Requests : /\ ctx'[r] \in Contexts
                          /\ ctx'[r].budget = ctx[r].budget /\ ctx'[r].grant = ctx[r].grant
  <2>1. SUFFICES ASSUME NEW r \in Requests
                 PROVE  /\ ctx'[r] \in Contexts
                        /\ ctx'[r].budget = ctx[r].budget /\ ctx'[r].grant = ctx[r].grant
    BY Zenon
  <2> DEFINE t == CountDown(ctx[r].deadline)
             n == [ctx[r] EXCEPT !.deadline = t]
  <2>2. ctx'[r] = n
    BY Zenon DEF Tick
  <2>3. ctx[r] \in Contexts
    BY Zenon DEF BooksInv, BooksTypeOK
  <2>4. t \in Time
    <3>1. ctx[r].deadline \in Time
      BY <2>3, Zenon DEF Contexts
    <3> QED
      BY <3>1 DEF Time, CountDown
  <2> HIDE DEF t
  <2>5. n \in Contexts /\ n.budget = ctx[r].budget /\ n.grant = ctx[r].grant
    BY <2>3, <2>4, Zenon DEF Contexts
  <2> QED
    BY <2>2, <2>5, Zenon
<1>3. ctx' \in [Requests -> Contexts]
  <2>1. ctx' = [r \in Requests |-> ctx'[r]]
    BY Zenon DEF Tick
  <2> QED
    BY <1>2, <2>1, Zenon
<1>4. \A d \in Calls : Looks(call'[d], call[d].at, call[d].seen, call[d].allocated)
  <2>1. SUFFICES ASSUME NEW d \in Calls
                 PROVE  Looks(call'[d], call[d].at, call[d].seen, call[d].allocated)
    BY Zenon
  <2> DEFINE n == [call[d] EXCEPT !.delay = CountDown(call[d].delay)]
  <2>2. call'[d] = n
    BY Zenon DEF Tick
  <2>3. Looks(n, call[d].at, call[d].seen, call[d].allocated)
    BY LooksNow, LooksFields, Zenon
  <2> HIDE DEF n
  <2> QED
    BY <2>2, <2>3, Zenon
<1>5. BooksStay
  BY <1>1, <1>2, <1>3, <1>4, Zenon DEF BooksStay, Looks
<1> QED
  BY <1>5, BooksStayInv, Zenon

-----------------------------------------------------------------------------
(* The theorem *)

LEMMA InitBooks == Init => BooksInv
<1> SUFFICES ASSUME Init PROVE BooksInv
  BY Zenon
<1>1. /\ ctx \in [Requests -> NewContexts] /\ retries = [r \in Requests |-> 0]
      /\ \A c \in Calls : call[c] = IdleCall
  BY Zenon DEF Init
<1>2. IdleCall.at = "idle" /\ IdleCall.seen = 0 /\ IdleCall.allocated = 0
  BY Zenon DEF IdleCall
<1>3. \A r \in Requests : ctx[r] \in Contexts /\ ctx[r].budget = ctx[r].grant
  BY <1>1, NewContextType, Zenon
<1>4. BooksTypeOK
  BY <1>1, <1>2, <1>3 DEF BooksTypeOK
<1>5. SharesInFlight /\ FreshWithout
  BY <1>1, <1>2, <1>3, Zenon DEF SharesInFlight, FreshWithout
<1>6. BudgetConserved
  <2>1. ASSUME NEW r \in Requests, ctx[r].budget # None
        PROVE  ctx[r].budget + retries[r] + Cardinality(Shares(Allocated(r))) <= ctx[r].grant
    <3>1. /\ Allocated(r) \in [Lanes -> Nat]
          /\ \A l \in Lanes : <<r, l>> \in Calls /\ Allocated(r)[l] = call[<<r, l>>].allocated
      BY <1>4, AllocatedType, Zenon
    <3>2. Cardinality(Shares(Allocated(r))) = 0
      BY <1>1, <1>2, <3>1, NoShares, Zenon
    <3>3. ctx[r].budget \in Nat /\ retries[r] = 0
      <4>1. ctx[r].budget \in Time /\ retries[r] = 0
        BY <1>1, <1>3, Zenon DEF Contexts
      <4> QED
        BY <2>1, <4>1, Zenon DEF Time
    <3> QED
      BY <1>3, <3>2, <3>3
  <2> QED
    BY <2>1, Zenon DEF BudgetConserved
<1> QED
  BY <1>4, <1>5, <1>6, Zenon DEF BooksInv

LEMMA BooksStep ==
    ASSUME RpcTypeOK, BooksInv, [Next]_vars
    PROVE  BooksInv'
<1>1. CASE Tick
  BY <1>1, TickBooks, Zenon
<1>2. ASSUME NEW c \in Calls, AskBreaker(c) \/ Finish(c) \/ DropCall(c) PROVE BooksInv'
  BY <1>2, AskBreakerBooks, SettleBooks, Zenon
<1>3. ASSUME NEW c \in Calls, Start(c) \/ ReadBudget(c) \/ TakeShare(c) \/ NoChannel(c) PROVE BooksInv'
  BY <1>3, StartBooks, ReadBudgetBooks, TakeShareBooks, NoChannelBooks, Zenon
<1>4. ASSUME NEW c \in Calls, Respond(c) PROVE BooksInv'
  BY <1>4, AnswerBooks, Zenon DEF Respond
<1>5. ASSUME NEW c \in Calls, GiveUp(c) PROVE BooksInv'
  <2>1. /\ call[c].at \in {"answered", "sleep"} /\ EndWith(c, call[c].status)
        /\ ctx' = ctx /\ retries' = retries
    BY <1>5, Zenon DEF GiveUp
  <2> QED
    BY <2>1, EndWithBooks, Zenon
<1>6. ASSUME NEW c \in Calls, (\E delay \in 0..Backoff : Schedule(c, delay)) \/ Wake(c) PROVE BooksInv'
  BY <1>6, ScheduleBooks, WakeBooks, Zenon
<1>7. ASSUME NEW r \in Requests, CancelRequest(r) \/ NextRequest(r) PROVE BooksInv'
  BY <1>7, CancelRequestBooks, NextRequestBooks, Zenon
<1>8. CASE UNCHANGED vars
  <2>1. BooksStay
    BY <1>8, Zenon DEF vars, BooksStay, BooksInv, BooksTypeOK
  <2> QED
    BY <2>1, BooksStayInv, Zenon
<1> QED
  BY <1>1, <1>2, <1>3, <1>4, <1>5, <1>6, <1>7, <1>8, Zenon DEF Next, Proceed

\* What is left of the budget of a request, what its calls have handed to servers
\* and the retries made never exceed what it began with, for any number of
\* requests, of calls at the same time, and any policy (delegate_retry_budget,
\* reconcile_delegated_retry_budget, try_consume_retry_budget).
THEOREM BudgetAlwaysConserved == Spec => []BudgetConserved
<1>1. RpcInv /\ BooksInv /\ [Next]_vars => BooksInv'
  BY BooksStep, Zenon DEF RpcInv
<1>2. BooksInv => BudgetConserved
  BY Zenon DEF BooksInv
<1> QED
  BY <1>1, <1>2, RpcInitInv, RpcInvPreserved, InitBooks, PTL DEF Spec

-----------------------------------------------------------------------------
(***************************************************************************)
(* ServiceGroup                                                            *)
(***************************************************************************)

(* The inductive invariant *)

GroupPlaces ==
    {"new", "ready", "serve", "drain", "stop", "abort", "join", "settle", "ok", "err"}

GroupTypeOK ==
    /\ at \in GroupPlaces /\ hook \in 0..N
    /\ task \in [Services -> {"none", "running", "ok", "err"}]
    /\ joined \in SUBSET Services
    /\ errors \in BOOLEAN /\ told \in BOOLEAN
    /\ drained \in SUBSET Services

\* A task that was joined has ended, and when it failed the group knows.
JoinedEnded == \A s \in joined : task[s] = "ok" \/ (task[s] = "err" /\ errors)

\* The group comes to its last marks with every task joined, or with an error.
SettledAll ==
    /\ at = "new" => joined = {} /\ ~errors
    /\ at = "settle" => joined = Services \/ errors
    /\ at = "ok" => joined = Services /\ ~errors

\* The services drained so far, when all went well, are the last ones.
DrainedLast ==
    /\ \A s \in drained, t \in Services : t > s => t \in drained
    /\ at \in {"new", "serve"} => hook = 0
    /\ at \in {"new", "ready", "serve"} => drained = {} /\ ~told
    /\ at = "drain" => ~told /\ (drained = {s \in Services : s > N - hook} \/ (hook = N /\ errors))
    /\ told => drained = Services \/ errors

GroupInv == GroupTypeOK /\ JoinedEnded /\ SettledAll /\ DrainedLast

LEMMA GroupInitInv == GroupInit => GroupInv
<1> SUFFICES ASSUME GroupInit PROVE GroupInv
  BY Zenon
<1>1. hook \in 0..N
  BY GroupConstants DEF GroupInit
<1>2. GroupTypeOK
  BY <1>1, Zenon DEF GroupInit, GroupTypeOK, GroupPlaces
<1> QED
  BY <1>2, Zenon DEF GroupInit, GroupInv, JoinedEnded, SettledAll, DrainedLast

\* The services that as many hooks have drained.
LEMMA LastServices ==
    /\ {s \in Services : s > N - 0} = {}
    /\ {s \in Services : s > N - N} = Services
BY GroupConstants DEF Services

\* With no service left to wait for, all of them were joined.
LEMMA NoneActive ==
    ASSUME GroupTypeOK
    PROVE  /\ Active \in Nat
           /\ ~(Active > 0) => joined = Services
<1>1. IsFiniteSet(Services) /\ Cardinality(Services) = N
  BY GroupConstants, FS_Interval DEF Services
<1>2. /\ IsFiniteSet(joined) /\ Cardinality(joined) <= Cardinality(Services)
      /\ Cardinality(Services) = Cardinality(joined) => Services = joined
  BY <1>1, FS_Subset, Zenon DEF GroupTypeOK
<1>3. Cardinality(joined) \in Nat
  BY <1>2, FS_CardinalityType, Zenon
<1> QED
  BY <1>1, <1>2, <1>3, GroupConstants DEF Active

-----------------------------------------------------------------------------
(* Every step keeps the invariant *)

\* What a round of hooks does, wherever it runs.
LEMMA HookEffect ==
    ASSUME GroupTypeOK, NEW place, RunHook(place)
    PROVE  /\ hook' \in 0..N /\ errors' \in BOOLEAN /\ (errors => errors')
           /\ hook < N /\ (hook' = hook + 1 \/ (hook' = N /\ errors'))
<1>1. hook \in 0..N /\ errors \in BOOLEAN
  BY Zenon DEF GroupTypeOK
<1>2. hook < N /\ (hook' = hook + 1 \/ (hook' = N /\ errors'))
  BY Zenon DEF RunHook
<1>3. errors' = errors \/ errors' = TRUE
  BY Zenon DEF RunHook
<1>4. hook < N /\ (hook' = hook + 1 \/ hook' = N)
  BY <1>2, Zenon
<1>5. hook' \in 0..N
  BY <1>1, <1>4, GroupConstants
<1>6. errors' \in BOOLEAN /\ (errors => errors')
  BY <1>1, <1>3, Zenon
<1> QED
  BY <1>2, <1>5, <1>6, Zenon

LEMMA HookReadyInv == ASSUME GroupInv, HookReady PROVE GroupInv'
<1>1. /\ hook' \in 0..N /\ errors' \in BOOLEAN /\ (errors => errors') /\ at = "ready"
      /\ UNCHANGED <<at, task, joined, told, drained>>
  BY HookEffect, Zenon DEF HookReady, GroupInv, RunHook
<1> QED
  BY <1>1, Zenon DEF GroupInv, GroupTypeOK, JoinedEnded, SettledAll, DrainedLast

LEMMA HookStopInv == ASSUME GroupInv, HookStop PROVE GroupInv'
<1>1. /\ hook' \in 0..N /\ errors' \in BOOLEAN /\ (errors => errors') /\ at = "stop"
      /\ UNCHANGED <<at, task, joined, told, drained>>
  BY HookEffect, Zenon DEF HookStop, GroupInv, RunHook
<1> QED
  BY <1>1, Zenon DEF GroupInv, GroupTypeOK, JoinedEnded, SettledAll, DrainedLast

LEMMA HookDrainInv == ASSUME GroupInv, HookDrain PROVE GroupInv'
<1>1. /\ hook' \in 0..N /\ errors' \in BOOLEAN /\ (errors => errors') /\ at = "drain"
      /\ hook < N /\ (hook' = hook + 1 \/ (hook' = N /\ errors'))
      /\ drained' = IF hook' = hook + 1 THEN drained \cup {N - hook} ELSE drained
      /\ UNCHANGED <<at, task, joined, told>>
  BY HookEffect, Zenon DEF HookDrain, GroupInv, RunHook
<1>2. /\ hook \in 0..N /\ N \in Nat /\ Services = 1..N /\ ~told
      /\ drained = {s \in Services : s > N - hook}
  <2>1. hook \in 0..N /\ N \in Nat /\ Services = 1..N
    BY GroupConstants, Zenon DEF GroupInv, GroupTypeOK, Services
  <2>2. ~told /\ drained = {s \in Services : s > N - hook}
    BY <1>1, <2>1 DEF GroupInv, DrainedLast
  <2> QED
    BY <2>1, <2>2, Zenon
<1>3. drained' \in SUBSET Services
  BY <1>1, <1>2
<1>4. GroupTypeOK' /\ JoinedEnded' /\ SettledAll'
  BY <1>1, <1>3, Zenon DEF GroupInv, GroupTypeOK, JoinedEnded, SettledAll
<1>5. CASE hook' = hook + 1
  <2>1. drained' = {s \in Services : s > N - hook'}
    BY <1>1, <1>2, <1>5
  <2> QED
    BY <1>1, <1>2, <1>4, <2>1, Zenon DEF GroupInv, DrainedLast
<1>6. CASE hook' = N /\ errors' /\ hook' # hook + 1
  BY <1>1, <1>2, <1>4, <1>6, Zenon DEF GroupInv, DrainedLast
<1> QED
  BY <1>1, <1>5, <1>6, Zenon

LEMMA SpawnInv == ASSUME GroupInv, SpawnServices PROVE GroupInv'
<1>1. UNCHANGED <<hook, joined, errors, told, drained>> /\ at = "new"
  BY Zenon DEF SpawnServices
<1>2. joined = {} /\ ~errors /\ drained = {} /\ ~told
  BY <1>1, Zenon DEF GroupInv, SettledAll, DrainedLast
<1>3. CASE N = 0
  <2>1. at' = "ok" /\ task' = task /\ Services = {}
    BY <1>3 DEF SpawnServices, Services
  <2> QED
    BY <1>1, <1>2, <2>1, Zenon DEF GroupInv, GroupTypeOK, GroupPlaces, JoinedEnded, SettledAll, DrainedLast
<1>4. CASE N # 0
  <2>1. at' = "ready" /\ task' = [s \in Services |-> "running"]
    BY <1>4, Zenon DEF SpawnServices
  <2> QED
    BY <1>1, <1>2, <2>1, Zenon DEF GroupInv, GroupTypeOK, GroupPlaces, JoinedEnded, SettledAll, DrainedLast
<1> QED
  BY <1>3, <1>4, Zenon

LEMMA AfterReadyInv == ASSUME GroupInv, AfterReady PROVE GroupInv'
<1>1. /\ UNCHANGED <<task, joined, errors, drained>> /\ at = "ready" /\ hook' = 0
      /\ \/ errors /\ told' = TRUE /\ at' = "abort"
         \/ ~errors /\ told' = told /\ at' = "serve"
  BY Zenon DEF AfterReady
<1> QED
  <2>1. hook' \in 0..N
    BY <1>1, GroupConstants
  <2>2. GroupTypeOK'
    BY <1>1, <2>1, Zenon DEF GroupInv, GroupTypeOK, GroupPlaces
  <2>3. DrainedLast'
    BY <1>1 DEF GroupInv, DrainedLast
  <2> QED
    BY <1>1, <2>2, <2>3, Zenon DEF GroupInv, JoinedEnded, SettledAll

\* A task is joined: its failure is recorded.
LEMMA JoinEffect ==
    ASSUME GroupInv, NEW s \in Services, Join(s), task' = task
    PROVE  /\ joined' \in SUBSET Services /\ errors' \in BOOLEAN /\ (errors => errors')
           /\ JoinedEnded'
<1>1. /\ joined' = joined \cup {s} /\ errors' \in BOOLEAN /\ (errors => errors')
      /\ task[s] = "err" => errors'
  BY Zenon DEF Join
<1>2. task[s] \in {"ok", "err"}
  BY Zenon DEF Join
<1> QED
  BY <1>1, <1>2, Zenon DEF GroupInv, GroupTypeOK, JoinedEnded

LEMMA JoinInv ==
    ASSUME GroupInv, NEW s \in Services, ServeJoin(s) \/ WaitJoin(s)
    PROVE  GroupInv'
<1>1. /\ Join(s) /\ UNCHANGED <<hook, task, told, drained>>
      /\ \/ at = "serve" /\ at' \in {"serve", "drain"}
         \/ at \in {"abort", "join"} /\ at' = at
  BY Zenon DEF ServeJoin, WaitJoin
<1>2. /\ joined' \in SUBSET Services /\ errors' \in BOOLEAN /\ (errors => errors')
      /\ JoinedEnded'
  BY <1>1, JoinEffect, Zenon
<1>3. GroupTypeOK' /\ SettledAll'
  BY <1>1, <1>2, Zenon DEF GroupInv, GroupTypeOK, GroupPlaces, SettledAll
<1>4. DrainedLast'
  BY <1>1, <1>2, LastServices, Zenon DEF GroupInv, DrainedLast
<1> QED
  BY <1>2, <1>3, <1>4, Zenon DEF GroupInv

\* The select loop ends, and the rounds that follow it.
LEMMA ServeEndsInv == ASSUME GroupInv, ServeShutdown \/ ServeDone PROVE GroupInv'
<1>1. /\ UNCHANGED <<hook, task, joined, errors, told, drained>> /\ at = "serve"
      /\ at' = "drain" \/ (at' = "settle" /\ Active = 0)
  BY Zenon DEF ServeShutdown, ServeDone
<1>2. at' = "settle" => joined = Services
  BY <1>1, NoneActive DEF GroupInv
<1>3. GroupTypeOK' /\ JoinedEnded' /\ SettledAll'
  BY <1>1, <1>2, Zenon DEF GroupInv, GroupTypeOK, GroupPlaces, JoinedEnded, SettledAll
<1>4. DrainedLast'
  BY <1>1, LastServices, Zenon DEF GroupInv, DrainedLast
<1> QED
  BY <1>3, <1>4, Zenon DEF GroupInv

LEMMA AfterDrainInv == ASSUME GroupInv, AfterDrain PROVE GroupInv'
<1>1. /\ UNCHANGED <<task, joined, errors, drained>> /\ at = "drain" /\ hook = N
      /\ hook' = 0 /\ told' = TRUE /\ at' = "stop"
  BY Zenon DEF AfterDrain
<1>2. drained = Services \/ errors
  BY <1>1, LastServices, Zenon DEF GroupInv, DrainedLast
<1> QED
  BY <1>1, <1>2, GroupConstants DEF GroupInv, GroupTypeOK, GroupPlaces, JoinedEnded, SettledAll, DrainedLast

LEMMA AfterStopInv == ASSUME GroupInv, AfterStop PROVE GroupInv'
<1>1. /\ UNCHANGED <<task, joined, errors, told, drained>> /\ at = "stop"
      /\ hook' = 0 /\ at' = "join"
  BY Zenon DEF AfterStop
<1> QED
  BY <1>1, GroupConstants DEF GroupInv, GroupTypeOK, GroupPlaces, JoinedEnded, SettledAll, DrainedLast

LEMMA AfterWaitInv == ASSUME GroupInv, NEW timedOut \in BOOLEAN, AfterWait(timedOut) PROVE GroupInv'
<1>1. /\ UNCHANGED <<hook, task, joined, told, drained>> /\ at \in {"abort", "join"}
      /\ at' \in {"err", "settle"} /\ (timedOut <=> Active > 0)
  BY Zenon DEF AfterWait
<1>2. errors' \in BOOLEAN /\ (errors => errors') /\ (timedOut => errors')
  BY Zenon DEF AfterWait
<1>3. joined = Services \/ errors'
  BY <1>1, <1>2, NoneActive, Zenon DEF GroupInv
<1> QED
  BY <1>1, <1>2, <1>3, Zenon DEF GroupInv, GroupTypeOK, GroupPlaces, JoinedEnded, SettledAll, DrainedLast

LEMMA GroupSettleInv == ASSUME GroupInv, Settle PROVE GroupInv'
<1>1. /\ UNCHANGED <<hook, task, joined, errors, told, drained>> /\ at = "settle"
      /\ (errors /\ at' = "err") \/ (~errors /\ at' = "ok")
  BY Zenon DEF Settle
<1> QED
  BY <1>1, Zenon DEF GroupInv, GroupTypeOK, GroupPlaces, JoinedEnded, SettledAll, DrainedLast

LEMMA ExitInv ==
    ASSUME GroupInv, NEW s \in Services, NEW result \in {"ok", "err"}, Exit(s, result)
    PROVE  GroupInv'
<1>1. /\ UNCHANGED <<at, hook, joined, errors, told, drained>> /\ task[s] = "running"
      /\ task' = [task EXCEPT ![s] = result]
  BY Zenon DEF Exit
<1>2. s \notin joined
  BY <1>1, Zenon DEF GroupInv, JoinedEnded
<1>3. GroupTypeOK' /\ JoinedEnded'
  BY <1>1, <1>2, Zenon DEF GroupInv, GroupTypeOK, JoinedEnded
<1> QED
  BY <1>1, <1>3, Zenon DEF GroupInv, SettledAll, DrainedLast

LEMMA GroupInvPreserved == GroupInv /\ [GroupNext]_groupVars => GroupInv'
<1> SUFFICES ASSUME GroupInv, [GroupNext]_groupVars PROVE GroupInv'
  BY Zenon
<1>1. CASE UNCHANGED <<at, hook, task, joined, errors, told, drained>>
  BY <1>1, Zenon DEF GroupInv, GroupTypeOK, JoinedEnded, SettledAll, DrainedLast
<1>2. CASE AskShutdown \/ TriggerShutdown \/ UNCHANGED groupVars
  BY <1>1, <1>2, Zenon DEF AskShutdown, TriggerShutdown, groupVars, progress
<1>3. CASE StartWithShutdown
  BY <1>3, SpawnInv, HookReadyInv, AfterReadyInv, ServeEndsInv, HookDrainInv, AfterDrainInv,
     HookStopInv, AfterStopInv, GroupSettleInv, JoinInv, AfterWaitInv, ZenonT(30)
     DEF StartWithShutdown
<1> QED
  BY <1>2, <1>3, ServeEndsInv, ExitInv, Zenon DEF GroupNext, Others

-----------------------------------------------------------------------------
(* The theorems *)

\* A group of any size reports success only when every service has ended well
\* (handle_service_exit, wait_for_tasks).
THEOREM SuccessIsOfAll == GroupSpec => []SuccessMeansAll
<1>1. GroupInv => SuccessMeansAll
  BY Zenon DEF GroupInv, JoinedEnded, SettledAll, SuccessMeansAll
<1> QED
  BY <1>1, GroupInitInv, GroupInvPreserved, PTL DEF GroupSpec

\* The services of a group of any size are drained in reverse order, and told to
\* stop only after that, or after an error (run_lifecycle_hooks).
THEOREM AlwaysDrainedInReverse == GroupSpec => []DrainedInReverse
<1>1. GroupInv => DrainedInReverse
  BY Zenon DEF GroupInv, DrainedLast, DrainedInReverse
<1> QED
  BY <1>1, GroupInitInv, GroupInvPreserved, PTL DEF GroupSpec

=============================================================================
