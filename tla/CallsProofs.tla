---------------------------- MODULE CallsProofs -----------------------------
(***************************************************************************)
(* Theorems about GovernedCall, for every set of calls, every boundary and *)
(* every policy: what the breaker and the shedder of an operation account  *)
(* for, in every interleaving of its calls; and about GatewayUpstream, for *)
(* every set of instances and exchanges, every limit of streams and every  *)
(* ejection time.                                                          *)
(***************************************************************************)
EXTENDS GovernedCall, GatewayUpstream, BreakerProofs, FiniteSetTheorems

-----------------------------------------------------------------------------
(***************************************************************************)
(* GovernedCall                                                            *)
(***************************************************************************)

(* The shedder of an operation.  Its buckets are never looked at: a shedder  *)
(* is known by its three fields.                                             *)

IsShedder(s) ==
    /\ s = [inFlight |-> s.inFlight, buckets |-> s.buckets, openUntil |-> s.openUntil]
    /\ s.inFlight \in Nat

\* What the operations of the registry do to the slots in flight.
LEMMA SheddingEffect ==
    ASSUME NEW s, IsShedder(s), NEW success, NEW latency
    PROVE  /\ IsShedder(SheddingAllow(s))
           /\ SheddingAllow(s).inFlight = IF SheddingAllows(s) THEN s.inFlight + 1 ELSE s.inFlight
           /\ IsShedder(SheddingRecord(s, success, latency))
           /\ SheddingRecord(s, success, latency).inFlight = OneFewer(s.inFlight)
           /\ IsShedder(SheddingRelease(s))
           /\ SheddingRelease(s).inFlight = OneFewer(s.inFlight)
           /\ IsShedder(SheddingTick(s))
           /\ SheddingTick(s).inFlight = s.inFlight
<1>1. OneFewer(s.inFlight) \in Nat
  BY DEF OneFewer, IsShedder
<1>2. /\ IsShedder(SheddingAllow(s))
      /\ SheddingAllow(s).inFlight = IF SheddingAllows(s) THEN s.inFlight + 1 ELSE s.inFlight
  BY DEF SheddingAllow, IsShedder
<1>3. /\ IsShedder(SheddingRecord(s, success, latency))
      /\ SheddingRecord(s, success, latency).inFlight = OneFewer(s.inFlight)
  BY <1>1, Zenon DEF SheddingRecord, IsShedder
<1>4. /\ IsShedder(SheddingRelease(s))
      /\ SheddingRelease(s).inFlight = OneFewer(s.inFlight)
  BY <1>1, SMTT(30), Zenon DEF SheddingRelease, IsShedder
<1>5. IsShedder(SheddingTick(s)) /\ SheddingTick(s).inFlight = s.inFlight
  BY Zenon DEF SheddingTick, IsShedder
<1> QED
  BY <1>2, <1>3, <1>4, <1>5, Zenon

-----------------------------------------------------------------------------
(* The inductive invariant *)

\* The part of the type invariant that the proofs need.
TypeOK ==
    /\ boundary \in Boundaries
    /\ breaker \in Breakers
    /\ IsShedder(shedder)
    /\ at \in [Calls -> Places]
    /\ permit \in [Calls -> Permits]
    /\ result \in [Calls -> BOOLEAN]
    /\ lost \in [slots: Nat, probe: BOOLEAN]

\* A call that has settled with the breaker has no permit any more.
PermitsHeld == \A q \in Calls : at[q] \in {"out", "record", "drop"} => permit[q] = None

\* What ProbeAccounted says, without cardinalities.
OneProbe ==
    /\ \A p, q \in Calls : permit[p] = "probe" /\ permit[q] = "probe" => p = q
    /\ \A q \in Calls : permit[q] = "probe" => breaker.phase = "half_open" /\ ~lost.probe
    /\ breaker.phase = "half_open" => lost.probe \/ \E q \in Calls : permit[q] = "probe"
    /\ lost.probe => breaker.phase = "half_open"

ProbeInv == TypeOK /\ PermitsHeld /\ OneProbe

LEMMA InitProbeInv == Init => ProbeInv
<1> SUFFICES ASSUME Init PROVE ProbeInv
  BY Zenon
<1>1. breaker \in Breakers /\ breaker.phase = "closed"
  BY Zenon DEF Init, ClosedBreaker, Breakers, Time
<1>2. IsShedder(shedder)
  BY Zenon DEF Init, EmptyShedder, IsShedder
<1>3. /\ boundary \in Boundaries /\ at \in [Calls -> Places]
      /\ result \in [Calls -> BOOLEAN] /\ lost \in [slots: Nat, probe: BOOLEAN]
  BY Zenon DEF Init, Places
<1>4. permit \in [Calls -> Permits] /\ \A q \in Calls : permit[q] = None
  BY Zenon DEF Init, Permits
<1>5. ~lost.probe
  BY Zenon DEF Init
<1>6. TypeOK /\ PermitsHeld
  BY <1>1, <1>2, <1>3, <1>4, Zenon DEF TypeOK, PermitsHeld
<1>7. OneProbe
  BY <1>1, <1>4, <1>5, BreakerConstants, Zenon DEF OneProbe
<1> QED
  BY <1>6, <1>7, Zenon DEF ProbeInv

\* A call gives its permit back to the breaker.
LEMMA PermitSettled ==
    ASSUME ProbeInv, NEW q \in Calls, permit' = [permit EXCEPT ![q] = None],
           HalfOpenEndsWith(breaker, breaker', permit[q]), UNCHANGED lost
    PROVE  OneProbe'
<1>1. permit'[q] = None /\ \A p \in Calls : p # q => permit'[p] = permit[p]
  BY Zenon DEF ProbeInv, TypeOK
<1> QED
  BY <1>1, BreakerConstants, Zenon DEF ProbeInv, OneProbe, HalfOpenEndsWith

\* A call takes its permit with it.
LEMMA PermitLost ==
    ASSUME ProbeInv, NEW q \in Calls, permit' = [permit EXCEPT ![q] = None],
           breaker' = breaker, lost'.probe = (lost.probe \/ permit[q] = "probe")
    PROVE  OneProbe'
<1>1. permit'[q] = None /\ \A p \in Calls : p # q => permit'[p] = permit[p]
  BY Zenon DEF ProbeInv, TypeOK
<1>2. None # "probe"
  BY BreakerConstants, Zenon
<1>3. /\ \A p, r \in Calls : permit[p] = "probe" /\ permit[r] = "probe" => p = r
      /\ \A p \in Calls : permit[p] = "probe" => breaker.phase = "half_open" /\ ~lost.probe
      /\ breaker.phase = "half_open" => lost.probe \/ \E p \in Calls : permit[p] = "probe"
      /\ lost.probe => breaker.phase = "half_open"
  BY Zenon DEF ProbeInv, OneProbe
<1>4. CASE permit[q] = "probe"
  <2>1. lost'.probe /\ breaker'.phase = "half_open" /\ \A p \in Calls : permit'[p] # "probe"
    BY <1>1, <1>2, <1>3, <1>4, Zenon
  <2> QED
    BY <2>1, Zenon DEF OneProbe
<1>5. CASE permit[q] # "probe"
  <2>1. lost'.probe <=> lost.probe
    BY <1>5, Zenon
  <2>2. \A p \in Calls : permit'[p] = "probe" <=> permit[p] = "probe"
    BY <1>1, <1>2, <1>5, Zenon
  <2> QED
    BY <1>3, <2>1, <2>2, Zenon DEF OneProbe
<1> QED
  BY <1>4, <1>5, Zenon

\* Every step is one of these.
CallStep(q) ==
    \/ AskBreaker(q) \/ Admit(q) \/ ShedKeepingPermit(q) \/ Shed(q) \/ GivePermitBack(q)
    \/ CountCall(q) \/ TryRetry(q) \/ Resume(q)
    \/ (\E success \in BOOLEAN : RecordBreaker(q, success)) \/ RecordShedding(q)
    \/ CancelBreaker(q) \/ ReleaseShedding(q)
    \/ DropRequest(q) /\ boundary = "gateway"
    \/ AbortTask(q) /\ boundary \in Tasks

LEMMA StepKinds == Next => Tick \/ \E q \in Calls : CallStep(q)
BY Zenon DEF Next, Route, Method, GatewayRequest, Delivery, JobRun, Settle, Retry, CallStep, Tasks

\* Where a call goes and what becomes of its permit.
LEMMA CallMoves ==
    ASSUME ProbeInv, NEW q \in Calls, NEW place \in Places, Go(q, place),
           \/ permit' = permit /\ place \notin {"out", "record", "drop"}
           \/ permit' = [permit EXCEPT ![q] = None]
    PROVE  at' \in [Calls -> Places] /\ permit' \in [Calls -> Permits] /\ PermitsHeld'
BY Zenon DEF ProbeInv, TypeOK, PermitsHeld, Permits, Go

\* A call that leaves has no permit, and its result is forgotten.
LEMMA CallLeaves ==
    ASSUME ProbeInv, NEW q \in Calls, Leave(q)
    PROVE  /\ at' \in [Calls -> Places] /\ permit' \in [Calls -> Permits] /\ PermitsHeld'
           /\ permit' = [permit EXCEPT ![q] = None]
           /\ result' \in [Calls -> BOOLEAN]
<1>1. "out" \in Places
  BY Zenon DEF Places
<1>2. Go(q, "out") /\ permit' = [permit EXCEPT ![q] = None]
  BY Zenon DEF Leave
<1>3. result' \in [Calls -> BOOLEAN]
  BY Zenon DEF Leave, ProbeInv, TypeOK
<1> QED
  BY <1>1, <1>2, <1>3, CallMoves, Zenon

\* OneProbe looks at nothing but these.
LEMMA ProbeUntouched ==
    ASSUME OneProbe, UNCHANGED <<permit, lost>>, breaker'.phase = breaker.phase
    PROVE  OneProbe'
BY Zenon DEF OneProbe

\* Asking the breaker hands out a probe exactly when the breaker becomes half-open.
LEMMA AskBreakerProbe ==
    ASSUME ProbeInv, NEW q \in Calls, AskBreaker(q)
    PROVE  ProbeInv'
<1>1. /\ UNCHANGED <<boundary, shedder, result, lost>> /\ at[q] = "out"
  BY Zenon DEF AskBreaker
<1>2. CASE "breaker" \notin Policy
  <2>1. Go(q, "admit") /\ UNCHANGED <<breaker, permit>> /\ "admit" \in Places
    BY <1>2, Zenon DEF AskBreaker, Places
  <2>2. at' \in [Calls -> Places] /\ permit' \in [Calls -> Permits] /\ PermitsHeld'
    BY <2>1, CallMoves, Zenon
  <2>3. OneProbe'
    BY <1>1, <2>1, ProbeUntouched, Zenon DEF ProbeInv
  <2> QED
    BY <1>1, <2>1, <2>2, <2>3, Zenon DEF ProbeInv, TypeOK
<1>3. CASE "breaker" \in Policy
  <2> DEFINE given == BreakerPermit(breaker)
             place == IF given = None THEN "out" ELSE "admit"
  <2>1. /\ breaker' = BreakerAllow(breaker)
        /\ permit' = [permit EXCEPT ![q] = given]
        /\ at' = [at EXCEPT ![q] = place]
    BY <1>3, Zenon DEF AskBreaker, Go
  <2>2. breaker' \in Breakers /\ given \in Permits /\ None \in Permits
    BY <2>1, BreakerTypes, Zenon DEF ProbeInv, TypeOK, Permits
  <2>3. /\ given = "probe" => breaker.phase = "open" /\ breaker'.phase = "half_open"
        /\ given # "probe" => breaker' = breaker
    BY <2>1, AllowEffect, Zenon DEF ProbeInv, TypeOK
  <2> HIDE DEF given
  <2>4. at' \in [Calls -> Places] /\ permit' \in [Calls -> Permits]
    BY <2>1, <2>2, Zenon DEF ProbeInv, TypeOK, Places
  <2>5. permit'[q] = given /\ permit[q] = None /\ \A p \in Calls : p # q => permit'[p] = permit[p]
    BY <1>1, <2>1, <2>2, Zenon DEF ProbeInv, TypeOK, PermitsHeld
  <2>6. PermitsHeld'
    BY <2>1, <2>5, Zenon DEF ProbeInv, TypeOK, PermitsHeld
  <2>7. OneProbe'
    <3>1. CASE given = "probe"
      BY <1>1, <2>3, <2>5, <3>1, Zenon DEF ProbeInv, OneProbe
    <3>2. CASE given # "probe"
      BY <1>1, <2>3, <2>5, <3>2, BreakerConstants, Zenon DEF ProbeInv, OneProbe
    <3> QED
      BY <3>1, <3>2, Zenon
  <2> QED
    BY <1>1, <2>2, <2>4, <2>6, <2>7, Zenon DEF ProbeInv, TypeOK
<1> QED
  BY <1>2, <1>3, Zenon

\* The steps that leave the breaker and every permit alone.
LEMMA QuietStep ==
    ASSUME ProbeInv, NEW q \in Calls,
           Admit(q) \/ Shed(q) \/ CountCall(q) \/ TryRetry(q) \/ Resume(q)
    PROVE  ProbeInv'
<1>1. UNCHANGED <<boundary, breaker, permit, result, lost>>
  BY Zenon DEF Admit, Shed, CountCall, TryRetry, Resume
<1>2. PICK place \in Places \ {"out", "record", "drop"} : Go(q, place)
  <2>1. {"run", "enter", "refused", "sleep", "failed"} \subseteq Places \ {"out", "record", "drop"}
    BY Zenon DEF Places
  <2> QED
    BY <2>1, Zenon DEF Admit, Shed, CountCall, TryRetry, Resume
<1>3. at' \in [Calls -> Places] /\ permit' \in [Calls -> Permits] /\ PermitsHeld'
  BY <1>1, <1>2, CallMoves, Zenon
<1>4. IsShedder(shedder')
  BY SheddingEffect DEF Admit, Shed, CountCall, TryRetry, Resume, ProbeInv, TypeOK
<1>5. OneProbe'
  BY <1>1, ProbeUntouched, Zenon DEF ProbeInv
<1> QED
  BY <1>1, <1>3, <1>4, <1>5, Zenon DEF ProbeInv, TypeOK

\* The steps that give a permit back to the breaker while the call goes on.
LEMMA SettleStep ==
    ASSUME ProbeInv, NEW q \in Calls,
           CancelBreaker(q) \/ \E success \in BOOLEAN : RecordBreaker(q, success)
    PROVE  ProbeInv'
<1>1. UNCHANGED <<boundary, shedder, lost>> /\ permit' = [permit EXCEPT ![q] = None]
  BY Zenon DEF CancelBreaker, RecordBreaker
<1>2. permit[q] \in Permits /\ breaker \in Breakers
  BY Zenon DEF ProbeInv, TypeOK
<1>3. \/ breaker' = BreakerCancel(breaker, permit[q])
      \/ breaker' = BreakerSuccess(breaker, permit[q])
      \/ breaker' = BreakerFailure(breaker, permit[q])
  BY Zenon DEF CancelBreaker, RecordBreaker
<1>4. breaker' \in Breakers /\ HalfOpenEndsWith(breaker, breaker', permit[q])
  BY <1>2, <1>3, BreakerTypes, SettleEffect, Zenon
<1>5. OneProbe'
  BY <1>1, <1>4, PermitSettled, Zenon
<1>6. Go(q, "record") \/ Go(q, "drop")
  BY Zenon DEF CancelBreaker, RecordBreaker
<1>7. at' \in [Calls -> Places] /\ permit' \in [Calls -> Permits] /\ PermitsHeld'
  <2>1. "record" \in Places /\ "drop" \in Places
    BY Zenon DEF Places
  <2> QED
    BY <1>1, <1>6, <2>1, CallMoves, Zenon
<1>8. result' \in [Calls -> BOOLEAN]
  BY Zenon DEF CancelBreaker, RecordBreaker, ProbeInv, TypeOK
<1> QED
  BY <1>1, <1>4, <1>5, <1>7, <1>8, Zenon DEF ProbeInv, TypeOK

\* The steps after which the call is over.
LEMMA LeavingStep ==
    ASSUME ProbeInv, NEW q \in Calls,
           \/ ShedKeepingPermit(q) \/ GivePermitBack(q) \/ RecordShedding(q)
           \/ ReleaseShedding(q) \/ DropRequest(q) \/ AbortTask(q)
    PROVE  ProbeInv'
<1>1. Leave(q) /\ UNCHANGED boundary
  BY Zenon DEF ShedKeepingPermit, GivePermitBack, RecordShedding, ReleaseShedding, DropRequest, AbortTask
<1>2. /\ at' \in [Calls -> Places] /\ permit' \in [Calls -> Permits] /\ PermitsHeld'
      /\ permit' = [permit EXCEPT ![q] = None]
      /\ result' \in [Calls -> BOOLEAN]
  BY <1>1, CallLeaves, Zenon
<1>3. IsShedder(shedder')
  BY SheddingEffect
     DEF ShedKeepingPermit, GivePermitBack, RecordShedding, ReleaseShedding, DropRequest,
         AbortTask, ProbeInv, TypeOK
<1>4. permit[q] \in Permits /\ breaker \in Breakers /\ lost \in [slots: Nat, probe: BOOLEAN]
  BY Zenon DEF ProbeInv, TypeOK
<1>5. breaker' \in Breakers /\ lost' \in [slots: Nat, probe: BOOLEAN] /\ OneProbe'
  <2>1. CASE GivePermitBack(q)
    <3>1. breaker' = BreakerCancel(breaker, permit[q]) /\ lost' = lost
      BY <2>1, Zenon DEF GivePermitBack
    <3>2. breaker' \in Breakers /\ HalfOpenEndsWith(breaker, breaker', permit[q])
      BY <1>4, <3>1, BreakerTypes, SettleEffect, Zenon
    <3> QED
      BY <1>2, <1>4, <3>1, <3>2, PermitSettled, Zenon
  <2>2. CASE RecordShedding(q) \/ ReleaseShedding(q)
    <3>1. UNCHANGED <<breaker, lost>> /\ permit[q] = None
      BY <2>2, Zenon DEF RecordShedding, ReleaseShedding, ProbeInv, PermitsHeld
    <3>2. HalfOpenEndsWith(breaker, breaker', permit[q])
      BY <3>1, BreakerConstants, Zenon DEF HalfOpenEndsWith
    <3> QED
      BY <1>2, <1>4, <3>1, <3>2, PermitSettled, Zenon
  <2>3. CASE ShedKeepingPermit(q) \/ DropRequest(q) \/ AbortTask(q)
    <3>1. breaker' = breaker
      BY <2>3, Zenon DEF ShedKeepingPermit, DropRequest, AbortTask
    <3>2. /\ lost'.probe = (lost.probe \/ permit[q] = "probe")
          /\ lost' \in [slots: Nat, probe: BOOLEAN]
      <4>1. PICK gone \in BOOLEAN : gone = (lost.probe \/ permit[q] = "probe")
        BY <1>4, Zenon
      <4>2. \/ lost' = [lost EXCEPT !.probe = gone]
            \/ lost' = [slots |-> lost.slots + 1, probe |-> gone]
        BY <2>3, <4>1, Zenon DEF ShedKeepingPermit, DropRequest, AbortTask, LoseProbe
      <4>3. lost'.probe = gone /\ lost' \in [slots: Nat, probe: BOOLEAN]
        BY <1>4, <4>2
      <4> QED
        BY <4>1, <4>3, Zenon
    <3> QED
      BY <1>2, <1>4, <3>1, <3>2, PermitLost, Zenon
  <2> QED
    BY <2>1, <2>2, <2>3, Zenon
<1> QED
  BY <1>1, <1>2, <1>3, <1>5, Zenon DEF ProbeInv, TypeOK

\* The passing of time gives out no permit and ends no half-open phase.
LEMMA TickStep ==
    ASSUME ProbeInv, Tick
    PROVE  ProbeInv'
<1>1. UNCHANGED <<boundary, at, permit, result, lost>>
  BY Zenon DEF Tick
<1>2. IsShedder(shedder')
  BY SheddingEffect, Zenon DEF Tick, ProbeInv, TypeOK
<1>3. breaker' \in Breakers /\ breaker'.phase = breaker.phase
  <2>1. breaker' = BreakerTick(breaker) /\ None \in Permits
    BY Zenon DEF Tick, Permits
  <2>2. BreakerTick(breaker).phase = breaker.phase
    BY Zenon DEF BreakerTick, ProbeInv, TypeOK, Breakers
  <2> QED
    BY <2>1, <2>2, BreakerTypes, Zenon DEF ProbeInv, TypeOK
<1>4. OneProbe'
  BY <1>1, <1>3, ProbeUntouched, Zenon DEF ProbeInv
<1> QED
  BY <1>1, <1>2, <1>3, <1>4, Zenon DEF ProbeInv, TypeOK, PermitsHeld

LEMMA ProbeInvPreserved == ProbeInv /\ [Next]_vars => ProbeInv'
<1> SUFFICES ASSUME ProbeInv, [Next]_vars PROVE ProbeInv'
  BY Zenon
<1>1. CASE Tick
  BY <1>1, TickStep, Zenon
<1>2. ASSUME NEW q \in Calls, CallStep(q) PROVE ProbeInv'
  BY <1>2, AskBreakerProbe, QuietStep, SettleStep, LeavingStep, Zenon DEF CallStep
<1>3. CASE UNCHANGED vars
  BY <1>3, Zenon DEF vars, ProbeInv, TypeOK, PermitsHeld, OneProbe
<1> QED
  BY <1>1, <1>2, <1>3, StepKinds, Zenon

LEMMA ProbeInvAlways == Spec => []ProbeInv
BY InitProbeInv, ProbeInvPreserved, PTL DEF Spec

-----------------------------------------------------------------------------
(* What follows for the breaker *)

\* In every interleaving of the calls at any boundary, at most one call holds a
\* probe permit, only while the breaker is half-open, and a half-open breaker has
\* its probe carried by a call or lost.
THEOREM ProbesAccounted == Spec => []ProbeAccounted
<1>1. ProbeInv => ProbeAccounted
  <2> SUFFICES ASSUME ProbeInv PROVE ProbeAccounted
    BY Zenon
  <2> DEFINE carried == {q \in Calls : permit[q] = "probe"}
  <2>1. Cardinality(carried) <= 1
    <3>1. CASE carried = {}
      BY <3>1, FS_EmptySet
    <3>2. CASE carried # {}
      <4>1. PICK q : carried = {q}
        BY <3>2, ZenonT(30) DEF ProbeInv, OneProbe
      <4> QED
        BY <4>1, FS_Singleton
    <3> QED
      BY <3>1, <3>2, Zenon
  <2>2. /\ carried # {} => breaker.phase = "half_open" /\ ~lost.probe
        /\ breaker.phase = "half_open" => carried # {} \/ lost.probe
        /\ lost.probe => breaker.phase = "half_open"
    BY Zenon DEF ProbeInv, OneProbe
  <2> QED
    BY <2>1, <2>2, Zenon DEF ProbeAccounted
<1> QED
  BY <1>1, ProbeInvAlways, PTL

\* The only steps that change the phase of the breaker.
LEMMA PhaseChanges ==
    ASSUME ProbeInv, [Next]_vars, breaker'.phase # breaker.phase
    PROVE  \/ breaker'.phase = "half_open"
           \/ breaker' = OpenBreaker /\ breaker.phase = "half_open"
           \/ \E q \in Calls :
                 /\ at'[q] = "record" /\ ~result'[q]
                 /\ breaker' = OpenBreaker
           \/ \E q \in Calls :
                 /\ at'[q] = "record" /\ result'[q]
                 /\ breaker.phase # "closed" => permit[q] = "probe"
                 /\ breaker'.phase = "closed"
<1>1. breaker \in Breakers /\ (\A q \in Calls : permit[q] \in Permits) /\ None \in Permits
  BY Zenon DEF ProbeInv, TypeOK, Permits
<1>2. ~Tick /\ breaker' # breaker
  BY <1>1, PhaseEffect, Zenon DEF Tick
<1>3. PICK q \in Calls : CallStep(q)
  BY <1>2, StepKinds, Zenon DEF vars
<1>4. CASE AskBreaker(q)
  BY <1>1, <1>2, <1>4, PhaseEffect DEF AskBreaker
<1>5. CASE GivePermitBack(q) \/ CancelBreaker(q)
  BY <1>1, <1>2, <1>5, PhaseEffect DEF GivePermitBack, CancelBreaker
<1>6. ASSUME NEW success \in BOOLEAN, RecordBreaker(q, success)
      PROVE  \/ /\ at'[q] = "record" /\ ~result'[q] /\ breaker' = OpenBreaker
             \/ /\ at'[q] = "record" /\ result'[q] /\ breaker'.phase = "closed"
                /\ breaker.phase # "closed" => permit[q] = "probe"
  <2>1. at'[q] = "record" /\ result'[q] = success
    BY <1>6, Zenon DEF RecordBreaker, Go, ProbeInv, TypeOK
  <2>2. breaker' = IF success THEN BreakerSuccess(breaker, permit[q])
                   ELSE BreakerFailure(breaker, permit[q])
    BY <1>6, Zenon DEF RecordBreaker
  <2> QED
    BY <1>1, <1>2, <2>1, <2>2, PhaseEffect
<1>7. CASE \/ Admit(q) \/ ShedKeepingPermit(q) \/ Shed(q) \/ CountCall(q) \/ TryRetry(q)
           \/ Resume(q) \/ RecordShedding(q) \/ ReleaseShedding(q) \/ DropRequest(q)
           \/ AbortTask(q)
  BY <1>2, <1>7, Zenon
     DEF Admit, ShedKeepingPermit, Shed, CountCall, TryRetry, Resume, RecordShedding,
         ReleaseShedding, DropRequest, AbortTask
<1> QED
  BY <1>3, <1>4, <1>5, <1>6, <1>7, Zenon DEF CallStep

\* The breaker closes only by the success of its probe: a call admitted before
\* it opened cannot close it by finishing late.
THEOREM ClosesByProbeOnly == Spec => ClosedByProbe
<1>1. ASSUME ProbeInv, [Next]_vars, breaker.phase # "closed", breaker'.phase = "closed"
      PROVE  \E q \in Calls : permit[q] = "probe" /\ at'[q] = "record" /\ result'[q]
  BY <1>1, PhaseChanges DEF OpenBreaker
<1> QED
  BY <1>1, ProbeInvAlways, PTL DEF Spec, ClosedByProbe

\* A breaker that opens does so for a whole reset interval, and a closed one is
\* opened by a recorded failure and by nothing else.
THEOREM OpensForWholeInterval == Spec => OpensForAnInterval
<1>1. ASSUME ProbeInv, [Next]_vars, breaker.phase # "open", breaker'.phase = "open"
      PROVE  /\ breaker'.openUntil = ResetTimeout
             /\ breaker.phase = "closed" => \E q \in Calls : at'[q] = "record" /\ ~result'[q]
  BY <1>1, PhaseChanges DEF OpenBreaker
<1> QED
  BY <1>1, ProbeInvAlways, PTL DEF Spec, OpensForAnInterval

-----------------------------------------------------------------------------
(* The slots of the shedder *)

WithSlot == {"enter", "run", "sleep", "failed", "record", "drop"}
Holders  == {q \in Calls : at[q] \in WithSlot}

\* Calls that move join and leave the holders one at a time.
LEMMA HoldersMove ==
    ASSUME ProbeInv, NEW q \in Calls, NEW place, Go(q, place)
    PROVE  /\ IsFiniteSet(Holders) /\ Cardinality(Holders) \in Nat
           /\ (at[q] \in WithSlot <=> place \in WithSlot) => Holders' = Holders
           /\ at[q] \notin WithSlot /\ place \in WithSlot
                => Cardinality(Holders') = Cardinality(Holders) + 1
           /\ at[q] \in WithSlot /\ place \notin WithSlot
                => Cardinality(Holders') + 1 = Cardinality(Holders)
<1>1. IsFiniteSet(Holders) /\ Cardinality(Holders) \in Nat
  BY GovernedCallConstants, FS_Subset, FS_CardinalityType, Zenon DEF Holders
<1>2. at'[q] = place /\ \A p \in Calls : p # q => at'[p] = at[p]
  BY Zenon DEF Go, ProbeInv, TypeOK
<1>3. (at[q] \in WithSlot <=> place \in WithSlot) => Holders' = Holders
  BY <1>2, Zenon DEF Holders
<1>4. ASSUME at[q] \notin WithSlot, place \in WithSlot
      PROVE  Cardinality(Holders') = Cardinality(Holders) + 1
  <2>1. Holders' = Holders \cup {q} /\ q \notin Holders
    BY <1>2, <1>4, Zenon DEF Holders
  <2> QED
    BY <1>1, <2>1, FS_AddElement, Zenon
<1>5. ASSUME at[q] \in WithSlot, place \notin WithSlot
      PROVE  Cardinality(Holders') + 1 = Cardinality(Holders)
  <2>1. Holders' = Holders \ {q} /\ q \in Holders
    BY <1>2, <1>5, Zenon DEF Holders
  <2>2. Cardinality(Holders') = Cardinality(Holders) - 1
    BY <1>1, <2>1, FS_RemoveElement, Zenon
  <2> QED
    BY <1>1, <2>2
<1> QED
  BY <1>1, <1>3, <1>4, <1>5, Zenon

\* SlotsMatch, in the words of this module.
SlotsInv ==
    "shedding" \in Policy =>
        /\ shedder.inFlight = Cardinality(Holders) + lost.slots
        /\ shedder.inFlight <= AtLeastOne(Concurrency)
        /\ lost.slots > 0 => boundary \in Tasks

LEMMA SlotsInvMeans == SlotsInv <=> SlotsMatch
<1>1. {q \in Calls : HoldsSlot(q)} = Holders
  BY Zenon DEF HoldsSlot, Holders, Places, WithSlot
<1> QED
  BY <1>1, Zenon DEF SlotsInv, SlotsMatch

LEMMA InitSlotsInv == Init => SlotsInv
<1> SUFFICES ASSUME Init PROVE SlotsInv
  BY Zenon
<1>1. Holders = {}
  BY Zenon DEF Init, Holders, WithSlot
<1>2. shedder.inFlight = 0 /\ lost.slots = 0
  BY Zenon DEF Init, EmptyShedder
<1>3. AtLeastOne(Concurrency) >= 0
  BY SheddingConstants DEF AtLeastOne
<1> QED
  BY <1>1, <1>2, <1>3, FS_EmptySet DEF SlotsInv

\* A step of a call takes a slot where the counter grows by one, gives one back
\* where it shrinks by one, and changes neither elsewhere; the slot of an aborted
\* task stays taken.
LEMMA SlotStep ==
    ASSUME ProbeInv, SlotsInv, "shedding" \in Policy, NEW q \in Calls, CallStep(q)
    PROVE  SlotsInv'
<1>1. /\ IsShedder(shedder) /\ shedder.inFlight \in Nat
      /\ lost \in [slots: Nat, probe: BOOLEAN] /\ lost.slots \in Nat
  BY Zenon DEF ProbeInv, TypeOK, IsShedder
<1>2. /\ shedder.inFlight = Cardinality(Holders) + lost.slots
      /\ shedder.inFlight <= AtLeastOne(Concurrency)
      /\ lost.slots > 0 => boundary \in Tasks
  BY Zenon DEF SlotsInv
<1>3. boundary' = boundary
  BY Zenon DEF CallStep, AskBreaker, Admit, ShedKeepingPermit, Shed, GivePermitBack, CountCall, TryRetry,
         Resume, RecordBreaker, RecordShedding, CancelBreaker, ReleaseShedding, DropRequest,
         AbortTask
<1>4. CASE Admit(q)
  <2>1. SheddingAllows(shedder) /\ shedder' = SheddingAllow(shedder) /\ lost' = lost
    BY <1>4, Zenon DEF Admit
  <2>2. shedder'.inFlight = shedder.inFlight + 1
    BY <1>1, <2>1, SheddingEffect, Zenon
  <2>3. shedder.inFlight < AtLeastOne(Concurrency)
    BY <2>1, Zenon DEF SheddingAllows
  <2>4. Cardinality(Holders') = Cardinality(Holders) + 1 /\ Cardinality(Holders) \in Nat
    <3>1. at[q] \notin WithSlot /\ (Go(q, "run") \/ Go(q, "enter"))
      BY <1>4, Zenon DEF Admit, WithSlot
    <3>2. "run" \in WithSlot /\ "enter" \in WithSlot
      BY Zenon DEF WithSlot
    <3> QED
      BY <3>1, <3>2, HoldersMove, Zenon
  <2>5. AtLeastOne(Concurrency) \in Nat
    BY SheddingConstants, Zenon DEF AtLeastOne
  <2> QED
    BY <1>1, <1>2, <1>3, <2>1, <2>2, <2>3, <2>4, <2>5 DEF SlotsInv
<1>5. CASE RecordShedding(q) \/ ReleaseShedding(q) \/ DropRequest(q)
  <2>1. lost'.slots = lost.slots
    BY <1>1, <1>5, Zenon DEF RecordShedding, ReleaseShedding, DropRequest, LoseProbe
  <2>2. shedder'.inFlight = OneFewer(shedder.inFlight)
    BY <1>1, <1>5, SheddingEffect DEF RecordShedding, ReleaseShedding, DropRequest
  <2>3. Cardinality(Holders') + 1 = Cardinality(Holders) /\ Cardinality(Holders) \in Nat
    <3>1. at[q] \in WithSlot /\ Go(q, "out") /\ "out" \notin WithSlot
      BY <1>5, Zenon DEF RecordShedding, ReleaseShedding, DropRequest, Leave, WithSlot
    <3> QED
      BY <3>1, HoldersMove, Zenon
  <2>4. Cardinality(Holders') \in Nat
    <3>1. IsFiniteSet(Holders')
      BY GovernedCallConstants, FS_Subset, Zenon DEF Holders
    <3> QED
      BY <3>1, FS_CardinalityType, Zenon
  <2>5. AtLeastOne(Concurrency) \in Nat
    BY SheddingConstants, Zenon DEF AtLeastOne
  <2> QED
    BY <1>1, <1>2, <1>3, <2>1, <2>2, <2>3, <2>4, <2>5 DEF SlotsInv, OneFewer
<1>6. CASE AbortTask(q) /\ boundary \in Tasks
  <2>1. lost'.slots = lost.slots + 1 /\ shedder' = shedder
    BY <1>6, Zenon DEF AbortTask
  <2>2. Cardinality(Holders') + 1 = Cardinality(Holders) /\ Cardinality(Holders) \in Nat
    <3>1. at[q] \in WithSlot /\ Go(q, "out") /\ "out" \notin WithSlot
      BY <1>6, Zenon DEF AbortTask, Leave, WithSlot
    <3> QED
      BY <3>1, HoldersMove, Zenon
  <2>3. Cardinality(Holders') \in Nat
    <3>1. IsFiniteSet(Holders')
      BY GovernedCallConstants, FS_Subset, Zenon DEF Holders
    <3> QED
      BY <3>1, FS_CardinalityType, Zenon
  <2> QED
    BY <1>1, <1>2, <1>3, <1>6, <2>1, <2>2, <2>3 DEF SlotsInv
<1>7. CASE \/ AskBreaker(q) \/ ShedKeepingPermit(q) \/ Shed(q) \/ GivePermitBack(q)
           \/ CountCall(q) \/ TryRetry(q) \/ Resume(q) \/ CancelBreaker(q)
           \/ \E success \in BOOLEAN : RecordBreaker(q, success)
  <2>1. lost'.slots = lost.slots
    BY <1>1, <1>7, Zenon
       DEF AskBreaker, ShedKeepingPermit, Shed, GivePermitBack, CountCall, TryRetry, Resume,
           CancelBreaker, RecordBreaker, LoseProbe
  <2>2. shedder'.inFlight = shedder.inFlight
    BY <1>1, <1>7, SheddingEffect, Zenon
       DEF AskBreaker, ShedKeepingPermit, Shed, GivePermitBack, CountCall, TryRetry, Resume,
           CancelBreaker, RecordBreaker
  <2>3. Holders' = Holders
    <3>1. PICK place : Go(q, place) /\ (at[q] \in WithSlot <=> place \in WithSlot)
      <4>1. CASE AskBreaker(q)
        BY <4>1 DEF AskBreaker, WithSlot
      <4>2. CASE ShedKeepingPermit(q) \/ Shed(q) \/ GivePermitBack(q)
        BY <4>2 DEF ShedKeepingPermit, Shed, GivePermitBack, Leave, WithSlot
      <4>3. CASE CountCall(q) \/ TryRetry(q) \/ Resume(q)
        BY <4>3, Zenon DEF CountCall, TryRetry, Resume, WithSlot
      <4>4. CASE CancelBreaker(q) \/ \E success \in BOOLEAN : RecordBreaker(q, success)
        BY <4>4, Zenon DEF CancelBreaker, RecordBreaker, WithSlot
      <4> QED
        BY <1>7, <4>1, <4>2, <4>3, <4>4, Zenon
    <3> QED
      BY <3>1, HoldersMove, Zenon
  <2> QED
    BY <1>2, <1>3, <2>1, <2>2, <2>3, Zenon DEF SlotsInv
<1> QED
  BY <1>4, <1>5, <1>6, <1>7, Zenon DEF CallStep

\* The in-flight counter of the shedder is exactly the number of calls that hold
\* a slot and of the slots lost with aborted tasks, and never above its limit:
\* no interleaving leaks a slot, or gives one back twice behind saturating_sub.
THEOREM SlotsAlwaysMatch == Spec => []SlotsMatch
<1>1. ProbeInv /\ SlotsInv /\ [Next]_vars => SlotsInv'
  <2> SUFFICES ASSUME ProbeInv, SlotsInv, [Next]_vars, "shedding" \in Policy PROVE SlotsInv'
    BY Zenon DEF SlotsInv
  <2>1. CASE Tick
    <3>1. UNCHANGED <<boundary, at, lost>> /\ shedder'.inFlight = shedder.inFlight
      BY <2>1, SheddingEffect, Zenon DEF Tick, ProbeInv, TypeOK
    <3> QED
      BY <3>1, Zenon DEF SlotsInv, Holders
  <2>2. CASE UNCHANGED vars
    BY <2>2, Zenon DEF vars, SlotsInv, Holders
  <2> QED
    BY <2>1, <2>2, SlotStep, StepKinds, Zenon
<1>2. SlotsInv => SlotsMatch
  BY SlotsInvMeans, Zenon
<1> QED
  BY <1>1, <1>2, InitSlotsInv, ProbeInvAlways, PTL DEF Spec

-----------------------------------------------------------------------------
(***************************************************************************)
(* GatewayUpstream                                                         *)
(***************************************************************************)

(* The inductive invariant *)

Ats   == {"out", "resolve", "acquire", "sent", "stream"}
Kinds == Streaming \cup {"http", None}

RequestStates ==
    [at: Ats, kind: Kinds, todo: SUBSET Instances, found: SUBSET Instances,
     to: Instances \cup {None}, permit: BOOLEAN]

UpstreamTypeOK ==
    /\ outlier \in [Instances -> [failures: Nat, left: Nat]]
    /\ active \in [Streaming -> Nat]
    /\ limit \in Nat
    /\ request \in [Exchanges -> RequestStates]
    /\ avoid \in [Exchanges -> SUBSET Instances]

\* No ejection is longer than the configured one.
LeftBounded == \A i \in Instances : outlier[i].left <= EjectFor

\* What a request avoids is still ejected, and it has neither found it nor is it
\* sent to it.
AvoidsEjected ==
    \A q \in Exchanges :
        /\ \A i \in avoid[q] : Ejected(i)
        /\ request[q].found \cap avoid[q] = {}
        /\ request[q].at \in {"acquire", "sent"}
             => request[q].to \in Instances /\ request[q].to \notin avoid[q]

\* A permit belongs to a stream, and only a request that has been sent has one.
PermitsOfStreams ==
    \A q \in Exchanges :
        /\ request[q].permit => request[q].kind \in Streaming /\ request[q].at \in {"sent", "stream"}
        /\ request[q].at = "acquire" => request[q].kind = "ws"

StreamPermits(p) == {q \in Exchanges : request[q].permit /\ request[q].kind = p}

Counted == \A p \in Streaming : active[p] = Cardinality(StreamPermits(p))

UpstreamInv == UpstreamTypeOK /\ LeftBounded /\ AvoidsEjected /\ PermitsOfStreams /\ Counted

LEMMA UpstreamInitInv == UpstreamInit => UpstreamInv
<1> SUFFICES ASSUME UpstreamInit PROVE UpstreamInv
  BY Zenon
<1>1. /\ NoRequest \in RequestStates
      /\ NoRequest.at = "out" /\ NoRequest.found = {} /\ ~NoRequest.permit
  BY Zenon DEF NoRequest, RequestStates, Ats, Kinds
<1>2. \A q \in Exchanges : request[q] = NoRequest
  BY Zenon DEF UpstreamInit
<1>3. UpstreamTypeOK
  BY <1>1, GatewayConstants, Zenon DEF UpstreamInit, UpstreamTypeOK
<1>4. LeftBounded /\ AvoidsEjected /\ PermitsOfStreams
  BY <1>1, <1>2, GatewayConstants DEF UpstreamInit, LeftBounded, AvoidsEjected, PermitsOfStreams
<1>5. Counted
  <2>1. \A p \in Streaming : StreamPermits(p) = {}
    BY <1>1, <1>2, Zenon DEF StreamPermits
  <2> QED
    BY <2>1, FS_EmptySet, Zenon DEF UpstreamInit, Counted
<1> QED
  BY <1>3, <1>4, <1>5, Zenon DEF UpstreamInv

-----------------------------------------------------------------------------
(* What the actions do to a request *)

\* Every other request stays as it is.
OtherExchangesStay(q) == \A p \in Exchanges : p # q => request'[p] = request[p]

LEMMA ResolveEffect ==
    ASSUME UpstreamTypeOK, NEW q \in Exchanges, NEW kind \in Streaming \cup {"http"}, ResolveUpstream(q, kind)
    PROVE  /\ OtherExchangesStay(q) /\ request' \in [Exchanges -> RequestStates]
           /\ request'[q].at = "resolve" /\ request'[q].found = {} /\ ~request'[q].permit
<1> DEFINE new == [NoRequest EXCEPT !.at = "resolve", !.kind = kind, !.todo = Instances]
<1>1. NoRequest \in RequestStates /\ NoRequest.found = {} /\ NoRequest.permit = FALSE
  BY Zenon DEF NoRequest, RequestStates, Ats, Kinds
<1>2. new \in RequestStates
  BY <1>1, Zenon DEF RequestStates, Ats, Kinds
<1>3. new.at = "resolve" /\ new.found = {} /\ ~new.permit
  BY <1>1, Zenon DEF RequestStates, Ats, Kinds
<1> HIDE DEF new
<1> QED
  BY <1>2, <1>3, Zenon DEF ResolveUpstream, OtherExchangesStay, UpstreamTypeOK, new

LEMMA ConsiderEffect ==
    ASSUME UpstreamTypeOK, NEW q \in Exchanges, NEW i \in Instances, Consider(q, i)
    PROVE  /\ OtherExchangesStay(q) /\ request' \in [Exchanges -> RequestStates]
           /\ request'[q].at = "resolve" /\ request'[q].kind = request[q].kind
           /\ request'[q].permit = request[q].permit
           /\ request'[q].found \subseteq request[q].found \cup {i}
           /\ i \in request'[q].found => i \in request[q].found \/ ~Ejected(i)
<1> DEFINE r    == request[q]
           todo == r.todo \ {i}
           found == IF TargetAvailable(i) THEN r.found \cup {i} ELSE r.found
           new  == [r EXCEPT !.todo = todo, !.found = found]
<1>1. r \in RequestStates
  BY Zenon DEF UpstreamTypeOK
<1>2. new \in RequestStates
  <2>1. todo \in SUBSET Instances /\ found \in SUBSET Instances
    BY <1>1, Zenon DEF RequestStates
  <2> HIDE DEF todo, found
  <2> QED
    BY <1>1, <2>1, Zenon DEF RequestStates
<1>3. new.at = r.at /\ new.kind = r.kind /\ new.permit = r.permit /\ new.found = found
  <2> HIDE DEF todo, found
  <2> QED
    BY <1>1, Zenon DEF RequestStates
<1>4. request' = [request EXCEPT ![q] = new]
  <2>1. request'[q] = new
    BY <1>1, Zenon DEF Consider, UpstreamTypeOK, RequestStates
  <2>2. DOMAIN request' = Exchanges /\ \A p \in Exchanges : p # q => request'[p] = request[p]
    BY Zenon DEF Consider, UpstreamTypeOK
  <2> QED
    BY <2>1, <2>2, Zenon DEF Consider, UpstreamTypeOK
<1> QED
  BY <1>2, <1>3, <1>4 DEF Consider, OtherExchangesStay, UpstreamTypeOK, TargetAvailable

LEMMA PickEffect ==
    ASSUME UpstreamTypeOK, NEW q \in Exchanges, NEW i \in Instances, Pick(q, i)
    PROVE  /\ OtherExchangesStay(q) /\ request' \in [Exchanges -> RequestStates]
           /\ request'[q].at = IF request[q].kind = "ws" THEN "acquire" ELSE "sent"
           /\ request'[q].kind = request[q].kind /\ request'[q].permit = request[q].permit
           /\ request'[q].found = {} /\ request'[q].to = i
<1> DEFINE r     == request[q]
           stage == IF r.kind = "ws" THEN "acquire" ELSE "sent"
           new   == [r EXCEPT !.to = i, !.found = {}, !.at = stage]
<1>1. r \in RequestStates /\ stage \in Ats
  BY Zenon DEF UpstreamTypeOK, Ats
<1>2. request'[q] = new
  <2> HIDE DEF stage
  <2> QED
    BY <1>1, Zenon DEF Pick, UpstreamTypeOK, RequestStates, stage
<1>3. new \in RequestStates
  <2> HIDE DEF stage
  <2> QED
    BY <1>1, Zenon DEF RequestStates
<1>4. new.at = stage /\ new.kind = r.kind /\ new.permit = r.permit /\ new.found = {} /\ new.to = i
  <2> HIDE DEF stage
  <2> QED
    BY <1>1, Zenon DEF RequestStates
<1>5. request' \in [Exchanges -> RequestStates] /\ OtherExchangesStay(q)
  <2> HIDE DEF new
  <2>1. request' = [request EXCEPT ![q] = new]
    BY <1>2, Zenon DEF Pick, UpstreamTypeOK
  <2> QED
    BY <1>3, <2>1, Zenon DEF UpstreamTypeOK, OtherExchangesStay
<1> QED
  BY <1>2, <1>4, <1>5, Zenon

LEMMA AcquireEffect ==
    ASSUME UpstreamTypeOK, NEW q \in Exchanges, Acquire(q), active[request[q].kind] < limit
    PROVE  /\ OtherExchangesStay(q) /\ request' \in [Exchanges -> RequestStates]
           /\ request'[q].at = "sent" /\ request'[q].kind = request[q].kind /\ request'[q].permit
           /\ request'[q].found = request[q].found /\ request'[q].to = request[q].to
<1> DEFINE r   == request[q]
           new == [r EXCEPT !.permit = TRUE, !.at = "sent"]
<1>1. r \in RequestStates /\ "sent" \in Ats
  BY Zenon DEF UpstreamTypeOK, Ats
<1>2. request'[q] = new
  BY <1>1, Zenon DEF Acquire, UpstreamTypeOK, RequestStates
<1>3. new \in RequestStates
  BY <1>1, Zenon DEF RequestStates
<1>4. /\ new.at = "sent" /\ new.kind = r.kind /\ new.permit
      /\ new.found = r.found /\ new.to = r.to
  BY <1>1, Zenon DEF RequestStates
<1>5. request' \in [Exchanges -> RequestStates] /\ OtherExchangesStay(q)
  <2> HIDE DEF new
  <2>1. request' = [request EXCEPT ![q] = new]
    BY <1>2, Zenon DEF Acquire, UpstreamTypeOK
  <2> QED
    BY <1>3, <2>1, Zenon DEF UpstreamTypeOK, OtherExchangesStay
<1> QED
  BY <1>2, <1>4, <1>5, Zenon

LEMMA StreamEffect ==
    ASSUME UpstreamTypeOK, NEW q \in Exchanges, Succeed(q), request[q].permit
    PROVE  /\ OtherExchangesStay(q) /\ request' \in [Exchanges -> RequestStates]
           /\ request'[q].at = "stream" /\ request'[q].kind = request[q].kind
           /\ request'[q].permit = request[q].permit /\ request'[q].found = request[q].found
<1> DEFINE r   == request[q]
           new == [r EXCEPT !.at = "stream"]
<1>1. r \in RequestStates /\ "stream" \in Ats
  BY Zenon DEF UpstreamTypeOK, Ats
<1>2. new \in RequestStates
  BY <1>1, Zenon DEF RequestStates
<1>3. /\ new.at = "stream" /\ new.kind = r.kind /\ new.permit = r.permit /\ new.found = r.found
  BY <1>1, Zenon DEF RequestStates
<1>4. request' = [request EXCEPT ![q] = new]
  BY Zenon DEF Succeed
<1> HIDE DEF new
<1> QED
  BY <1>2, <1>3, <1>4, Zenon DEF UpstreamTypeOK, OtherExchangesStay

LEMMA LeaveEffect ==
    ASSUME UpstreamTypeOK, NEW q \in Exchanges, LeaveUpstream(q)
    PROVE  /\ OtherExchangesStay(q) /\ request' \in [Exchanges -> RequestStates]
           /\ request'[q] = NoRequest
           /\ NoRequest.at = "out" /\ NoRequest.found = {} /\ ~NoRequest.permit
<1>1. /\ NoRequest \in RequestStates
      /\ NoRequest.at = "out" /\ NoRequest.found = {} /\ ~NoRequest.permit
  BY Zenon DEF NoRequest, RequestStates, Ats, Kinds
<1> QED
  BY <1>1, Zenon DEF LeaveUpstream, UpstreamTypeOK, OtherExchangesStay

-----------------------------------------------------------------------------
(* The kinds of step, as far as permits are concerned *)

Still == request' = request /\ active' = active

Typed == request' \in [Exchanges -> RequestStates]

\* It keeps the permit that it has, or stays without one.
Passes(q) ==
    /\ OtherExchangesStay(q) /\ active' = active
    /\ request'[q].permit = request[q].permit
    /\ request[q].permit => request'[q].kind = request[q].kind

Opens(q) ==
    /\ OtherExchangesStay(q)
    /\ ~request[q].permit /\ request'[q].permit
    /\ request[q].kind \in Streaming /\ request'[q].kind = request[q].kind
    /\ active[request[q].kind] < limit
    /\ active' = [active EXCEPT ![request[q].kind] = @ + 1]

Ends(q) == OtherExchangesStay(q) /\ ~request'[q].permit /\ active' = GiveBack(q)

StreamStep(q) == Passes(q) \/ Opens(q) \/ Ends(q)

\* Each step is of one of these kinds, and a permit still belongs to a stream.
LEMMA StreamSteps ==
    ASSUME UpstreamTypeOK, PermitsOfStreams, [UpstreamNext]_upstreamVars
    PROVE  Typed /\ PermitsOfStreams' /\ (Still \/ \E q \in Exchanges : StreamStep(q))
<1>1. CASE request' = request /\ active' = active
  BY <1>1, Zenon DEF UpstreamTypeOK, Typed, Still, PermitsOfStreams
<1>2. ASSUME NEW q \in Exchanges, NEW kind \in Streaming \cup {"http"}, ResolveUpstream(q, kind)
      PROVE  Typed /\ PermitsOfStreams' /\ Passes(q)
  <2>1. request[q].permit \in BOOLEAN /\ ~request[q].permit /\ active' = active
    BY <1>2, Zenon DEF ResolveUpstream, PermitsOfStreams, UpstreamTypeOK, RequestStates
  <2> QED
    BY <1>2, <2>1, ResolveEffect
       DEF Typed, Passes, OtherExchangesStay, PermitsOfStreams, UpstreamTypeOK, RequestStates
<1>3. ASSUME NEW q \in Exchanges, NEW i \in Instances, Consider(q, i)
      PROVE  Typed /\ PermitsOfStreams' /\ Passes(q)
  BY <1>3, ConsiderEffect, Zenon DEF Consider, Typed, Passes, OtherExchangesStay, PermitsOfStreams
<1>4. ASSUME NEW q \in Exchanges, NEW i \in Instances, Pick(q, i)
      PROVE  Typed /\ PermitsOfStreams' /\ Passes(q)
  <2>1. ~request[q].permit /\ active' = active
    BY <1>4, Zenon DEF Pick, PermitsOfStreams
  <2>2. /\ ~request'[q].permit /\ request'[q].permit = request[q].permit
        /\ request'[q].at = "acquire" => request'[q].kind = "ws"
    BY <1>4, <2>1, PickEffect, Zenon
  <2>3. Typed /\ OtherExchangesStay(q)
    BY <1>4, PickEffect, Zenon DEF Typed
  <2> QED
    BY <2>1, <2>2, <2>3, Zenon DEF Passes, OtherExchangesStay, PermitsOfStreams
<1>5. ASSUME NEW q \in Exchanges, LeaveUpstream(q)
      PROVE  Typed /\ PermitsOfStreams' /\ Ends(q)
  <2>1. ~request'[q].permit /\ request'[q].at # "acquire" /\ active' = GiveBack(q)
    BY <1>5, LeaveEffect, Zenon DEF LeaveUpstream
  <2>2. Typed /\ OtherExchangesStay(q)
    BY <1>5, LeaveEffect, Zenon DEF Typed
  <2> QED
    BY <2>1, <2>2, Zenon DEF Ends, OtherExchangesStay, PermitsOfStreams
<1>6. ASSUME NEW q \in Exchanges, Acquire(q)
      PROVE  Typed /\ PermitsOfStreams' /\ (Opens(q) \/ Ends(q))
  <2>1. CASE active[request[q].kind] < limit
    <3>1. ~request[q].permit /\ request[q].kind \in Streaming
      BY <1>6, Zenon DEF Acquire, PermitsOfStreams, Streaming
    <3>2. active' = [active EXCEPT ![request[q].kind] = @ + 1]
      BY <1>6, <2>1, Zenon DEF Acquire
    <3> QED
      BY <1>6, <2>1, <3>1, <3>2, AcquireEffect DEF Typed, Opens, OtherExchangesStay, PermitsOfStreams
  <2>2. CASE ~(active[request[q].kind] < limit)
    BY <1>5, <1>6, <2>2, Zenon DEF Acquire
  <2> QED
    BY <2>1, <2>2, Zenon
<1>7. ASSUME NEW q \in Exchanges, Succeed(q)
      PROVE  Typed /\ PermitsOfStreams' /\ (Passes(q) \/ Ends(q))
  <2>1. CASE request[q].permit
    <3>1. active' = active
      BY <1>7, <2>1, Zenon DEF Succeed
    <3> QED
      BY <1>7, <2>1, <3>1, StreamEffect, ZenonT(30) DEF Typed, Passes, OtherExchangesStay, PermitsOfStreams
  <2>2. CASE ~request[q].permit
    BY <1>5, <1>7, <2>2, Zenon DEF Succeed
  <2> QED
    BY <2>1, <2>2, Zenon
<1>8. ASSUME NEW q \in Exchanges, FailUpstream(q) \/ DropAttempt(q)
      PROVE  LeaveUpstream(q)
  BY <1>8, Zenon DEF FailUpstream, DropAttempt
<1>9. CASE UNCHANGED upstreamVars \/ UpstreamTick \/ (\E maximum \in StreamLimits : Reload(maximum))
           \/ (\E i \in Instances, ok \in BOOLEAN : Probe(i, ok))
  BY <1>1, <1>9, Zenon DEF upstreamVars, UpstreamTick, Reload, Probe
<1> QED
  BY <1>2, <1>3, <1>4, <1>5, <1>6, <1>7, <1>8, <1>9, Zenon DEF UpstreamNext, StreamStep

\* The counters follow: one more permit for a stream that opens, one fewer when
\* it ends.
LEMMA CountStep ==
    ASSUME UpstreamTypeOK, PermitsOfStreams, Counted, [UpstreamNext]_upstreamVars
    PROVE  /\ active' \in [Streaming -> Nat] /\ Counted'
           /\ \A p \in Streaming : active'[p] > active[p] => active'[p] <= limit
<1>1. /\ active \in [Streaming -> Nat] /\ limit \in Nat
      /\ \A q \in Exchanges : request[q].permit \in BOOLEAN
  BY Zenon DEF UpstreamTypeOK, RequestStates
<1>2. \A p : IsFiniteSet(StreamPermits(p))
  BY FS_Subset, GatewayConstants, Zenon DEF StreamPermits
<1>3. CASE Still
  BY <1>1, <1>3 DEF Still, Counted, StreamPermits
<1>4. ASSUME NEW q \in Exchanges, Passes(q)
      PROVE  active' = active /\ \A p \in Streaming : StreamPermits(p)' = StreamPermits(p)
  BY <1>4, Zenon DEF Passes, OtherExchangesStay, StreamPermits
<1>5. ASSUME NEW q \in Exchanges, NEW k \in Streaming, k = request[q].kind, Opens(q)
      PROVE  /\ StreamPermits(k)' = StreamPermits(k) \cup {q} /\ q \notin StreamPermits(k)
             /\ \A p \in Streaming \ {k} : StreamPermits(p)' = StreamPermits(p)
  BY <1>5, Zenon DEF Opens, OtherExchangesStay, StreamPermits
<1>6. ASSUME NEW q \in Exchanges, NEW k \in Streaming, k = request[q].kind, Ends(q),
             request[q].permit
      PROVE  /\ StreamPermits(k)' = StreamPermits(k) \ {q} /\ q \in StreamPermits(k)
             /\ \A p \in Streaming \ {k} : StreamPermits(p)' = StreamPermits(p)
  BY <1>6, Zenon DEF Ends, OtherExchangesStay, StreamPermits
<1>7. ASSUME NEW q \in Exchanges, Ends(q), ~request[q].permit
      PROVE  active' = active /\ \A p \in Streaming : StreamPermits(p)' = StreamPermits(p)
  BY <1>7, Zenon DEF Ends, GiveBack, OtherExchangesStay, StreamPermits
<1>8. ASSUME active' = active /\ \A p \in Streaming : StreamPermits(p)' = StreamPermits(p)
      PROVE  active' \in [Streaming -> Nat] /\ Counted'
             /\ \A p \in Streaming : active'[p] > active[p] => active'[p] <= limit
  BY <1>1, <1>8 DEF Counted
<1>9. ASSUME NEW q \in Exchanges, Opens(q)
      PROVE  active' \in [Streaming -> Nat] /\ Counted'
             /\ \A p \in Streaming : active'[p] > active[p] => active'[p] <= limit
  <2>1. PICK k \in Streaming : /\ k = request[q].kind /\ active[k] < limit
                               /\ active' = [active EXCEPT ![k] = active[k] + 1]
    BY <1>9, Zenon DEF Opens
  <2>2. /\ StreamPermits(k)' = StreamPermits(k) \cup {q} /\ q \notin StreamPermits(k)
        /\ \A p \in Streaming \ {k} : StreamPermits(p)' = StreamPermits(p)
    BY <1>5, <1>9, <2>1, Zenon
  <2>3. Cardinality(StreamPermits(k)') = Cardinality(StreamPermits(k)) + 1
    BY <1>2, <2>2, FS_AddElement, Zenon
  <2>4. active'[k] = active[k] + 1 /\ active[k] = Cardinality(StreamPermits(k))
    BY <1>1, <2>1, Zenon DEF Counted
  <2>5. \A p \in Streaming \ {k} : active'[p] = active[p]
    BY <1>1, <2>1, Zenon
  <2>6. Counted'
    BY <2>2, <2>3, <2>4, <2>5, Zenon DEF Counted
  <2> QED
    BY <1>1, <2>1, <2>4, <2>5, <2>6
<1>10. ASSUME NEW q \in Exchanges, Ends(q), request[q].permit
       PROVE  active' \in [Streaming -> Nat] /\ Counted'
              /\ \A p \in Streaming : active'[p] > active[p] => active'[p] <= limit
  <2>1. PICK k \in Streaming : /\ k = request[q].kind
                               /\ active' = [active EXCEPT ![k] = OneFewer(active[k])]
    BY <1>10, Zenon DEF Ends, GiveBack, PermitsOfStreams
  <2>2. /\ StreamPermits(k)' = StreamPermits(k) \ {q} /\ q \in StreamPermits(k)
        /\ \A p \in Streaming \ {k} : StreamPermits(p)' = StreamPermits(p)
    BY <1>6, <1>10, <2>1, Zenon
  <2>3. /\ IsFiniteSet(StreamPermits(k)')
        /\ Cardinality(StreamPermits(k)') = Cardinality(StreamPermits(k)) - 1
    BY <1>2, <2>2, FS_RemoveElement, Zenon
  <2>4. Cardinality(StreamPermits(k)') \in Nat
    BY <2>3, FS_CardinalityType, Zenon
  <2>5. active'[k] = Cardinality(StreamPermits(k)') /\ active'[k] < active[k]
    BY <1>1, <2>1, <2>3, <2>4 DEF Counted, OneFewer
  <2> QED
    BY <1>1, <2>1, <2>2, <2>4, <2>5, SMTT(30) DEF Counted
<1> QED
  BY <1>3, <1>4, <1>7, <1>8, <1>9, <1>10, StreamSteps, ZenonT(30) DEF StreamStep, Still

-----------------------------------------------------------------------------
(* The kinds of step, as far as ejections are concerned *)

InstanceRecords == [failures: Nat, left: Nat]

\* A failure leaves the ejections as they are or begins one anew.
LEMMA FailureEjects ==
    ASSUME UpstreamTypeOK, LeftBounded, NEW q \in Exchanges, FailUpstream(q), request[q].to \in Instances
    PROVE  /\ outlier' \in [Instances -> InstanceRecords]
           /\ \A i \in Instances : outlier'[i].left \in {outlier[i].left, EjectFor}
<1> DEFINE i    == request[q].to
           more == outlier[i].failures + 1
           new  == IF more >= AtLeastOne(EjectAfter) THEN [failures |-> 0, left |-> EjectFor]
                   ELSE [outlier[i] EXCEPT !.failures = more]
<1>1. outlier \in [Instances -> InstanceRecords] /\ outlier[i] \in InstanceRecords /\ more \in Nat
  BY DEF UpstreamTypeOK, InstanceRecords
<1>2. new \in InstanceRecords /\ new.left \in {outlier[i].left, EjectFor}
  <2> HIDE DEF more
  <2> QED
    BY <1>1, GatewayConstants, Zenon DEF InstanceRecords
<1>3. outlier' = [outlier EXCEPT ![i] = new]
  BY Zenon DEF FailUpstream
<1> HIDE DEF new
<1> QED
  BY <1>1, <1>2, <1>3, Zenon

LEMMA TickEjects ==
    ASSUME UpstreamTypeOK, UpstreamTick
    PROVE  /\ outlier' \in [Instances -> InstanceRecords]
           /\ \A i \in Instances : outlier'[i].left = CountDown(outlier[i].left)
<1>1. ASSUME NEW i \in Instances
      PROVE  /\ outlier'[i] \in InstanceRecords /\ outlier'[i].left = CountDown(outlier[i].left)
  <2>1. outlier[i] \in InstanceRecords /\ CountDown(outlier[i].left) \in Nat
    BY NoneIsNoTime DEF UpstreamTypeOK, InstanceRecords, CountDown
  <2>2. outlier'[i] = [outlier[i] EXCEPT !.left = CountDown(outlier[i].left)]
    BY Zenon DEF UpstreamTick
  <2> QED
    BY <2>1, <2>2, Zenon DEF InstanceRecords
<1>2. outlier' = [i \in Instances |-> outlier'[i]]
  BY Zenon DEF UpstreamTick
<1> QED
  BY <1>1, <1>2, Zenon

\* What one step does to the ejections: it keeps the invariant, and it ends one
\* early only where an attempt that had begun before it succeeds.
CutShort(i) == Ejected(i) /\ outlier'[i].left = 0 /\ outlier[i].left > 1

SuccessOf(i) ==
    \E q \in Exchanges : /\ request[q].at = "sent" /\ request'[q].at # "sent"
                         /\ request[q].to = i /\ i \notin avoid[q]

Ejections ==
    /\ outlier' \in [Instances -> InstanceRecords] /\ avoid' \in [Exchanges -> SUBSET Instances]
    /\ LeftBounded' /\ AvoidsEjected'
    /\ \A i \in Instances : CutShort(i) => SuccessOf(i)

LEMMA EjectionStep ==
    ASSUME UpstreamTypeOK, LeftBounded, AvoidsEjected, [UpstreamNext]_upstreamVars
    PROVE  Ejections
<1>1. /\ outlier \in [Instances -> InstanceRecords] /\ avoid \in [Exchanges -> SUBSET Instances]
      /\ \A i \in Instances : outlier[i].left \in Nat
      /\ EjectFor \in Nat
  BY GatewayConstants, Zenon DEF UpstreamTypeOK, InstanceRecords
<1>2. CASE UNCHANGED <<outlier, avoid, request>>
  BY <1>1, <1>2 DEF Ejections, LeftBounded, AvoidsEjected, Ejected, CutShort
<1>3. ASSUME NEW q \in Exchanges, outlier' = outlier, OtherExchangesStay(q),
             avoid' \in [Exchanges -> SUBSET Instances],
             \A p \in Exchanges : p # q => avoid'[p] = avoid[p],
             \A i \in avoid'[q] : Ejected(i),
             request'[q].found \cap avoid'[q] = {},
             request'[q].at \in {"acquire", "sent"}
               => request'[q].to \in Instances /\ request'[q].to \notin avoid'[q]
      PROVE  Ejections
  <2>1. LeftBounded' /\ \A i \in Instances : ~CutShort(i)
    BY <1>1, <1>3 DEF LeftBounded, CutShort
  <2>2. AvoidsEjected'
    BY <1>3, Zenon DEF AvoidsEjected, OtherExchangesStay, Ejected
  <2> QED
    BY <1>1, <1>3, <2>1, <2>2, Zenon DEF Ejections
<1>4. CASE UpstreamTick
  <2>1. LeftBounded'
    BY <1>1, <1>4, TickEjects, NoneIsNoTime DEF LeftBounded, CountDown
  <2>2. \A i \in Instances : ~CutShort(i)
    BY <1>1, <1>4, TickEjects, NoneIsNoTime DEF CutShort, CountDown
  <2>3. /\ request' = request /\ avoid' \in [Exchanges -> SUBSET Instances]
        /\ \A q \in Exchanges : avoid'[q] = {i \in avoid[q] : outlier'[i].left > 0}
    BY <1>1, <1>4, Zenon DEF UpstreamTick
  <2>4. AvoidsEjected'
    BY <2>3, Zenon DEF AvoidsEjected, Ejected
  <2> QED
    BY <1>4, <2>1, <2>2, <2>3, <2>4, TickEjects, Zenon DEF Ejections
<1>5. ASSUME NEW q \in Exchanges, NEW kind \in Streaming \cup {"http"}, ResolveUpstream(q, kind)
      PROVE  Ejections
  <2>1. /\ outlier' = outlier
        /\ avoid' = [avoid EXCEPT ![q] = {i \in Instances : Ejected(i)}]
    BY <1>5, Zenon DEF ResolveUpstream
  <2>2. /\ OtherExchangesStay(q) /\ request'[q].found = {} /\ request'[q].at = "resolve"
    BY <1>5, ResolveEffect, Zenon
  <2> QED
    BY <1>1, <1>3, <2>1, <2>2, Zenon
<1>6. ASSUME NEW q \in Exchanges, NEW i \in Instances, Consider(q, i)
      PROVE  Ejections
  <2>1. outlier' = outlier /\ avoid' = avoid
    BY <1>6, Zenon DEF Consider
  <2>2. request'[q].found \cap avoid[q] = {}
    BY <1>6, ConsiderEffect DEF AvoidsEjected
  <2>3. OtherExchangesStay(q) /\ request'[q].at = "resolve"
    BY <1>6, ConsiderEffect, Zenon
  <2>4. \A j \in avoid[q] : Ejected(j)
    BY Zenon DEF AvoidsEjected
  <2> QED
    BY <1>1, <1>3, <2>1, <2>2, <2>3, <2>4, Zenon
<1>7. ASSUME NEW q \in Exchanges, NEW i \in Instances, Pick(q, i)
      PROVE  Ejections
  <2>1. outlier' = outlier /\ avoid' = avoid /\ i \notin avoid[q]
    BY <1>7, Zenon DEF Pick, AvoidsEjected
  <2>2. OtherExchangesStay(q) /\ request'[q].found = {} /\ request'[q].to = i
    BY <1>7, PickEffect, Zenon
  <2>3. \A j \in avoid[q] : Ejected(j)
    BY Zenon DEF AvoidsEjected
  <2> QED
    BY <1>1, <1>3, <2>1, <2>2, <2>3, Zenon
<1>8. ASSUME NEW q \in Exchanges, LeaveUpstream(q), outlier' = outlier, avoid' = [avoid EXCEPT ![q] = {}]
      PROVE  Ejections
  <2>1. OtherExchangesStay(q) /\ request'[q].at = "out" /\ request'[q].found = {}
    BY <1>8, LeaveEffect, Zenon
  <2> QED
    BY <1>1, <1>3, <1>8, <2>1, Zenon
<1>9. ASSUME NEW q \in Exchanges, Acquire(q)
      PROVE  Ejections
  <2>1. CASE active[request[q].kind] < limit
    <3>1. outlier' = outlier /\ avoid' = avoid /\ request[q].at \in {"acquire", "sent"}
      BY <1>9, <2>1, Zenon DEF Acquire
    <3>2. /\ OtherExchangesStay(q) /\ request'[q].found = request[q].found
          /\ request'[q].to = request[q].to
      BY <1>9, <2>1, AcquireEffect, Zenon
    <3>3. /\ \A j \in avoid[q] : Ejected(j)
          /\ request[q].found \cap avoid[q] = {}
          /\ request[q].to \in Instances /\ request[q].to \notin avoid[q]
      BY <3>1, Zenon DEF AvoidsEjected
    <3> QED
      BY <1>1, <1>3, <3>1, <3>2, <3>3, Zenon
  <2>2. CASE ~(active[request[q].kind] < limit)
    BY <1>8, <1>9, <2>2, Zenon DEF Acquire
  <2> QED
    BY <2>1, <2>2, Zenon
<1>10. ASSUME NEW q \in Exchanges, Succeed(q)
       PROVE  Ejections
  <2>1. PICK i \in Instances :
          /\ i = request[q].to /\ i \notin avoid[q] /\ request[q].at = "sent"
          /\ outlier' = [outlier EXCEPT ![i] = [failures |-> 0, left |-> 0]]
          /\ avoid' = [[p \in Exchanges |-> avoid[p] \ {i}] EXCEPT ![q] = {}]
    BY <1>10, Zenon DEF Succeed, AvoidsEjected, Forget
  <2>2. OtherExchangesStay(q) /\ request'[q].at \in {"out", "stream"}
    BY <1>10, LeaveEffect, StreamEffect, Zenon DEF Succeed
  <2>3. \A j \in Instances : outlier'[j] = IF j = i THEN [failures |-> 0, left |-> 0]
                                                    ELSE outlier[j]
    BY <1>1, <2>1, Zenon
  <2>4. /\ avoid'[q] = {} /\ avoid' \in [Exchanges -> SUBSET Instances]
        /\ \A p \in Exchanges : p # q => avoid'[p] = avoid[p] \ {i}
    BY <1>1, <2>1, Zenon
  <2>5. LeftBounded'
    BY <1>1, <2>3 DEF LeftBounded
  <2>6. outlier' \in [Instances -> InstanceRecords]
    BY <1>1, <2>1, Zenon DEF InstanceRecords
  <2>7. \A j \in Instances : CutShort(j) => SuccessOf(j)
    BY <1>1, <2>1, <2>2, <2>3 DEF CutShort, SuccessOf
  <2>8. AvoidsEjected'
    <3>1. SUFFICES ASSUME NEW p \in Exchanges, p # q
                   PROVE  /\ \A j \in avoid'[p] : outlier'[j].left > 0
                          /\ request'[p].found \cap avoid'[p] = {}
                          /\ request'[p].at \in {"acquire", "sent"}
                               => request'[p].to \in Instances /\ request'[p].to \notin avoid'[p]
      BY <2>2, <2>4, Zenon DEF AvoidsEjected, Ejected
    <3> QED
      BY <1>1, <2>2, <2>3, <2>4, <3>1 DEF AvoidsEjected, Ejected, OtherExchangesStay
  <2> QED
    BY <2>4, <2>5, <2>6, <2>7, <2>8, Zenon DEF Ejections
<1>11. ASSUME NEW q \in Exchanges, FailUpstream(q)
       PROVE  Ejections
  <2>1. request[q].to \in Instances /\ LeaveUpstream(q) /\ avoid' = [avoid EXCEPT ![q] = {}]
    BY <1>11, Zenon DEF FailUpstream, AvoidsEjected
  <2>2. OtherExchangesStay(q) /\ request'[q].at = "out" /\ request'[q].found = {}
    BY <2>1, LeaveEffect, Zenon
  <2>3. /\ outlier' \in [Instances -> InstanceRecords]
        /\ \A i \in Instances : outlier'[i].left \in {outlier[i].left, EjectFor}
    BY <1>11, <2>1, FailureEjects, Zenon
  <2>4. LeftBounded' /\ \A i \in Instances : Ejected(i) => outlier'[i].left > 0
    BY <1>1, <2>3 DEF LeftBounded, Ejected
  <2>5. \A i \in Instances : ~CutShort(i)
    BY <2>4 DEF CutShort
  <2>6. /\ avoid'[q] = {} /\ avoid' \in [Exchanges -> SUBSET Instances]
        /\ \A p \in Exchanges : p # q => avoid'[p] = avoid[p]
    BY <1>1, <2>1, Zenon
  <2>7. AvoidsEjected'
    BY <1>1, <2>2, <2>4, <2>6, Zenon DEF AvoidsEjected, Ejected, OtherExchangesStay
  <2> QED
    BY <2>3, <2>4, <2>5, <2>6, <2>7, Zenon DEF Ejections
<1>12. ASSUME NEW q \in Exchanges, DropAttempt(q)
       PROVE  Ejections
  BY <1>8, <1>12, Zenon DEF DropAttempt
<1>13. CASE UNCHANGED upstreamVars \/ (\E maximum \in StreamLimits : Reload(maximum))
            \/ (\E i \in Instances, ok \in BOOLEAN : Probe(i, ok))
  BY <1>2, <1>13, Zenon DEF upstreamVars, Reload, Probe
<1> QED
  BY <1>4, <1>5, <1>6, <1>7, <1>9, <1>10, <1>11, <1>12, <1>13, ZenonT(30) DEF UpstreamNext

-----------------------------------------------------------------------------
(* The theorems *)

LEMMA UpstreamInvPreserved == UpstreamInv /\ [UpstreamNext]_upstreamVars => UpstreamInv'
<1> SUFFICES ASSUME UpstreamInv, [UpstreamNext]_upstreamVars PROVE UpstreamInv'
  BY Zenon
<1>1. UpstreamTypeOK /\ LeftBounded /\ AvoidsEjected /\ PermitsOfStreams /\ Counted
  BY Zenon DEF UpstreamInv
<1>2. limit' \in Nat
  BY <1>1, GatewayConstants, Zenon
     DEF UpstreamTypeOK, UpstreamNext, upstreamVars, UpstreamTick, Reload, Probe,
         ResolveUpstream, Consider, Pick, Acquire, Succeed, FailUpstream, DropAttempt
<1>3. Typed /\ PermitsOfStreams'
  BY <1>1, StreamSteps, Zenon
<1>4. active' \in [Streaming -> Nat] /\ Counted'
  BY <1>1, CountStep, Zenon
<1>5. Ejections
  BY <1>1, EjectionStep, Zenon
<1> QED
  BY <1>2, <1>3, <1>4, <1>5, Zenon DEF UpstreamInv, UpstreamTypeOK, Typed, Ejections, InstanceRecords

\* The counter of open streams is the number of permits that are held, whatever
\* the limits that reloads bring, and no stream opens at or over the limit of the
\* moment (StreamConnectionPermit, build_gateway_runtime).
THEOREM StreamsAlwaysCounted == UpstreamSpec => StreamsCounted
<1>1. UpstreamInv /\ [UpstreamNext]_upstreamVars
      => [\A p \in Streaming :
            /\ active'[p] = Cardinality({q \in Exchanges : request'[q].permit /\ request'[q].kind = p})
            /\ active'[p] > active[p] => active'[p] <= limit]_upstreamVars
  BY CountStep, Zenon DEF UpstreamInv, Counted, StreamPermits
<1> QED
  BY <1>1, UpstreamInitInv, UpstreamInvPreserved, PTL DEF UpstreamSpec, StreamsCounted

\* An ejection ends early only by the success of an attempt that had begun before
\* it, for any number of requests and instances (record_outlier_success).
THEOREM EjectionsHold == UpstreamSpec => EjectionHolds
<1>1. UpstreamInv /\ [UpstreamNext]_upstreamVars
      => [\A i \in Instances :
            Ejected(i) /\ outlier'[i].left = 0 /\ outlier[i].left > 1
            => \E q \in Exchanges : /\ request[q].at = "sent" /\ request'[q].at # "sent"
                                    /\ request[q].to = i /\ i \notin avoid[q]]_upstreamVars
  BY EjectionStep, Zenon DEF UpstreamInv, Ejections, CutShort, SuccessOf
<1> QED
  BY <1>1, UpstreamInitInv, UpstreamInvPreserved, PTL DEF UpstreamSpec, EjectionHolds

=============================================================================
