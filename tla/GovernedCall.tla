---------------------------- MODULE GovernedCall ----------------------------
(***************************************************************************)
(* The governance of one operation at each boundary that roze governs: a   *)
(* REST route (roze-middleware), an RPC method (roze-rpc), a gateway route *)
(* (roze-gateway), a message consumer (roze-mq) and a job (roze-job).  All *)
(* ask the breaker, then the shedder, and settle both when the call ends;  *)
(* they differ in what a shed call, a dropped call and a failed attempt do. *)
(* Each registry call is one step, so calls on other threads come between. *)
(***************************************************************************)
EXTENDS Breaker, Shedding, RetryBudget, FiniteSets

CONSTANTS
    Boundaries,    \* the boundaries looked at
    Calls,         \* calls that may be under way at the same time
    Policy,        \* what the policy configures: SUBSET {"breaker", "shedding"}
    MaxRetries,    \* retries of a call: max_retries, or max_attempts - 1
    SampleBound,   \* bound: samples the shedding window may hold
    LatencyBound,  \* bound: latencies from here on are alike
    CallBound      \* bound: calls in one retry window

Guarded == {"rest", "rpc"}
Tasks   == {"mq", "job"}

ASSUME GovernedCallConstants ==
    /\ Boundaries \subseteq Guarded \cup {"gateway"} \cup Tasks
    /\ Policy \subseteq {"breaker", "shedding"}
    /\ {MaxRetries, SampleBound, LatencyBound, CallBound} \subseteq Nat
    /\ IsFiniteSet(Calls)

VARIABLES
    boundary,  \* the boundary that this operation belongs to
    breaker,   \* BreakerRegistry, for the operation's key
    shedder,   \* SheddingRegistry, for the operation's key
    window,    \* RetryBudgetRegistry, for the operation's key
    at,        \* where each call is
    permit,    \* its breaker permit
    elapsed,   \* time since it was admitted
    result,    \* did it count as a success
    retries,   \* retries it has made
    lost       \* history: slots and probe permits that no call holds any more

vars == <<boundary, breaker, shedder, window, at, permit, elapsed, result, retries, lost>>

\* out: no call; admit: asks the shedder; refused: was shed and gives its permit
\* back; enter: admitted, not yet counted; run: in its handler; sleep: between
\* two attempts; failed: gave up retrying; record: between the two calls that
\* settle it; drop: between the two calls that drop it.
Places == {"out", "admit", "refused", "enter", "run", "sleep", "failed", "record", "drop"}

HoldsSlot(q) == at[q] \in Places \ {"out", "admit", "refused"}

Init ==
    /\ boundary \in Boundaries
    /\ breaker = ClosedBreaker
    /\ shedder = EmptyShedder
    /\ window = NewWindow
    /\ at = [q \in Calls |-> "out"]
    /\ permit = [q \in Calls |-> None]
    /\ elapsed = [q \in Calls |-> 0]
    /\ result = [q \in Calls |-> TRUE]
    /\ retries = [q \in Calls |-> 0]
    /\ lost = [slots |-> 0, probe |-> FALSE]

Go(q, place) == at' = [at EXCEPT ![q] = place]

\* The call is over, and its guard, if it had one, is gone.
Leave(q) ==
    /\ Go(q, "out")
    /\ permit' = [permit EXCEPT ![q] = None]
    /\ elapsed' = [elapsed EXCEPT ![q] = 0]
    /\ result' = [result EXCEPT ![q] = TRUE]
    /\ retries' = [retries EXCEPT ![q] = 0]

LoseProbe(q) == lost' = [lost EXCEPT !.probe = @ \/ permit[q] = "probe"]

-----------------------------------------------------------------------------
(* The start of a call *)

\* BreakerRegistry::allow; a rejected call is answered `circuit open'.
AskBreaker(q) ==
    /\ at[q] = "out"
    /\ \/ /\ "breaker" \notin Policy
          /\ Go(q, "admit")
          /\ UNCHANGED <<breaker, permit>>
       \/ /\ "breaker" \in Policy
          /\ breaker' = BreakerAllow(breaker)
          /\ permit' = [permit EXCEPT ![q] = BreakerPermit(breaker)]
          /\ Go(q, IF BreakerPermit(breaker) = None THEN "out" ELSE "admit")
    /\ UNCHANGED <<boundary, shedder, window, elapsed, result, retries, lost>>

\* A route or a method runs its handler at once; the others record the call
\* with the retry window first.
Admit(q) ==
    /\ at[q] = "admit"
    /\ "shedding" \in Policy => SheddingAllows(shedder)
    /\ shedder' = IF "shedding" \in Policy THEN SheddingAllow(shedder) ELSE shedder
    /\ Go(q, IF boundary \in Guarded THEN "run" ELSE "enter")
    /\ UNCHANGED <<boundary, breaker, window, permit, elapsed, result, retries, lost>>

\* `load shed': begin_route and begin_method return before a guard exists.
ShedKeepingPermit(q) ==
    /\ at[q] = "admit"
    /\ "shedding" \in Policy /\ ~SheddingAllows(shedder)
    /\ shedder' = SheddingAllow(shedder)
    /\ LoseProbe(q)
    /\ Leave(q)
    /\ UNCHANGED <<boundary, breaker, window>>

Shed(q) ==
    /\ at[q] = "admit"
    /\ "shedding" \in Policy /\ ~SheddingAllows(shedder)
    /\ shedder' = SheddingAllow(shedder)
    /\ Go(q, "refused")
    /\ UNCHANGED <<boundary, breaker, window, permit, elapsed, result, retries, lost>>

\* Mutant: a shed call keeps its permit, as in begin_route.
GivePermitBackForgotten(q) ==
    /\ at[q] = "refused"
    /\ Leave(q)
    /\ UNCHANGED <<boundary, breaker, shedder, window, lost>>

GivePermitBack(q) ==
    /\ at[q] = "refused"
    /\ breaker' = BreakerCancel(breaker, permit[q])
    /\ Leave(q)
    /\ UNCHANGED <<boundary, shedder, window, lost>>

\* RetryBudgetRegistry::record_call.
CountCall(q) ==
    /\ at[q] = "enter"
    /\ Current(window).calls < CallBound
    /\ window' = RecordCall(window)
    /\ Go(q, "run")
    /\ UNCHANGED <<boundary, breaker, shedder, permit, elapsed, result, retries, lost>>

-----------------------------------------------------------------------------
(* Retries of a failed attempt: allow_retry, the backoff, the next attempt.  *)
(* At the gateway the deadline of the request may stop it before or after    *)
(* the backoff, and the failure may be one that is not retried.              *)

TryRetry(q) ==
    /\ at[q] = "run" /\ retries[q] < MaxRetries
    /\ window' = AllowRetry(window)
    /\ \/ RetryAllowed(window) /\ Go(q, "sleep")
       \/ ~RetryAllowed(window) /\ Go(q, "failed")
       \/ boundary = "gateway" /\ RetryAllowed(window) /\ Go(q, "failed")
    /\ UNCHANGED <<boundary, breaker, shedder, permit, elapsed, result, retries, lost>>

Resume(q) ==
    /\ at[q] = "sleep"
    /\ \/ /\ Go(q, "run")
          /\ retries' = [retries EXCEPT ![q] = @ + 1]
       \/ /\ boundary = "gateway"
          /\ Go(q, "failed")
          /\ UNCHANGED retries
    /\ UNCHANGED <<boundary, breaker, shedder, window, permit, elapsed, result, lost>>

-----------------------------------------------------------------------------
(* The end of a call *)

\* A consumer or a job ends in failure only when it may not be retried; a
\* WebSocket at the gateway is neither counted nor retried.
RecordBreaker(q, success) ==
    /\ \/ at[q] = "run" /\ (success \/ boundary \notin Tasks \/ retries[q] = MaxRetries)
       \/ at[q] = "failed" /\ ~success
       \/ at[q] = "enter" /\ boundary = "gateway"
    /\ breaker' = IF success THEN BreakerSuccess(breaker, permit[q])
                  ELSE BreakerFailure(breaker, permit[q])
    /\ Go(q, "record")
    /\ permit' = [permit EXCEPT ![q] = None]
    /\ result' = [result EXCEPT ![q] = success]
    /\ UNCHANGED <<boundary, shedder, window, elapsed, retries, lost>>

RecordShedding(q) ==
    /\ at[q] = "record"
    /\ "shedding" \in Policy => Total(shedder.buckets, "samples") < SampleBound
    /\ shedder' = IF "shedding" \in Policy
                  THEN SheddingRecord(shedder, result[q], elapsed[q]) ELSE shedder
    /\ Leave(q)
    /\ UNCHANGED <<boundary, breaker, window, lost>>

\* The Drop of a RouteGuard or MethodGuard, in its two calls; and the gateway's
\* answer to a body that it cannot read, before the call is counted.
CancelBreaker(q) ==
    /\ at[q] = (IF boundary \in Guarded THEN "run" ELSE "enter")
    /\ breaker' = BreakerCancel(breaker, permit[q])
    /\ Go(q, "drop")
    /\ permit' = [permit EXCEPT ![q] = None]
    /\ UNCHANGED <<boundary, shedder, window, elapsed, result, retries, lost>>

ReleaseShedding(q) ==
    /\ at[q] = "drop"
    /\ shedder' = IF "shedding" \in Policy THEN SheddingRelease(shedder) ELSE shedder
    /\ Leave(q)
    /\ UNCHANGED <<boundary, breaker, window, lost>>

\* The gateway's request is dropped at an await: GatewaySheddingGuard gives the
\* slot back, and nothing gives the permit back.
DropRequest(q) ==
    /\ at[q] \in {"enter", "run", "sleep"}
    /\ shedder' = IF "shedding" \in Policy THEN SheddingRelease(shedder) ELSE shedder
    /\ LoseProbe(q)
    /\ Leave(q)
    /\ UNCHANGED <<boundary, breaker, window>>

\* The task of a consumer or a job is aborted or panics: there is no guard.
AbortTask(q) ==
    /\ at[q] \in {"run", "sleep"}
    /\ lost' = [slots |-> lost.slots + 1, probe |-> lost.probe \/ permit[q] = "probe"]
    /\ Leave(q)
    /\ UNCHANGED <<boundary, breaker, shedder, window>>

-----------------------------------------------------------------------------
Tick ==
    /\ breaker' = BreakerTick(breaker)
    /\ shedder' = SheddingTick(shedder)
    /\ window' = WindowTick(window)
    /\ elapsed' = [q \in Calls |->
                     IF at[q] \in {"enter", "run", "sleep", "failed"} /\ elapsed[q] < LatencyBound
                     THEN elapsed[q] + 1 ELSE elapsed[q]]
    /\ UNCHANGED <<boundary, at, permit, result, retries, lost>>

Settle(q) == RecordShedding(q) \/ \E success \in BOOLEAN : RecordBreaker(q, success)
Retry(q)  == CountCall(q) \/ TryRetry(q) \/ Resume(q)

Route(q) ==
    /\ boundary = "rest"
    /\ \/ AskBreaker(q) \/ Admit(q) \/ ShedKeepingPermit(q) \/ Settle(q)
       \/ CancelBreaker(q) \/ ReleaseShedding(q)

Method(q) ==
    /\ boundary = "rpc"
    /\ \/ AskBreaker(q) \/ Admit(q) \/ ShedKeepingPermit(q) \/ Settle(q)
       \/ CancelBreaker(q) \/ ReleaseShedding(q)

GatewayRequest(q) ==
    /\ boundary = "gateway"
    /\ \/ AskBreaker(q) \/ Admit(q) \/ Shed(q) \/ GivePermitBack(q) \/ Retry(q) \/ Settle(q)
       \/ CancelBreaker(q) \/ ReleaseShedding(q) \/ DropRequest(q)

Delivery(q) ==
    /\ boundary = "mq"
    /\ \/ AskBreaker(q) \/ Admit(q) \/ Shed(q) \/ GivePermitBack(q) \/ Retry(q) \/ Settle(q)
       \/ AbortTask(q)

JobRun(q) ==
    /\ boundary = "job"
    /\ \/ AskBreaker(q) \/ Admit(q) \/ Shed(q) \/ GivePermitBack(q) \/ Retry(q) \/ Settle(q)
       \/ AbortTask(q)

Next ==
    \/ Tick
    \/ \E q \in Calls : Route(q) \/ Method(q) \/ GatewayRequest(q) \/ Delivery(q) \/ JobRun(q)

Spec == Init /\ [][Next]_vars

-----------------------------------------------------------------------------
(* Properties. *)

\* The in-flight counter is the number of calls that hold a slot, plus the slots
\* that aborted tasks took with them, and never more than the limit: no order of
\* finishes, drops and rejections leaks a slot at a boundary that has a guard,
\* and none gives one back twice anywhere (saturating_sub would hide it).
SlotsMatch ==
    "shedding" \in Policy =>
        /\ shedder.inFlight = Cardinality({q \in Calls : HoldsSlot(q)}) + lost.slots
        /\ shedder.inFlight <= AtLeastOne(Concurrency)
        /\ lost.slots > 0 => boundary \in Tasks

\* At most one call holds a probe permit, only while the breaker is half-open
\* (docs/contracts/middleware.md, breaker_allows_exactly_one_half_open_probe),
\* and a half-open breaker has its probe carried by a call, unless that probe
\* was lost: by a shed route or method, by a dropped gateway request, or with an
\* aborted task.  Nothing else loses a probe, and a lost one is lost for good.
ProbeAccounted ==
    LET carried == {q \in Calls : permit[q] = "probe"}
    IN  /\ Cardinality(carried) <= 1
        /\ carried # {} => breaker.phase = "half_open" /\ ~lost.probe
        /\ breaker.phase = "half_open" => carried # {} \/ lost.probe
        /\ lost.probe => breaker.phase = "half_open"

\* The breaker closes again only by the success of its probe: a call that
\* started while it was closed cannot close it later.
ClosedByProbe ==
    [][breaker.phase # "closed" /\ breaker'.phase = "closed"
         => \E q \in Calls : permit[q] = "probe" /\ at'[q] = "record" /\ result'[q]]_vars

\* A cancelled or shed call never opens a closed breaker, and a probe that is
\* cancelled or fails makes callers wait a whole reset interval again.
OpensForAnInterval ==
    [][breaker.phase # "open" /\ breaker'.phase = "open"
         => /\ breaker'.openUntil = ResetTimeout
            /\ breaker.phase = "closed" => \E q \in Calls : at'[q] = "record" /\ ~result'[q]]_vars

\* A half-open breaker is waiting for the probe that some call carries
\* (docs/contracts/middleware.md:126-128: "exactly one request receives a
\* half-open probe permit; concurrent requests remain rejected until that probe
\* completes").
HalfOpenHasProbe ==
    breaker.phase = "half_open" => \E q \in Calls : permit[q] = "probe"

=============================================================================
