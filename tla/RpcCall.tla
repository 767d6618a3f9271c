------------------------------ MODULE RpcCall ------------------------------
(***************************************************************************)
(* The client side of an RPC (roze-rpc): retry_status_with_policy around   *)
(* the attempts of a generated client, which gives each attempt a share of *)
(* the budget of its request and takes back what the response reports.     *)
(* The calls of one request share its Context; all calls share the breaker *)
(* and the retry window of the method.  A call may be dropped wherever it  *)
(* awaits.  The server answers with any status.                            *)
(***************************************************************************)
EXTENDS Breaker, RetryBudget, FiniteSets

CONSTANTS
    Requests, Lanes,  \* requests, and the calls each makes at the same time
    MaxRetries,       \* MethodRetryPolicy::max_retries
    Backoff,          \* the largest jittered delay of a retry
    Grants,           \* budgets that a request may bring along (None: none)
    Deadlines,        \* times that a request may have (None: no deadline)
    CallBound         \* bound: calls in one retry window

ASSUME RpcCallConstants ==
    /\ {MaxRetries, Backoff, CallBound} \subseteq Nat
    /\ Grants \subseteq Time /\ Deadlines \subseteq Time
    /\ IsFiniteSet(Lanes)

VARIABLES
    breaker,  \* CLIENT_BREAKERS, for the method
    window,   \* CLIENT_RETRY_BUDGETS, for the method
    ctx,      \* the Context of each request
    call,     \* the state of each call
    retries   \* per request: retries made, here and by its servers

vars == <<breaker, window, ctx, call, retries>>

Calls == Requests \X Lanes

\* A status by what the client tells apart: Unavailable, DeadlineExceeded and
\* Unknown; Internal and DataLoss; Cancelled; success and the others, which are
\* not retried and count as successes for the breaker.
Statuses == {"ok", "transient", "fault", "cancelled"}

ASSUME NoneIsNoStatus == None \notin Statuses

ShouldRetry(status)     == status = "transient"
BreakerFailed(status)   == status \in {"transient", "fault"}

IdleCall ==
    [at |-> "idle", permit |-> None, attempt |-> 0, seen |-> 0, allocated |-> 0,
     status |-> "ok", delay |-> 0]

\* grant: what the counter was first set to.
NewContexts ==
    {[budget |-> g, grant |-> g, cancelled |-> FALSE, deadline |-> d] :
        g \in {IF g = None THEN None ELSE AtMost(g, MaxPropagated) : g \in Grants},
        d \in Deadlines}

Init ==
    /\ breaker = ClosedBreaker
    /\ window = NewWindow
    /\ ctx \in [Requests -> NewContexts]
    /\ call = [c \in Calls |-> IdleCall]
    /\ retries = [r \in Requests |-> 0]

\* retry_context_status: the status that stops a retry after `delay', if any.
ContextStatus(r, delay) ==
    CASE ctx[r].cancelled -> "cancelled"
      [] ctx[r].deadline # None /\ ctx[r].deadline <= delay -> "transient"
      [] OTHER -> None

SetBudget(r, budget) == ctx' = [ctx EXCEPT ![r].budget = budget]

EndWith(c, status) == call' = [call EXCEPT ![c].at = "end", ![c].status = status]

-----------------------------------------------------------------------------
(* retry_status_with_policy, up to its loop *)

AskBreaker(c) ==
    /\ call[c].at = "idle"
    /\ Current(window).calls < CallBound
    /\ breaker' = BreakerAllow(breaker)
    /\ call' = IF BreakerPermit(breaker) = None THEN call
               ELSE [call EXCEPT ![c].at = "start", ![c].permit = BreakerPermit(breaker)]
    /\ UNCHANGED <<window, ctx, retries>>

\* ensure_retry_budget and record_call.
Start(c) ==
    LET r == c[1]
        budget == EnsureBudget(ctx[r].budget, MaxRetries)
    IN  /\ call[c].at = "start"
        /\ ctx' = [ctx EXCEPT ![r].budget = budget,
                              ![r].grant = IF @ = None THEN budget ELSE @]
        /\ window' = RecordCall(window)
        /\ call' = [call EXCEPT ![c].at = "attempt"]
        /\ UNCHANGED <<breaker, retries>>

-----------------------------------------------------------------------------
(* An attempt: delegate_retry_budget reads the counter, then takes half of  *)
(* what it read; reconcile_delegated_retry_budget gives back what the       *)
(* answer reports.                                                          *)

ReadBudget(c) ==
    /\ call[c].at = "attempt"
    /\ call' = [call EXCEPT ![c].at = "delegate", ![c].seen = ctx[c[1]].budget]
    /\ UNCHANGED <<breaker, window, ctx, retries>>

TakeShare(c) ==
    LET budget == ctx[c[1]].budget
        half   == call[c].seen \div 2
    IN  /\ call[c].at = "delegate"
        /\ SetBudget(c[1], LeftOver(budget, half))
        /\ call' = [call EXCEPT ![c].at = "flight", ![c].allocated = Taken(budget, half),
                                 ![c].seen = 0]
        /\ UNCHANGED <<breaker, window, retries>>

\* DynamicRpcChannels::attempt finds no instance or cannot connect.
NoChannel(c) ==
    /\ call[c].at = "flight"
    /\ call' = [call EXCEPT ![c].at = "answered", ![c].allocated = 0, ![c].status = "transient"]
    /\ UNCHANGED <<breaker, window, ctx, retries>>

\* A server that spent some of its share reports at most what is left; one that
\* spent nothing may report anything, more than its share included.
Reports(allocated, spent) ==
    IF spent = 0 THEN 0..MaxPropagated ELSE 0..(allocated - spent)

\* Mutant: the report is believed.
AnswerBelieved(c, status, spent, reported) ==
    LET r == c[1]
    IN  /\ call[c].at = "flight"
        /\ SetBudget(r, Restore(ctx[r].budget, reported))
        /\ retries' = [retries EXCEPT ![r] = @ + spent]
        /\ call' = [call EXCEPT ![c].at = "answered", ![c].allocated = 0, ![c].status = status]
        /\ UNCHANGED <<breaker, window>>

Answer(c, status, spent, reported) ==
    LET r == c[1]
    IN  /\ call[c].at = "flight"
        /\ SetBudget(r, Restore(ctx[r].budget, AtMost(reported, call[c].allocated)))
        /\ retries' = [retries EXCEPT ![r] = @ + spent]
        /\ call' = [call EXCEPT ![c].at = "answered", ![c].allocated = 0, ![c].status = status]
        /\ UNCHANGED <<breaker, window>>

-----------------------------------------------------------------------------
(* The loop *)

Retryable(c) == ShouldRetry(call[c].status) /\ call[c].attempt < MaxRetries

GiveUp(c) ==
    /\ call[c].at = "answered" /\ ~Retryable(c)
    /\ EndWith(c, call[c].status)
    /\ UNCHANGED <<breaker, window, ctx, retries>>

\* allow_retry, then retry_context_status with the delay.
Schedule(c, delay) ==
    LET stop == ContextStatus(c[1], delay)
    IN  /\ call[c].at = "answered" /\ Retryable(c)
        /\ window' = AllowRetry(window)
        /\ CASE ~RetryAllowed(window) -> EndWith(c, call[c].status)
             [] RetryAllowed(window) /\ stop # None -> EndWith(c, stop)
             [] OTHER -> call' = [call EXCEPT ![c].at = "sleep", ![c].delay = delay]
        /\ UNCHANGED <<breaker, ctx, retries>>

\* Mutant: the context is not looked at after the backoff.
WakeUnchecked(c) ==
    LET r == c[1]
    IN  /\ call[c].at = "sleep" /\ call[c].delay = 0
        /\ IF Consumable(ctx[r].budget)
           THEN /\ SetBudget(r, Consume(ctx[r].budget))
                /\ retries' = [retries EXCEPT ![r] = @ + 1]
                /\ call' = [call EXCEPT ![c].at = "attempt", ![c].attempt = @ + 1]
           ELSE EndWith(c, call[c].status) /\ UNCHANGED <<ctx, retries>>
        /\ UNCHANGED <<breaker, window>>

\* Mutant: a call whose request has ended waits for it to go on.
WakeWaits(c) ==
    LET r == c[1]
    IN  /\ call[c].at = "sleep" /\ call[c].delay = 0
        /\ ContextStatus(r, 0) = None
        /\ IF Consumable(ctx[r].budget)
           THEN /\ SetBudget(r, Consume(ctx[r].budget))
                /\ retries' = [retries EXCEPT ![r] = @ + 1]
                /\ call' = [call EXCEPT ![c].at = "attempt", ![c].attempt = @ + 1, ![c].status = "ok"]
           ELSE EndWith(c, call[c].status) /\ UNCHANGED <<ctx, retries>>
        /\ UNCHANGED <<breaker, window>>

\* After the backoff: retry_context_status again, then try_consume_retry_budget.
Wake(c) ==
    LET r == c[1]
        stop == ContextStatus(r, 0)
    IN  /\ call[c].at = "sleep" /\ call[c].delay = 0
        /\ \/ /\ stop # None
              /\ EndWith(c, stop)
              /\ UNCHANGED <<ctx, retries>>
           \/ /\ stop = None /\ ~Consumable(ctx[r].budget)
              /\ EndWith(c, call[c].status)
              /\ UNCHANGED <<ctx, retries>>
           \/ /\ stop = None /\ Consumable(ctx[r].budget)
              /\ SetBudget(r, Consume(ctx[r].budget))
              /\ retries' = [retries EXCEPT ![r] = @ + 1]
              /\ call' = [call EXCEPT ![c].at = "attempt", ![c].attempt = @ + 1, ![c].status = "ok"]
        /\ UNCHANGED <<breaker, window>>

\* ClientBreakerGuard::finish.
Finish(c) ==
    LET permit == call[c].permit
    IN  /\ call[c].at = "end"
        /\ breaker' = CASE call[c].status = "cancelled" -> BreakerCancel(breaker, permit)
                        [] BreakerFailed(call[c].status) -> BreakerFailure(breaker, permit)
                        [] OTHER -> BreakerSuccess(breaker, permit)
        /\ call' = [call EXCEPT ![c] = IdleCall]
        /\ UNCHANGED <<window, ctx, retries>>

\* Mutant: no guard cancels the permit of a dropped call.
DropCallUnguarded(c) ==
    /\ call[c].at \in {"flight", "sleep"}
    /\ call' = [call EXCEPT ![c] = IdleCall]
    /\ UNCHANGED <<breaker, window, ctx, retries>>

\* The caller drops the call at an await: ClientBreakerGuard::drop.
DropCall(c) ==
    /\ call[c].at \in {"flight", "sleep"}
    /\ breaker' = BreakerCancel(breaker, call[c].permit)
    /\ call' = [call EXCEPT ![c] = IdleCall]
    /\ UNCHANGED <<window, ctx, retries>>

-----------------------------------------------------------------------------
(* The request and time *)

CancelRequest(r) ==
    /\ ~ctx[r].cancelled
    /\ ctx' = [ctx EXCEPT ![r].cancelled = TRUE]
    /\ UNCHANGED <<breaker, window, call, retries>>

NextRequest(r) ==
    /\ \A l \in Lanes : call[<<r, l>>].at = "idle"
    /\ \E new \in NewContexts : ctx' = [ctx EXCEPT ![r] = new]
    /\ retries' = [retries EXCEPT ![r] = 0]
    /\ UNCHANGED <<breaker, window, call>>

Tick ==
    /\ breaker' = BreakerTick(breaker)
    /\ window' = WindowTick(window)
    /\ ctx' = [r \in Requests |-> [ctx[r] EXCEPT !.deadline = CountDown(@)]]
    /\ call' = [c \in Calls |-> [call[c] EXCEPT !.delay = CountDown(@)]]
    /\ UNCHANGED retries

Respond(c) ==
    \E status \in Statuses, spent \in 0..call[c].allocated :
       \E reported \in Reports(call[c].allocated, spent) : Answer(c, status, spent, reported)

\* What a running call does of itself, once its server answers.
Proceed(c) ==
    \/ Start(c) \/ ReadBudget(c) \/ TakeShare(c) \/ NoChannel(c) \/ Respond(c)
    \/ GiveUp(c) \/ (\E delay \in 0..Backoff : Schedule(c, delay)) \/ Wake(c) \/ Finish(c)

Next ==
    \/ Tick
    \/ \E c \in Calls : AskBreaker(c) \/ Proceed(c) \/ DropCall(c)
    \/ \E r \in Requests : CancelRequest(r) \/ NextRequest(r)

Spec == Init /\ [][Next]_vars

\* Time passes; a call that can go on does, and its server answers.
Fairness == WF_vars(Tick) /\ \A c \in Calls : WF_vars(Proceed(c))

FairSpec == Spec /\ Fairness

-----------------------------------------------------------------------------
(* Properties. *)

\* The retries that the calls of r have handed to servers, one element for each.
Allocated(r)  == [l \in Lanes |-> call[<<r, l>>].allocated]
Shares(alloc) == UNION {{l} \X (1..alloc[l]) : l \in Lanes}

\* Shares are split off, never copied: what is left of a request's budget, what
\* its calls have handed to servers and the retries already made are never more
\* than the budget it started with, whatever the calls do at the same time
\* (delegate_retry_budget, reconcile_delegated_retry_budget).
BudgetConserved ==
    \A r \in Requests :
       ctx[r].budget # None =>
          ctx[r].budget + retries[r] + Cardinality(Shares(Allocated(r))) <= ctx[r].grant

\* A probe is carried by exactly one call while the breaker is half-open: drops,
\* cancellations and exhausted budgets all settle it (ClientBreakerGuard).
ProbeIsCarried ==
    /\ breaker.phase = "half_open" <=> \E c \in Calls : call[c].permit = "probe"
    /\ Cardinality({c \in Calls : call[c].permit = "probe"}) <= 1

\* Once a request is cancelled, or its time is up, none of its calls starts
\* another attempt.
NoRetryAfterEnd ==
    [][\A c \in Calls : call'[c].attempt > call[c].attempt
         => ~ctx[c[1]].cancelled /\ ctx[c[1]].deadline # 0]_vars

\* Every call comes back, whatever statuses it is given: with ProbeIsCarried, no
\* half-open breaker stays so.
CallsReturn == \A c \in Calls : call[c].at # "idle" ~> call[c].at = "idle"

=============================================================================
