---------------------------- MODULE RetryBudget ----------------------------
(***************************************************************************)
(* The two budgets that bound retries: RetryBudgetRegistry of              *)
(* roze-resilience (a share of the calls of a window, per operation) and   *)
(* the counter that a Context of roze-context carries from hop to hop.     *)
(***************************************************************************)
EXTENDS Clock

CONSTANTS
    BudgetPercent,  \* retry policy: budget_percent, or None
    BudgetWindow,   \* RetryBudgetRegistry::window
    MaxPropagated   \* MAX_PROPAGATED_RETRY_BUDGET

ASSUME RetryBudgetConstants ==
    BudgetPercent \in Time /\ BudgetWindow \in Nat /\ MaxPropagated \in Nat

AtMost(n, limit) == IF n < limit THEN n ELSE limit

-----------------------------------------------------------------------------
(* RetryBudgetRegistry: age is the time since window_start, up to the first *)
(* instant at which the window is over.                                     *)

NewWindow == [calls |-> 0, retries |-> 0, age |-> 0]

\* reset_retry_budget_window
Current(w) == IF w.age > BudgetWindow THEN NewWindow ELSE w

RecordCall(w) == [Current(w) EXCEPT !.calls = @ + 1]

Allowance(w) == AtLeastOne((w.calls * AtMost(BudgetPercent, 100)) \div 100)

RetryAllowed(w) == BudgetPercent = None \/ Current(w).retries < Allowance(Current(w))

AllowRetry(w) ==
    IF BudgetPercent = None THEN w
    ELSE IF RetryAllowed(w) THEN [Current(w) EXCEPT !.retries = @ + 1]
    ELSE Current(w)

WindowTick(w) == [w EXCEPT !.age = AtMost(@ + 1, BudgetWindow + 1)]

-----------------------------------------------------------------------------
(* Context: each is one atomic update of the shared counter. *)

EnsureBudget(budget, n) == IF budget = None THEN AtMost(n, MaxPropagated) ELSE budget

Consumable(budget) == budget = None \/ budget > 0

Consume(budget) == IF budget = None THEN None ELSE budget - 1

\* take_retry_budget_up_to: what is taken, and what is left.
Taken(budget, maximum) == IF budget = None THEN 0 ELSE AtMost(budget, maximum)

LeftOver(budget, maximum) == IF budget = None THEN None ELSE budget - Taken(budget, maximum)

Restore(budget, n) ==
    IF n = 0 THEN budget
    ELSE IF budget = None THEN EnsureBudget(budget, n)
    ELSE AtMost(budget + n, MaxPropagated)

=============================================================================
