-------------------------------- MODULE Saga --------------------------------
(***************************************************************************)
(* TransactionPlan of roze-transaction, also named Saga: execute applies   *)
(* the actions in order and, when one fails, rolls back those before it in *)
(* reverse, ignoring rollbacks that fail; execute_with_retry starts again  *)
(* from the first action.  An action that fails has had no effect.  The    *)
(* caller may drop the execution at any await.                             *)
(***************************************************************************)
EXTENDS Naturals

CONSTANTS
    Steps,          \* number of actions of the plan
    SagaAttempts    \* SagaRetryPolicy::max_attempts

ASSUME SagaConstants == Steps \in Nat /\ SagaAttempts \in Nat

VARIABLES
    place,    \* apply, undo, sleep, ok, err, dropped
    next,     \* the action to apply, or the one to roll back
    attempt,
    effects,  \* how often each action is in effect
    left      \* history: rollbacks of it that failed

sagaVars == <<place, next, attempt, effects, left>>

Actions == 1..Steps

SagaInit ==
    /\ place = "apply" /\ next = 1 /\ attempt = 1
    /\ effects = [i \in Actions |-> 0]
    /\ left = [i \in Actions |-> 0]

Attempts == IF SagaAttempts = 0 THEN 1 ELSE SagaAttempts

Apply ==
    /\ place = "apply" /\ next <= Steps
    /\ effects' = [effects EXCEPT ![next] = @ + 1]
    /\ next' = next + 1
    /\ UNCHANGED <<place, attempt, left>>

\* The loop has come to its end.
Succeed ==
    /\ place = "apply" /\ next > Steps
    /\ place' = "ok"
    /\ UNCHANGED <<next, attempt, effects, left>>

ApplyFails ==
    /\ place = "apply" /\ next <= Steps
    /\ place' = "undo"
    /\ next' = next - 1
    /\ UNCHANGED <<attempt, effects, left>>

\* Mutant: a rollback that fails ends the execution.
RollbackStops ==
    /\ place = "undo" /\ next > 0
    /\ \/ /\ effects' = [effects EXCEPT ![next] = @ - 1]
          /\ next' = next - 1
          /\ UNCHANGED <<place, left>>
       \/ /\ left' = [left EXCEPT ![next] = @ + 1]
          /\ place' = "err"
          /\ UNCHANGED <<next, effects>>
    /\ UNCHANGED attempt

Rollback ==
    /\ place = "undo" /\ next > 0
    /\ \/ /\ effects' = [effects EXCEPT ![next] = @ - 1]
          /\ UNCHANGED left
       \/ /\ left' = [left EXCEPT ![next] = @ + 1]
          /\ UNCHANGED effects
    /\ next' = next - 1
    /\ UNCHANGED <<place, attempt>>

\* Everything is rolled back: the error is returned, or the next attempt sleeps.
RolledBack ==
    /\ place = "undo" /\ next = 0
    /\ place' = IF attempt = Attempts THEN "err" ELSE "sleep"
    /\ UNCHANGED <<next, attempt, effects, left>>

Retry ==
    /\ place = "sleep"
    /\ place' = "apply" /\ next' = 1 /\ attempt' = attempt + 1
    /\ UNCHANGED <<effects, left>>

Drop ==
    /\ place \in {"apply", "undo", "sleep"}
    /\ place' = "dropped"
    /\ UNCHANGED <<next, attempt, effects, left>>

Stop == place \in {"ok", "err", "dropped"} /\ UNCHANGED sagaVars

SagaNext ==
    \/ Apply \/ Succeed \/ ApplyFails \/ Rollback \/ RolledBack \/ Retry \/ Drop
    \/ Stop

SagaSpec == SagaInit /\ [][SagaNext]_sagaVars

-----------------------------------------------------------------------------
\* Beside what failed rollbacks left behind, the actions in effect are a prefix
\* of the plan at every moment; none when the error is returned, and all of them,
\* once each, when the plan succeeds, whatever earlier attempts did.  So a
\* rollback never finds a later action in effect, and what remains after an
\* error is what failed to roll back (TransactionPlan::execute,
\* execute_with_retry).
AppliedIsPrefix ==
    \E k \in 0..Steps :
       /\ \A i \in Actions : effects[i] = left[i] + (IF i <= k THEN 1 ELSE 0)
       /\ place = "err" => k = 0
       /\ place = "ok" => k = Steps

=============================================================================
