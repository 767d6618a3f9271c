------------------------------ MODULE Breaker ------------------------------
(***************************************************************************)
(* BreakerRegistry of roze-resilience, for one operation key.  Every call  *)
(* holds the key's DashMap entry for its whole body, so it is one step of  *)
(* the modules that use these operators.                                   *)
(***************************************************************************)
EXTENDS Clock

CONSTANTS
    FailureThreshold,  \* BreakerConfig::failure_threshold
    ResetTimeout       \* BreakerConfig::reset_timeout

ASSUME BreakerConstants ==
    /\ FailureThreshold \in Nat /\ ResetTimeout \in Nat
    /\ None \notin {"closed", "probe"}

ClosedBreaker == [failures |-> 0, phase |-> "closed", openUntil |-> None]

\* open_breaker
OpenBreaker == [failures |-> 0, phase |-> "open", openUntil |-> ResetTimeout]

\* The permit that `allow' gives: "closed", "probe", or None when it rejects.
BreakerPermit(b) ==
    CASE b.phase = "closed" -> "closed"
      [] b.phase = "open" /\ Reached(b.openUntil) -> "probe"
      [] OTHER -> None

BreakerAllow(b) ==
    IF BreakerPermit(b) = "probe" THEN [b EXCEPT !.phase = "half_open", !.openUntil = None]
    ELSE b

\* Mutant: a permit from before the breaker opened still counts.
PermitAppliesLate(b, permit) ==
    \/ permit = "closed"
    \/ permit = "probe" /\ b.phase = "half_open"

\* A permit counts only in the phase that it was given for.
PermitApplies(b, permit) ==
    \/ permit = "closed" /\ b.phase = "closed"
    \/ permit = "probe" /\ b.phase = "half_open"

BreakerSuccess(b, permit) == IF PermitApplies(b, permit) THEN ClosedBreaker ELSE b

BreakerFailure(b, permit) ==
    CASE ~PermitApplies(b, permit) -> b
      [] permit = "closed" /\ b.failures + 1 < AtLeastOne(FailureThreshold) ->
            [b EXCEPT !.failures = @ + 1]
      [] OTHER -> OpenBreaker

\* Mutant: every cancelled request opens the breaker.
BreakerCancelAnyPermit(b, permit) == IF PermitApplies(b, permit) THEN OpenBreaker ELSE b

BreakerCancel(b, permit) ==
    IF permit = "probe" /\ PermitApplies(b, permit) THEN OpenBreaker ELSE b

BreakerTick(b) == [b EXCEPT !.openUntil = CountDown(@)]

=============================================================================
