--------------------------- MODULE BreakerProofs ---------------------------
(***************************************************************************)
(* What the operations of BreakerRegistry do, for every threshold and      *)
(* timeout: the lemmas on which the proofs about its users rest.           *)
(***************************************************************************)
EXTENDS Breaker, TLAPS

Breakers == [failures: Nat, phase: {"closed", "open", "half_open"}, openUntil: Time]
Permits  == {"closed", "probe", None}

\* CountDown keeps a time a time.
LEMMA CountDownType == \A time \in Time : CountDown(time) \in Time
BY NoneIsNoTime DEF CountDown, Time

\* The operations of the registry keep a breaker a breaker.
LEMMA BreakerTypes ==
    ASSUME NEW b \in Breakers, NEW permission \in Permits
    PROVE  /\ BreakerAllow(b) \in Breakers /\ BreakerPermit(b) \in Permits
           /\ BreakerSuccess(b, permission) \in Breakers
           /\ BreakerFailure(b, permission) \in Breakers
           /\ BreakerCancel(b, permission) \in Breakers
           /\ BreakerTick(b) \in Breakers
<1>1. ClosedBreaker \in Breakers /\ OpenBreaker \in Breakers
  BY BreakerConstants DEF ClosedBreaker, OpenBreaker, Breakers, Time
<1>2. BreakerAllow(b) \in Breakers
  <2>1. [b EXCEPT !.phase = "half_open", !.openUntil = None] \in Breakers
    BY Zenon DEF Breakers, Time
  <2> QED
    BY <2>1, Zenon DEF BreakerAllow
<1>3. BreakerPermit(b) \in Permits
  BY DEF BreakerPermit, Permits
<1>4. BreakerFailure(b, permission) \in Breakers
  <2>1. [b EXCEPT !.failures = @ + 1] \in Breakers
    BY DEF Breakers
  <2> QED
    BY <1>1, <2>1 DEF BreakerFailure
<1>5. BreakerTick(b) \in Breakers
  BY CountDownType DEF BreakerTick, Breakers
<1> QED
  BY <1>1, <1>2, <1>3, <1>4, <1>5 DEF BreakerSuccess, BreakerCancel

\* allow gives a probe to the one who finds the breaker open and its time over,
\* and changes nothing otherwise.
LEMMA AllowEffect ==
    ASSUME NEW b \in Breakers
    PROVE  /\ BreakerPermit(b) = "probe" =>
                 b.phase = "open" /\ BreakerAllow(b).phase = "half_open"
           /\ BreakerPermit(b) # "probe" => BreakerAllow(b) = b
           /\ BreakerPermit(b) = "closed" => b.phase = "closed"
BY BreakerConstants DEF BreakerPermit, BreakerAllow, Breakers

\* Who settles a probe ends the half-open phase; who settles another permit
\* neither ends nor begins it.
HalfOpenEndsWith(b, c, permission) ==
    IF permission = "probe" /\ b.phase = "half_open" THEN c.phase # "half_open"
    ELSE c.phase = "half_open" <=> b.phase = "half_open"

LEMMA SettleEffect ==
    ASSUME NEW b \in Breakers, NEW permission \in Permits
    PROVE  /\ HalfOpenEndsWith(b, BreakerSuccess(b, permission), permission)
           /\ HalfOpenEndsWith(b, BreakerFailure(b, permission), permission)
           /\ HalfOpenEndsWith(b, BreakerCancel(b, permission), permission)
<1>1. ClosedBreaker.phase = "closed" /\ OpenBreaker.phase = "open"
  BY DEF ClosedBreaker, OpenBreaker
<1>2. [b EXCEPT !.failures = @ + 1].phase = b.phase
  BY DEF Breakers
<1>3. PermitApplies(b, permission) =>
        \/ permission = "closed" /\ b.phase = "closed"
        \/ permission = "probe" /\ b.phase = "half_open"
  BY DEF PermitApplies
<1>4. permission = "probe" /\ b.phase = "half_open" => PermitApplies(b, permission)
  BY DEF PermitApplies
<1>5. HalfOpenEndsWith(b, BreakerSuccess(b, permission), permission)
  BY <1>1, <1>3, <1>4 DEF HalfOpenEndsWith, BreakerSuccess
<1>6. HalfOpenEndsWith(b, BreakerFailure(b, permission), permission)
  BY <1>1, <1>2, <1>3, <1>4 DEF HalfOpenEndsWith, BreakerFailure
<1>7. HalfOpenEndsWith(b, BreakerCancel(b, permission), permission)
  BY <1>1, <1>3, <1>4 DEF HalfOpenEndsWith, BreakerCancel
<1> QED
  BY <1>5, <1>6, <1>7

\* What the registry's operations do to the phase, seen from outside.
LEMMA PhaseEffect ==
    ASSUME NEW b \in Breakers, NEW permission \in Permits
    PROVE  /\ BreakerAllow(b).phase \in {b.phase, "half_open"}
           /\ BreakerTick(b).phase = b.phase
           /\ \/ BreakerSuccess(b, permission) = b
              \/ /\ b.phase # "closed" => permission = "probe"
                 /\ BreakerSuccess(b, permission).phase = "closed"
           /\ BreakerFailure(b, permission).phase # b.phase
                => BreakerFailure(b, permission) = OpenBreaker
           /\ BreakerCancel(b, permission) # b
                => b.phase = "half_open" /\ BreakerCancel(b, permission) = OpenBreaker
<1>1. BreakerAllow(b).phase \in {b.phase, "half_open"}
  BY AllowEffect
<1>2. BreakerTick(b).phase = b.phase
  BY DEF BreakerTick, Breakers
<1>3. PermitApplies(b, permission) =>
        \/ permission = "closed" /\ b.phase = "closed"
        \/ permission = "probe" /\ b.phase = "half_open"
  BY DEF PermitApplies
<1>4. \/ BreakerSuccess(b, permission) = b
      \/ /\ b.phase # "closed" => permission = "probe"
         /\ BreakerSuccess(b, permission).phase = "closed"
  BY <1>3 DEF BreakerSuccess, ClosedBreaker
<1>5. BreakerFailure(b, permission).phase # b.phase => BreakerFailure(b, permission) = OpenBreaker
  <2>1. [b EXCEPT !.failures = @ + 1].phase = b.phase
    BY DEF Breakers
  <2> QED
    BY <2>1 DEF BreakerFailure
<1>6. BreakerCancel(b, permission) # b
        => b.phase = "half_open" /\ BreakerCancel(b, permission) = OpenBreaker
  BY <1>3 DEF BreakerCancel
<1> QED
  BY <1>1, <1>2, <1>4, <1>5, <1>6

=============================================================================
