-------------------------- MODULE OutboxRelayProofs --------------------------
(***************************************************************************)
(* Lemmas about OutboxRelay that the proofs of both stores rest on: the    *)
(* message a relay works on, and the types of the operators on rows and    *)
(* times.                                                                  *)
(***************************************************************************)
EXTENDS OutboxRelay, WellFoundedInduction, TLAPS

\* A nonempty set of naturals has a least element.
LEMMA LeastElement ==
    ASSUME NEW S \in SUBSET Nat, S # {}
    PROVE  \E x \in S : \A y \in S : x <= y
<1>1. IsWellFoundedOn(OpToRel(<, Nat), Nat)
  BY NatLessThanWellFounded, Zenon
<1>2. PICK x \in S : \A y \in S : ~ (<<y, x>> \in OpToRel(<, Nat))
  BY <1>1, WFMin, Zenon
<1>3. \A y \in S : ~ (y < x)
  BY <1>2, Zenon DEF OpToRel
<1> QED
  BY <1>3

\* The message a relay works on is one of its batch.
LEMMA CurrentInBatch ==
    ASSUME NEW r \in Relays, batch \in [Relays -> SUBSET Ids], batch[r] # {}
    PROVE  CurrentId(r) \in batch[r] /\ CurrentId(r) \in Ids
<1>1. batch[r] \in SUBSET Nat
  BY OutboxConstants, Zenon
<1>2. \E id \in batch[r] : \A other \in batch[r] : id <= other
  BY <1>1, LeastElement
<1> QED
  BY <1>2 DEF CurrentId, LeastOf

-----------------------------------------------------------------------------
(* Types of the operators on rows and times. *)

LEMMA LeftType ==
    \A delay, elapsed \in Nat : Left(delay, elapsed) \in Nat
BY DEF Left

LEMMA AgeCapType == AgeCap \in Nat
BY OutboxConstants DEF AgeCap

LEMMA OneLessType ==
    \A time \in Times : OneLess(time) \in Times
BY OutboxConstants DEF OneLess, Left, Times

LEMMA NextAttemptType ==
    ASSUME NEW attempts \in 0..AttemptCap, NEW elapsed \in Nat
    PROVE  NextAttempt(attempts, elapsed) \in Nat
<1> DEFINE exponent == IF attempts < 6 THEN attempts ELSE 6
           grown == InitialBackoff * PowersOfTwo[exponent + 1]
           delay == IF grown < MaxBackoff THEN grown ELSE MaxBackoff
<1>1. exponent + 1 \in 1..7
  BY OutboxConstants
<1>2. PowersOfTwo[exponent + 1] \in Nat
  <2>1. \A i \in 1..7 : PowersOfTwo[i] \in Nat
    BY DEF PowersOfTwo
  <2> HIDE DEF exponent
  <2> QED
    BY <1>1, <2>1
<1>3. grown \in Nat
  <2>1. InitialBackoff \in Nat
    BY OutboxConstants
  <2> HIDE DEF exponent
  <2> QED
    BY <1>2, <2>1
<1>4. delay \in Nat
  <2> HIDE DEF grown
  <2> QED
    BY <1>3, OutboxConstants
<1>5. Left(delay, elapsed) \in Nat
  <2> HIDE DEF delay
  <2> QED
    BY <1>4, LeftType, Zenon
<1> QED
  BY <1>5 DEF NextAttempt

LEMMA RowTypes ==
    /\ NewRow \in Rows
    /\ \A row \in Rows, time \in Times :
        /\ MarkPublishing(row, time) \in Rows
        /\ MarkPublished(row) \in Rows
        /\ \A n \in 0..AttemptCap : MarkFailed(row, n, time) \in Rows
<1> USE DEF Rows, Statuses
<1>1. None \in Times
  BY DEF Times
<1>2. NewRow \in Rows
  BY <1>1, OutboxConstants DEF NewRow
<1>3. ASSUME NEW row \in Rows, NEW time \in Times
      PROVE  MarkPublishing(row, time) \in Rows /\ MarkPublished(row) \in Rows
  BY <1>1, <1>3, Zenon DEF MarkPublishing, MarkPublished
<1>4. ASSUME NEW row \in Rows, NEW time \in Times, NEW n \in 0..AttemptCap
      PROVE  MarkFailed(row, n, time) \in Rows
  BY <1>1, <1>4, Zenon DEF MarkFailed
<1> QED
  BY <1>2, <1>3, <1>4, Zenon

-----------------------------------------------------------------------------
\* One more delivery: the count stays in range and does not fall.
LEMMA MoreDeliveredType ==
    ASSUME delivered \in [Ids -> 0..2], NEW id \in Ids
    PROVE  /\ MoreDelivered(id) \in [Ids -> 0..2]
           /\ \A i \in Ids : delivered[i] > 0 => MoreDelivered(id)[i] > 0
           /\ MoreDelivered(id)[id] > 0
BY DEF MoreDelivered

=============================================================================
