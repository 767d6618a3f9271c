-------------------------- MODULE SqlOutboxProofs --------------------------
(***************************************************************************)
(* Proofs about SqlOutbox, for any set of ids and of relays, any leases,   *)
(* backoffs, limits and number of crashes.                                 *)
(***************************************************************************)
EXTENDS SqlOutbox, OutboxRelayProofs

\* The row a failed publication leaves is a row.
LEMMA FailedRowType ==
    \A row \in Rows, time \in Times, n \in 0..AttemptCap : FailedRow(row, n, time) \in Rows
<1>1. None \in Times
  BY Zenon DEF Times
<1> QED
  BY <1>1, RowTypes, Zenon DEF FailedRow

-----------------------------------------------------------------------------
(* The inductive invariant.  A relay inside a claim or a batch has messages; *)
(* the rows of an open claim exist and are not published, since everything   *)
(* that could delete or publish them waits for their lock; every message of  *)
(* a batch was committed; and a relay about to mark its message published    *)
(* has seen the broker take it.                                              *)

Busy == Working \cup {"locked"}

Known(id) == table[id] # None \/ delivered[id] > 0

BatchOK == \A r \in Relays : pc[r] \in Busy => batch[r] # {}

LockedOK ==
    \A r \in Relays : pc[r] = "locked" =>
        \A id \in batch[r] : table[id] # None /\ table[id].status # "published"

HeldKnown == \A r \in Relays : pc[r] \in Busy => \A id \in batch[r] : Known(id)

AckDelivered == \A r \in Relays : pc[r] = "ack" => delivered[CurrentId(r)] > 0

IInv == TypeOK /\ BatchOK /\ LockedOK /\ HeldKnown /\ AckDelivered /\ PublishedWasDelivered

LEMMA InitIInv == Init => IInv
<1> SUFFICES ASSUME Init PROVE IInv
  BY Zenon
<1>1. TypeOK
  <2>1. 0 \in 0..AttemptCap /\ 0 \in 0..MaxCrashes /\ 0 \in 0..AgeCap /\ MinIdle \in Nat
    BY OutboxConstants DEF AgeCap
  <2>2. /\ table \in [Ids -> Rows \cup {None}]
        /\ pc \in [Relays -> RelayPlaces]
        /\ batch \in [Relays -> SUBSET Ids]
        /\ notified \in BOOLEAN
        /\ shutdown \in [Relays -> BOOLEAN]
    BY Zenon DEF Init, InitRelay, RelayPlaces
  <2>3. /\ claimed \in [Relays -> [Ids -> 0..AttemptCap]]
        /\ age \in [Relays -> 0..AgeCap]
        /\ idle \in [Relays -> Nat]
        /\ sleep \in [Relays -> Nat]
        /\ crashes \in 0..MaxCrashes
        /\ delivered \in [Ids -> 0..2]
        /\ openTx \in SUBSET Ids
        /\ seen \in [Relays -> 0..AttemptCap]
    BY <2>1 DEF Init, InitRelay
  <2>4. cause \in [Ids -> SUBSET {"late", "again"}]
    BY Zenon DEF Init, InitRelay
  <2> QED
    BY <2>2, <2>3, <2>4, Zenon DEF TypeOK, TypeOKRelay
<1>2. BatchOK /\ LockedOK /\ HeldKnown /\ AckDelivered /\ PublishedWasDelivered
  BY Zenon DEF Init, InitRelay, BatchOK, LockedOK, HeldKnown, AckDelivered, PublishedWasDelivered,
         Present, Busy, Working
<1> QED
  BY <1>1, <1>2, Zenon DEF IInv

-----------------------------------------------------------------------------
(* Each action preserves the invariant. *)

\* What the safety conjuncts depend on, for actions that leave it alone.
LEMMA SameBatches ==
    ASSUME IInv, TypeOK', UNCHANGED <<table, pc, batch, delivered>>
    PROVE  IInv'
BY Zenon DEF IInv, BatchOK, LockedOK, HeldKnown, AckDelivered, PublishedWasDelivered,
       Present, Known, CurrentId

LEMMA TickStep == IInv /\ TickSql => IInv'
<1> SUFFICES ASSUME IInv, TickSql PROVE IInv'
  BY SMTT(30), Zenon
<1> USE DEF TickSql, RelayTick, IInv
<1>1. \A id \in Ids :
        /\ table[id] = None => table'[id] = None
        /\ table[id] # None => /\ table'[id] # None
                               /\ table'[id] \in Rows
                               /\ table'[id].status = table[id].status
  <2> SUFFICES ASSUME NEW id \in Ids, table[id] # None
               PROVE  /\ table'[id] \in Rows
                      /\ table'[id].status = table[id].status
    BY NoneIsNoRow, ZenonT(30), Zenon
  <2>1. table[id] \in Rows
    BY ZenonT(30), Zenon DEF TypeOK, TypeOKRelay
  <2>2. OneLess(table[id].next) \in Times /\ OneLess(table[id].lease) \in Times
    BY <2>1, OneLessType, ZenonT(30), Zenon DEF Rows
  <2>3. table'[id] = [table[id] EXCEPT !.next = OneLess(@), !.lease = OneLess(@)]
    BY ZenonT(30), Zenon
  <2> QED
    BY <2>1, <2>2, <2>3, ZenonT(30), Zenon DEF Rows
<1>2. TypeOK'
  <2>1. table' \in [Ids -> Rows \cup {None}]
    BY <1>1, Zenon
  <2>2. age' \in [Relays -> 0..AgeCap]
    <3>1. \A r \in Relays : age'[r] \in {age[r], age[r] + 1} /\ (age'[r] # age[r] => age[r] < AgeCap)
      BY ZenonT(30), Zenon
    <3>2. age' = [r \in Relays |-> age'[r]]
      BY ZenonT(30), Zenon
    <3>3. age \in [Relays -> 0..AgeCap]
      BY Zenon DEF TypeOK, TypeOKRelay
    <3>4. \A r \in Relays : age'[r] \in 0..AgeCap
      BY ONLY <3>1, <3>3, AgeCapType, SMTT(30), Zenon
    <3> QED
      BY ONLY <3>2, <3>4, SMTT(30), Zenon
  <2>3. sleep' \in [Relays -> Nat]
    BY LeftType, ZenonT(30), Zenon DEF TypeOK, TypeOKRelay
  <2>4. cause' \in [Ids -> SUBSET {"late", "again"}]
    BY ZenonT(30), Zenon DEF TypeOK, TypeOKRelay
  <2> QED
    BY <2>1, <2>2, <2>3, <2>4, ZenonT(30), Zenon DEF TypeOK, TypeOKRelay
<1>3. BatchOK' /\ AckDelivered'
  BY ZenonT(30), Zenon DEF BatchOK, AckDelivered, CurrentId
<1>4. LockedOK'
  BY <1>1, ZenonT(30), Zenon DEF LockedOK, TypeOK, TypeOKRelay
<1>5. HeldKnown'
  BY <1>1, ZenonT(30), Zenon DEF HeldKnown, Known, TypeOK, TypeOKRelay
<1>6. PublishedWasDelivered'
  BY <1>1, Zenon DEF PublishedWasDelivered, Present
<1> QED
  BY <1>2, <1>3, <1>4, <1>5, <1>6, Zenon

\* The message a busy relay works on.
LEMMA CurrentKnown ==
    ASSUME IInv, NEW r \in Relays, pc[r] \in Busy
    PROVE  CurrentId(r) \in batch[r] /\ CurrentId(r) \in Ids
BY CurrentInBatch, SMTT(30) DEF IInv, BatchOK, TypeOK, TypeOKRelay

\* The age of a batch is a number.
LEMMA AgeType ==
    ASSUME IInv, NEW r \in Relays
    PROVE  age[r] \in Nat
<1>1. age[r] \in 0..AgeCap
  BY Zenon DEF IInv, TypeOK, TypeOKRelay
<1> QED
  BY ONLY <1>1, AgeCapType

LEMMA RequestShutdownStep ==
    ASSUME IInv, NEW r \in Relays, RequestShutdown(r), UNCHANGED <<openTx, seen>>
    PROVE  IInv'
<1>1. TypeOK'
  BY Zenon DEF RequestShutdown, storeVars, ghostVars, IInv, TypeOK, TypeOKRelay
<1> QED
  BY <1>1, SameBatches, Zenon DEF RequestShutdown, storeVars, ghostVars

LEMMA RestartStep ==
    ASSUME IInv, NEW r \in Relays, Restart(r), UNCHANGED <<openTx, seen>>
    PROVE  IInv'
<1> USE DEF Restart, storeVars, loopVars, ghostVars, relayVars
<1>1. TypeOK'
  BY OutboxConstants, Zenon DEF IInv, TypeOK, TypeOKRelay, RelayPlaces, Working
<1>2. BatchOK' /\ LockedOK'
  BY Zenon DEF IInv, BatchOK, LockedOK, TypeOK, TypeOKRelay, Working, Busy
<1>3. HeldKnown' /\ AckDelivered'
  BY Zenon DEF IInv, HeldKnown, Known, AckDelivered, CurrentId, TypeOK, TypeOKRelay, Working, Busy
<1>4. PublishedWasDelivered'
  BY Zenon DEF IInv, PublishedWasDelivered, Present
<1> QED
  BY <1>1, <1>2, <1>3, <1>4, Zenon DEF IInv

LEMMA YieldStep ==
    ASSUME IInv, NEW r \in Relays, Yield(r), UNCHANGED <<openTx, seen>>
    PROVE  IInv'
<1> USE DEF Yield, storeVars, loopVars, ghostVars, relayVars
<1>1. TypeOK'
  BY OutboxConstants, Zenon DEF IInv, TypeOK, TypeOKRelay, RelayPlaces, Working
<1>2. BatchOK' /\ LockedOK'
  BY Zenon DEF IInv, BatchOK, LockedOK, TypeOK, TypeOKRelay, Working, Busy
<1>3. HeldKnown' /\ AckDelivered'
  BY Zenon DEF IInv, HeldKnown, Known, AckDelivered, CurrentId, TypeOK, TypeOKRelay, Working, Busy
<1>4. PublishedWasDelivered'
  BY Zenon DEF IInv, PublishedWasDelivered, Present
<1> QED
  BY <1>1, <1>2, <1>3, <1>4, Zenon DEF IInv

LEMMA WakeUpStep ==
    ASSUME IInv, NEW r \in Relays, WakeUp(r), UNCHANGED <<openTx, seen>>
    PROVE  IInv'
<1> USE DEF WakeUp, storeVars, loopVars, ghostVars, relayVars
<1>1. TypeOK'
  <2>1. NextIdleDelay(idle[r]) \in Nat
    BY OutboxConstants DEF IInv, TypeOK, TypeOKRelay, NextIdleDelay
  <2>2. pc' \in [Relays -> RelayPlaces]
    BY Zenon DEF IInv, TypeOK, TypeOKRelay, RelayPlaces
  <2>3. idle' \in [Relays -> Nat] /\ sleep' \in [Relays -> Nat]
    BY <2>1 DEF IInv, TypeOK, TypeOKRelay
  <2>4. notified' \in BOOLEAN
    BY Zenon DEF IInv, TypeOK, TypeOKRelay
  <2> QED
    BY <2>2, <2>3, <2>4, Zenon DEF IInv, TypeOK, TypeOKRelay
<1>2. BatchOK' /\ LockedOK'
  BY ZenonT(30) DEF IInv, BatchOK, LockedOK, TypeOK, TypeOKRelay, Working, Busy
<1>3. HeldKnown' /\ AckDelivered'
  BY Zenon DEF IInv, HeldKnown, Known, AckDelivered, CurrentId, TypeOK, TypeOKRelay, Working, Busy
<1>4. PublishedWasDelivered'
  BY Zenon DEF IInv, PublishedWasDelivered, Present
<1> QED
  BY <1>1, <1>2, <1>3, <1>4, Zenon DEF IInv

LEMMA CrashStep ==
    ASSUME IInv, NEW r \in Relays, CrashSql(r)
    PROVE  IInv'
<1> USE DEF CrashSql, Crash, storeVars, loopVars, ghostVars, relayVars
<1>1. TypeOK'
  <2>1. 0 \in 0..AttemptCap /\ 0 \in 0..AgeCap
    BY OutboxConstants, AgeCapType
  <2>2. pc' \in [Relays -> RelayPlaces] /\ batch' \in [Relays -> SUBSET Ids]
    BY Zenon DEF IInv, TypeOK, TypeOKRelay, RelayPlaces
  <2>3. /\ claimed' \in [Relays -> [Ids -> 0..AttemptCap]]
        /\ age' \in [Relays -> 0..AgeCap]
        /\ seen' \in [Relays -> 0..AttemptCap]
    BY <2>1, Zenon DEF IInv, TypeOK, TypeOKRelay
  <2>4. crashes' \in 0..MaxCrashes
    BY OutboxConstants DEF IInv, TypeOK, TypeOKRelay
  <2>5. cause' \in [Ids -> SUBSET {"late", "again"}]
    BY Zenon DEF IInv, TypeOK, TypeOKRelay
  <2> QED
    BY <2>2, <2>3, <2>4, <2>5, Zenon DEF IInv, TypeOK, TypeOKRelay
<1>2. BatchOK' /\ LockedOK'
  BY Zenon DEF IInv, BatchOK, LockedOK, TypeOK, TypeOKRelay, Working, Busy
<1>3. HeldKnown' /\ AckDelivered'
  BY Zenon DEF IInv, HeldKnown, Known, AckDelivered, CurrentId, TypeOK, TypeOKRelay, Working, Busy
<1>4. PublishedWasDelivered'
  BY Zenon DEF IInv, PublishedWasDelivered, Present
<1> QED
  BY <1>1, <1>2, <1>3, <1>4, Zenon DEF IInv

LEMMA PublishOkStep ==
    ASSUME IInv, NEW r \in Relays, PublishOk(r), UNCHANGED <<openTx, seen>>
    PROVE  IInv'
<1> USE DEF PublishOk, storeVars, loopVars, ghostVars, relayVars
<1>0. CurrentId(r) \in batch[r] /\ CurrentId(r) \in Ids
  BY CurrentKnown, Zenon DEF Busy, Working
<1>1. /\ delivered' \in [Ids -> 0..2]
      /\ \A i \in Ids : delivered[i] > 0 => delivered'[i] > 0
      /\ delivered'[CurrentId(r)] > 0
  BY <1>0, MoreDeliveredType, Zenon DEF IInv, TypeOK, TypeOKRelay
<1>2. TypeOK'
  <2>1. pc' \in [Relays -> RelayPlaces]
    BY Zenon DEF IInv, TypeOK, TypeOKRelay, RelayPlaces, Working
  <2>2. cause' \in [Ids -> SUBSET {"late", "again"}]
    BY Zenon DEF IInv, TypeOK, TypeOKRelay
  <2> QED
    BY <1>1, <2>1, <2>2, Zenon DEF IInv, TypeOK, TypeOKRelay
<1>3. BatchOK' /\ LockedOK'
  BY Zenon DEF IInv, BatchOK, LockedOK, TypeOK, TypeOKRelay, Working, Busy
<1>4. HeldKnown'
  BY <1>1, Zenon DEF IInv, HeldKnown, Known, TypeOK, TypeOKRelay, Working, Busy
<1>5. AckDelivered'
  <2> SUFFICES ASSUME NEW q \in Relays, pc'[q] = "ack"
               PROVE  delivered'[CurrentId(q)] > 0
    BY Zenon DEF AckDelivered, CurrentId
  <2>1. CASE q = r
    BY <1>1, <2>1, Zenon DEF IInv, TypeOK, TypeOKRelay
  <2>2. CASE q # r
    <3>1. pc[q] = "ack" /\ CurrentId(q) \in Ids
      BY <2>2, CurrentKnown, Zenon DEF Busy, Working, IInv, TypeOK, TypeOKRelay
    <3> QED
      BY <3>1, <1>1, Zenon DEF IInv, AckDelivered
  <2> QED
    BY <2>1, <2>2, Zenon
<1>6. PublishedWasDelivered'
  BY <1>1, Zenon DEF IInv, PublishedWasDelivered, Present
<1> QED
  BY <1>2, <1>3, <1>4, <1>5, <1>6, Zenon DEF IInv

LEMMA PublishErrStep ==
    ASSUME IInv, NEW r \in Relays, PublishErr(r), UNCHANGED <<openTx, seen>>
    PROVE  IInv'
<1> USE DEF PublishErr, storeVars, loopVars, ghostVars, relayVars
<1>0. CurrentId(r) \in batch[r] /\ CurrentId(r) \in Ids
  BY CurrentKnown, Zenon DEF Busy, Working
<1>1. /\ delivered' \in [Ids -> 0..2]
      /\ \A i \in Ids : delivered[i] > 0 => delivered'[i] > 0
  BY <1>0, MoreDeliveredType, Zenon DEF IInv, TypeOK, TypeOKRelay
<1>2. TypeOK'
  <2>1. pc' \in [Relays -> RelayPlaces]
    BY Zenon DEF IInv, TypeOK, TypeOKRelay, RelayPlaces, Working
  <2>2. cause' \in [Ids -> SUBSET {"late", "again"}]
    <3>1. cause \in [Ids -> SUBSET {"late", "again"}]
      BY Zenon DEF IInv, TypeOK, TypeOKRelay
    <3>2. cause' = cause \/ cause' = [cause EXCEPT ![CurrentId(r)] = @ \cup {"again"}]
      BY Zenon
    <3> QED
      BY ONLY <3>1, <3>2, Zenon
  <2> QED
    BY <1>1, <2>1, <2>2, Zenon DEF IInv, TypeOK, TypeOKRelay
<1>3. BatchOK' /\ LockedOK'
  BY Zenon DEF IInv, BatchOK, LockedOK, TypeOK, TypeOKRelay, Working, Busy
<1>4. HeldKnown'
  BY <1>1, Zenon DEF IInv, HeldKnown, Known, TypeOK, TypeOKRelay, Working, Busy
<1>5. AckDelivered'
  <2> SUFFICES ASSUME NEW q \in Relays, pc'[q] = "ack"
               PROVE  delivered'[CurrentId(q)] > 0
    BY Zenon DEF AckDelivered, CurrentId
  <2>1. CASE q = r
    BY <1>1, <2>1, Zenon DEF IInv, TypeOK, TypeOKRelay
  <2>2. CASE q # r
    <3>1. pc[q] = "ack" /\ CurrentId(q) \in Ids
      BY <2>2, CurrentKnown, Zenon DEF Busy, Working, IInv, TypeOK, TypeOKRelay
    <3> QED
      BY <3>1, <1>1, Zenon DEF IInv, AckDelivered
  <2> QED
    BY <2>1, <2>2, Zenon
<1>6. PublishedWasDelivered'
  BY <1>1, Zenon DEF IInv, PublishedWasDelivered, Present
<1> QED
  BY <1>2, <1>3, <1>4, <1>5, <1>6, Zenon DEF IInv

LEMMA ReadAttemptsStep ==
    ASSUME IInv, NEW r \in Relays, ReadAttempts(r)
    PROVE  IInv'
<1> USE DEF ReadAttempts, storeVars, loopVars, ghostVars, relayVars
<1>1. TypeOK'
  <2>1. CurrentId(r) \in Ids
    BY CurrentKnown, Zenon DEF Busy, Working
  <2>2. table[CurrentId(r)] # None => table[CurrentId(r)].attempts \in 0..AttemptCap
    BY <2>1, Zenon DEF IInv, TypeOK, TypeOKRelay, Rows
  <2>3. table[CurrentId(r)] # None => Saturated(table[CurrentId(r)].attempts + 1) \in 0..AttemptCap
    BY <2>2, OutboxConstants DEF Saturated
  <2>4. 1 \in 0..AttemptCap
    BY SqlConstants, OutboxConstants
  <2>5. seen' \in [Relays -> 0..AttemptCap]
    BY <2>3, <2>4, Zenon DEF IInv, TypeOK
  <2>6. pc' \in [Relays -> RelayPlaces]
    BY Zenon DEF IInv, TypeOK, TypeOKRelay, RelayPlaces, Working
  <2> QED
    BY <2>5, <2>6, Zenon DEF IInv, TypeOK, TypeOKRelay
<1>2. BatchOK' /\ LockedOK'
  BY Zenon DEF IInv, BatchOK, LockedOK, TypeOK, TypeOKRelay, Working, Busy
<1>3. HeldKnown' /\ AckDelivered'
  BY Zenon DEF IInv, HeldKnown, Known, AckDelivered, CurrentId, TypeOK, TypeOKRelay, Working, Busy
<1>4. PublishedWasDelivered'
  BY Zenon DEF IInv, PublishedWasDelivered, Present
<1> QED
  BY <1>1, <1>2, <1>3, <1>4, Zenon DEF IInv

\* Only rows that exist and are not published are claimed.
LEMMA SelectForUpdateStep ==
    ASSUME IInv, NEW r \in Relays, SelectForUpdate(r)
    PROVE  IInv'
<1> DEFINE rows == FirstOf({id \in Present : Claimable(table[id]) /\ ~Locked(id)}, Limit)
<1>1. \A id \in rows : id \in Ids /\ table[id] # None /\ table[id].status # "published"
  BY Zenon DEF FirstOf, Present, Claimable
<1>2. /\ pc[r] = "poll"
      /\ \/ /\ pc' = [pc EXCEPT ![r] = "idle"]
            /\ sleep' = [sleep EXCEPT ![r] = idle[r]]
            /\ UNCHANGED <<batch, claimed>>
         \/ /\ rows # {}
            /\ pc' = [pc EXCEPT ![r] = "locked"]
            /\ batch' = [batch EXCEPT ![r] = rows]
            /\ claimed' = [claimed EXCEPT ![r] =
                             [id \in Ids |-> IF id \in rows THEN table[id].attempts ELSE 0]]
            /\ UNCHANGED sleep
      /\ age' = [age EXCEPT ![r] = 0]
      /\ UNCHANGED <<table, notified, delivered, cause, idle, shutdown, crashes, openTx, seen>>
  BY Zenon DEF SelectForUpdate, BeginIdle, storeVars, ghostVars
<1> HIDE DEF rows
<1>3. TypeOK'
  <2>1. 0 \in 0..AttemptCap /\ 0 \in 0..AgeCap
    BY OutboxConstants, AgeCapType
  <2>2. \A id \in rows : table[id].attempts \in 0..AttemptCap
    BY <1>1, Zenon DEF IInv, TypeOK, TypeOKRelay, Rows
  <2>3. pc' \in [Relays -> RelayPlaces] /\ batch' \in [Relays -> SUBSET Ids]
    BY <1>1, <1>2, Zenon DEF IInv, TypeOK, TypeOKRelay, RelayPlaces
  <2>4. [id \in Ids |-> IF id \in rows THEN table[id].attempts ELSE 0] \in [Ids -> 0..AttemptCap]
    BY <2>1, <2>2, Zenon
  <2>5. claimed' \in [Relays -> [Ids -> 0..AttemptCap]]
    BY <1>2, <2>4, Zenon DEF IInv, TypeOK, TypeOKRelay
  <2>6. age' \in [Relays -> 0..AgeCap] /\ sleep' \in [Relays -> Nat]
    BY <1>2, <2>1, Zenon DEF IInv, TypeOK, TypeOKRelay
  <2> QED
    BY <1>2, <2>3, <2>5, <2>6, Zenon DEF IInv, TypeOK, TypeOKRelay
<1>4. BatchOK'
  BY <1>2, Zenon DEF IInv, BatchOK, TypeOK, TypeOKRelay, Working, Busy
<1>5. LockedOK' /\ HeldKnown'
  <2>1. \A q \in Relays : \/ pc'[q] = pc[q] /\ batch'[q] = batch[q]
                          \/ q = r /\ pc'[q] = "idle"
                          \/ q = r /\ batch'[q] = rows
    BY <1>2, Zenon DEF IInv, TypeOK, TypeOKRelay
  <2> QED
    BY <1>1, <1>2, <2>1, Zenon DEF IInv, LockedOK, HeldKnown, Known, Busy, Working
<1>6. AckDelivered' /\ PublishedWasDelivered'
  BY <1>2, Zenon DEF IInv, AckDelivered, PublishedWasDelivered, Present, CurrentId, TypeOK, TypeOKRelay
<1> QED
  BY <1>3, <1>4, <1>5, <1>6, Zenon DEF IInv

LEMMA CommitClaimStep ==
    ASSUME IInv, NEW r \in Relays, CommitClaim(r)
    PROVE  IInv'
<1> USE DEF CommitClaim
<1>1. /\ \A id \in batch[r] : /\ id \in Ids
                              /\ table[id] # None
                              /\ table'[id] \in Rows
                              /\ table'[id].status = "publishing"
      /\ \A id \in Ids \ batch[r] : table'[id] = table[id]
  <2> SUFFICES ASSUME NEW id \in batch[r]
               PROVE  /\ id \in Ids
                      /\ table[id] # None
                      /\ table'[id] \in Rows
                      /\ table'[id].status = "publishing"
    BY Zenon
  <2>1. id \in Ids /\ table[id] # None /\ table[id] \in Rows
    BY Zenon DEF IInv, LockedOK, TypeOK, TypeOKRelay
  <2>2. Left(Lease, age[r]) \in Times
    <3>1. age[r] \in Nat
      BY AgeType, Zenon
    <3> QED
      BY <3>1, LeftType, OutboxConstants, Zenon DEF Times
  <2>3. table'[id] = MarkPublishing(table[id], Left(Lease, age[r]))
    BY <2>1, Zenon
  <2>4. table'[id] \in Rows
    BY <2>1, <2>2, <2>3, RowTypes, Zenon
  <2>5. table'[id].status = "publishing"
    BY <2>1, <2>3, Zenon DEF MarkPublishing, Rows
  <2> QED
    BY <2>1, <2>4, <2>5, Zenon
<1>2. TypeOK'
  <2>1. table' \in [Ids -> Rows \cup {None}]
    BY <1>1, Zenon DEF IInv, TypeOK, TypeOKRelay
  <2>2. pc' \in [Relays -> RelayPlaces]
    BY Zenon DEF IInv, TypeOK, TypeOKRelay, RelayPlaces, Working
  <2>3. cause' \in [Ids -> SUBSET {"late", "again"}]
    BY Zenon DEF IInv, TypeOK, TypeOKRelay
  <2> QED
    BY <2>1, <2>2, <2>3, Zenon DEF IInv, TypeOK, TypeOKRelay
<1>3. \A id \in Ids : /\ table[id] # None => table'[id] # None
                      /\ table'[id] # None /\ table'[id].status = "published" => table'[id] = table[id]
                      /\ table[id] # None /\ table[id].status # "published" => table'[id].status # "published"
  BY <1>1, NoneIsNoRow, Zenon
<1>4. \A q \in Relays : batch'[q] = batch[q] /\ (pc'[q] = pc[q] \/ (pc'[q] = "publish" /\ pc[q] = "locked"))
  <2>1. pc \in [Relays -> RelayPlaces] /\ pc[r] = "locked"
    BY Zenon DEF IInv, TypeOK, TypeOKRelay
  <2>2. pc' = [pc EXCEPT ![r] = "publish"] /\ batch' = batch
    BY Zenon
  <2> QED
    BY ONLY <2>1, <2>2, Zenon
<1>5. BatchOK'
  BY <1>4, Zenon DEF IInv, BatchOK, Busy, Working
<1>6. LockedOK'
  BY <1>3, <1>4 DEF IInv, LockedOK, TypeOK, TypeOKRelay
<1>7. HeldKnown'
  BY <1>3, <1>4, Zenon DEF IInv, HeldKnown, Known, Busy, Working, TypeOK, TypeOKRelay
<1>8. AckDelivered'
  BY <1>4, Zenon DEF IInv, AckDelivered, CurrentId
<1>9. PublishedWasDelivered'
  BY <1>3, Zenon DEF IInv, PublishedWasDelivered, Present
<1> QED
  BY <1>2, <1>5, <1>6, <1>7, <1>8, <1>9, Zenon DEF IInv

\* What a settled relay is left with.
LEMMA SettleEffect ==
    ASSUME IInv, NEW r \in Relays, pc[r] \in Working, SettleCurrent(r)
    PROVE  /\ pc' \in [Relays -> RelayPlaces]
           /\ batch' \in [Relays -> SUBSET Ids]
           /\ claimed' \in [Relays -> [Ids -> 0..AttemptCap]]
           /\ age' \in [Relays -> 0..AgeCap]
           /\ \A q \in Relays \ {r} : pc'[q] = pc[q] /\ batch'[q] = batch[q]
           /\ batch'[r] \subseteq batch[r]
           /\ pc'[r] = "yield" \/ (pc'[r] = "publish" /\ batch'[r] # {})
<1> USE DEF SettleCurrent
<1>1. CurrentId(r) \in batch[r] /\ CurrentId(r) \in Ids
  BY CurrentKnown, Zenon DEF Busy
<1>2. 0 \in 0..AttemptCap /\ 0 \in 0..AgeCap
  BY OutboxConstants, AgeCapType
<1>3. pc' \in [Relays -> RelayPlaces] /\ batch' \in [Relays -> SUBSET Ids]
  BY Zenon DEF IInv, TypeOK, TypeOKRelay, RelayPlaces, Working
<1>4. claimed' \in [Relays -> [Ids -> 0..AttemptCap]] /\ age' \in [Relays -> 0..AgeCap]
  BY <1>2, Zenon DEF IInv, TypeOK, TypeOKRelay
<1>5. \A q \in Relays \ {r} : pc'[q] = pc[q] /\ batch'[q] = batch[q]
  BY Zenon DEF IInv, TypeOK, TypeOKRelay
<1>6. batch'[r] = batch[r] \ {CurrentId(r)}
  BY Zenon DEF IInv, TypeOK, TypeOKRelay
<1>7. pc'[r] = IF batch[r] = {CurrentId(r)} THEN "yield" ELSE "publish"
  BY Zenon DEF IInv, TypeOK, TypeOKRelay
<1>8. pc'[r] = "yield" \/ (pc'[r] = "publish" /\ batch'[r] # {})
  BY <1>1, <1>6, <1>7, Zenon
<1> QED
  BY <1>3, <1>4, <1>5, <1>6, <1>8, Zenon

\* An UPDATE of a publishing row neither creates nor deletes a row.
LEMMA UpdateEffect ==
    ASSUME IInv, NEW id \in Ids, NEW row, UpdatePublishing(id, row),
           table[id] # None => row \in Rows
    PROVE  /\ table' \in [Ids -> Rows \cup {None}]
           /\ \A i \in Ids \ {id} : table'[i] = table[i]
           /\ table'[id] = table[id] \/ (table[id] # None /\ table'[id] = row /\ table'[id] # None)
<1>1. table \in [Ids -> Rows \cup {None}]
  BY Zenon DEF IInv, TypeOK, TypeOKRelay
<1>2. table' = table \/ (table[id] # None /\ table' = [table EXCEPT ![id] = row])
  BY Zenon DEF UpdatePublishing
<1> QED
  BY <1>1, <1>2, NoneIsNoRow, Zenon

\* What both settlements share: the safety conjuncts, from the effect of the
\* UPDATE on the row and the effect of SettleCurrent on the relay.
LEMMA SettleSafe ==
    ASSUME IInv, NEW r \in Relays, pc[r] \in Working, SettleCurrent(r), ~Locked(CurrentId(r)),
           NEW row, UpdatePublishing(CurrentId(r), row),
           table[CurrentId(r)] # None => row \in Rows,
           table[CurrentId(r)] # None /\ row.status = "published" => delivered[CurrentId(r)] > 0,
           UNCHANGED delivered
    PROVE  BatchOK' /\ LockedOK' /\ HeldKnown' /\ AckDelivered' /\ PublishedWasDelivered'
<1> DEFINE id == CurrentId(r)
<1>1. id \in Ids
  BY CurrentKnown, Zenon DEF Busy
<1>2. /\ \A q \in Relays \ {r} : pc'[q] = pc[q] /\ batch'[q] = batch[q]
      /\ batch'[r] \subseteq batch[r]
      /\ pc'[r] = "yield" \/ (pc'[r] = "publish" /\ batch'[r] # {})
  BY SettleEffect, Zenon
<1>3. /\ \A i \in Ids \ {id} : table'[i] = table[i]
      /\ table'[id] = table[id] \/ (table[id] # None /\ table'[id] = row /\ table'[id] # None)
  BY <1>1, UpdateEffect, Zenon
<1>4. ~Locked(id)
  BY Zenon
<1>5. table[id] # None /\ row.status = "published" => delivered[id] > 0
  BY Zenon
<1> HIDE DEF id
<1>6. BatchOK'
  BY <1>2, Zenon DEF IInv, BatchOK, Busy, Working
<1>7. LockedOK'
  <2> SUFFICES ASSUME NEW q \in Relays, pc'[q] = "locked", NEW i \in batch'[q]
               PROVE  table'[i] # None /\ table'[i].status # "published"
    BY Zenon DEF LockedOK
  <2>1. q # r /\ pc[q] = "locked" /\ i \in batch[q]
    BY <1>2, Zenon
  <2>2. i # id /\ i \in Ids
    BY <2>1, <1>4, Zenon DEF Locked, IInv, TypeOK, TypeOKRelay
  <2> QED
    BY <2>1, <2>2, <1>3, Zenon DEF IInv, LockedOK
<1>8. HeldKnown'
  <2> SUFFICES ASSUME NEW q \in Relays, pc'[q] \in Busy, NEW i \in batch'[q]
               PROVE  table'[i] # None \/ delivered[i] > 0
    BY Zenon DEF HeldKnown, Known
  <2>1. pc[q] \in Busy /\ i \in batch[q] /\ i \in Ids
    BY <1>2, SMTT(30) DEF Busy, Working, IInv, TypeOK, TypeOKRelay
  <2>2. table[i] # None \/ delivered[i] > 0
    BY <2>1, Zenon DEF IInv, HeldKnown, Known
  <2> QED
    BY <2>1, <2>2, <1>3, Zenon
<1>9. AckDelivered'
  <2> SUFFICES ASSUME NEW q \in Relays, pc'[q] = "ack"
               PROVE  delivered[LeastOf(batch'[q])] > 0
    BY Zenon DEF AckDelivered, CurrentId
  <2>1. pc[q] = "ack" /\ batch'[q] = batch[q]
    BY <1>2, Zenon
  <2> QED
    BY <2>1, Zenon DEF IInv, AckDelivered, CurrentId
<1>10. PublishedWasDelivered'
  BY <1>1, <1>3, <1>5, Zenon DEF IInv, PublishedWasDelivered, Present
<1> QED
  BY <1>6, <1>7, <1>8, <1>9, <1>10, Zenon

LEMMA SettlePublishedStep ==
    ASSUME IInv, NEW r \in Relays, SettlePublished(r)
    PROVE  IInv'
<1> DEFINE row == MarkPublished(table[CurrentId(r)])
<1>1. CurrentId(r) \in Ids /\ pc[r] \in Working
  BY CurrentKnown, Zenon DEF SettlePublished, Busy, Working
<1>2. table[CurrentId(r)] # None => row \in Rows
  <2>1. None \in Times
    BY SMTT(30), Zenon DEF Times
  <2> QED
    BY <1>1, <2>1, RowTypes, Zenon DEF IInv, TypeOK, TypeOKRelay
<1>3. delivered[CurrentId(r)] > 0
  BY Zenon DEF SettlePublished, IInv, AckDelivered
<1>4. UpdatePublishing(CurrentId(r), row) /\ SettleCurrent(r) /\ ~Locked(CurrentId(r)) /\ UNCHANGED delivered
  BY Zenon DEF SettlePublished, ghostVars
<1> HIDE DEF row
<1>5. TypeOK'
  <2>1. /\ pc' \in [Relays -> RelayPlaces]
        /\ batch' \in [Relays -> SUBSET Ids]
        /\ claimed' \in [Relays -> [Ids -> 0..AttemptCap]]
        /\ age' \in [Relays -> 0..AgeCap]
    BY <1>1, <1>4, SettleEffect, Zenon
  <2>2. table' \in [Ids -> Rows \cup {None}]
    BY <1>1, <1>2, <1>4, UpdateEffect, Zenon
  <2> QED
    BY <2>1, <2>2, SMTT(30), Zenon DEF SettlePublished, ghostVars, IInv, TypeOK, TypeOKRelay
<1> QED
  BY <1>1, <1>2, <1>3, <1>4, <1>5, SettleSafe, Zenon DEF IInv

LEMMA SettleFailedStep ==
    ASSUME IInv, NEW r \in Relays, SettleFailed(r)
    PROVE  IInv'
<1> DEFINE id == CurrentId(r)
           next == NextAttempt(claimed[r][id], age[r])
           row == FailedRow(table[id], seen[r], next)
<1>1. id \in Ids /\ pc[r] \in Working
  BY CurrentKnown, Zenon DEF SettleFailed, Busy, Working
<1>2. next \in Times
  <2>1. claimed[r][id] \in 0..AttemptCap
    BY <1>1, Zenon DEF IInv, TypeOK, TypeOKRelay
  <2>2. age[r] \in Nat
    BY AgeType, Zenon
  <2> QED
    BY <2>1, <2>2, NextAttemptType, Zenon DEF Times
<1>3. UpdatePublishing(id, row) /\ SettleCurrent(r) /\ ~Locked(id) /\ UNCHANGED delivered
  BY Zenon DEF SettleFailed, ghostVars
<1>4. seen[r] \in 0..AttemptCap
  BY Zenon DEF IInv, TypeOK
<1> HIDE DEF next
<1>5. table[id] # None => row \in Rows /\ row.status # "published"
  <2> SUFFICES ASSUME table[id] # None PROVE row \in Rows /\ row.status # "published"
    BY Zenon
  <2>1. table[id] \in Rows
    BY <1>1, Zenon DEF IInv, TypeOK, TypeOKRelay
  <2>2. row \in Rows
    BY <2>1, <1>2, <1>4, FailedRowType, Zenon
  <2>3. row.status = "failed"
    BY <2>1, Zenon DEF FailedRow, MarkFailed, Rows
  <2> QED
    BY <2>2, <2>3, Zenon
<1> HIDE DEF row
<1>6. TypeOK'
  <2>1. /\ pc' \in [Relays -> RelayPlaces]
        /\ batch' \in [Relays -> SUBSET Ids]
        /\ claimed' \in [Relays -> [Ids -> 0..AttemptCap]]
        /\ age' \in [Relays -> 0..AgeCap]
    BY <1>1, <1>3, SettleEffect, Zenon
  <2>2. table' \in [Ids -> Rows \cup {None}]
    BY <1>1, <1>3, <1>5, UpdateEffect, Zenon
  <2>3. seen' \in [Relays -> 0..AttemptCap]
    <3>1. seen \in [Relays -> 0..AttemptCap] /\ seen' = [seen EXCEPT ![r] = 0]
      BY Zenon DEF SettleFailed, IInv, TypeOK
    <3>2. 0 \in 0..AttemptCap
      BY OutboxConstants
    <3> QED
      BY ONLY <3>1, <3>2, SMTT(30), Zenon
  <2> QED
    BY <2>1, <2>2, <2>3, Zenon DEF SettleFailed, ghostVars, IInv, TypeOK, TypeOKRelay
<1> QED
  BY <1>1, <1>3, <1>5, <1>6, SettleSafe, Zenon DEF IInv

-----------------------------------------------------------------------------
(* The clients of the store. *)

\* A row that is written anew is pending: it exists and is not published.
LEMMA InsertStep ==
    ASSUME IInv, NEW id \in Ids, Insert(id), UNCHANGED <<pc, batch, delivered>>, TypeOK'
    PROVE  IInv'
<1>1. /\ table'[id] = NewRow
      /\ \A i \in Ids \ {id} : table'[i] = table[i]
  BY Zenon DEF Insert, IInv, TypeOK, TypeOKRelay
<1>2. NewRow # None /\ NewRow.status = "pending"
  BY RowTypes, NoneIsNoRow, Zenon DEF NewRow
<1>3. BatchOK' /\ AckDelivered'
  BY SMTT(30), Zenon DEF IInv, BatchOK, AckDelivered, CurrentId
<1>4. LockedOK'
  BY <1>1, <1>2, Zenon DEF IInv, LockedOK, TypeOK, TypeOKRelay
<1>5. HeldKnown'
  BY <1>1, <1>2, Zenon DEF IInv, HeldKnown, Known, TypeOK, TypeOKRelay
<1>6. PublishedWasDelivered'
  BY <1>1, <1>2, Zenon DEF IInv, PublishedWasDelivered, Present
<1> QED
  BY <1>3, <1>4, <1>5, <1>6, Zenon DEF IInv

LEMMA InsertType ==
    ASSUME IInv, NEW id \in Ids, Insert(id)
    PROVE  table' \in [Ids -> Rows \cup {None}]
BY RowTypes, Zenon DEF Insert, IInv, TypeOK, TypeOKRelay

\* Putting an id back into the table adds at most one cause of a second delivery.
LEMMA RequeuedType ==
    ASSUME cause \in [Ids -> SUBSET {"late", "again"}], NEW id \in Ids
    PROVE  Requeued(id) \in [Ids -> SUBSET {"late", "again"}]
<1>1. cause[id] \cup {"again"} \in SUBSET {"late", "again"}
  BY Zenon
<1>2. [cause EXCEPT ![id] = @ \cup {"again"}] \in [Ids -> SUBSET {"late", "again"}]
  BY <1>1, Zenon
<1> QED
  BY <1>2, Zenon DEF Requeued

LEMMA ClientStep ==
    ASSUME IInv, NEW id \in Ids, Client(id)
    PROVE  IInv'
<1> USE DEF storeVars, loopVars, ghostVars, relayVars
<1>1. CASE Enqueue(id)
  <2>1. CASE table[id] = None
    <3>1. cause' \in [Ids -> SUBSET {"late", "again"}]
      <4>1. cause' = Requeued(id)
        BY <1>1, <2>1, Zenon DEF Enqueue
      <4>2. cause \in [Ids -> SUBSET {"late", "again"}]
        BY Zenon DEF IInv, TypeOK, TypeOKRelay
      <4> QED
        BY <4>1, <4>2, RequeuedType, Zenon
    <3>2. notified' \in BOOLEAN
      BY <1>1, <2>1, Zenon DEF Enqueue, IInv, TypeOK, TypeOKRelay
    <3>3. Insert(id) /\ UNCHANGED <<loopVars, delivered, openTx, seen>>
      BY <1>1, <2>1, Zenon DEF Enqueue
    <3>4. TypeOK'
      BY <3>1, <3>2, <3>3, InsertType, Zenon DEF IInv, TypeOK, TypeOKRelay
    <3> QED
      BY <3>3, <3>4, InsertStep, Zenon
  <2>2. CASE table[id] # None
    <3>1. UNCHANGED vars
      BY <1>1, <2>2, Zenon DEF Enqueue, vars
    <3>2. TypeOK'
      BY <3>1, Zenon DEF vars, IInv, TypeOK, TypeOKRelay
    <3> QED
      BY <3>1, <3>2, SameBatches, Zenon DEF vars
  <2> QED
    BY <2>1, <2>2, Zenon
<1>2. CASE EnqueueInTransaction(id)
  <2>1. notified' \in BOOLEAN
    BY <1>2, Zenon DEF EnqueueInTransaction, IInv, TypeOK, TypeOKRelay
  <2>2. TypeOK'
    BY <1>2, <2>1, Zenon DEF EnqueueInTransaction, IInv, TypeOK, TypeOKRelay
  <2> QED
    BY <1>2, <2>2, SameBatches, Zenon DEF EnqueueInTransaction
<1>3. CASE CommitTransaction(id)
  <2>1. cause' \in [Ids -> SUBSET {"late", "again"}]
    <3>1. cause' = Requeued(id)
      BY <1>3, Zenon DEF CommitTransaction
    <3>2. cause \in [Ids -> SUBSET {"late", "again"}]
      BY Zenon DEF IInv, TypeOK, TypeOKRelay
    <3> QED
      BY <3>1, <3>2, RequeuedType, Zenon
  <2>2. Insert(id) /\ openTx' = openTx \ {id} /\ UNCHANGED <<notified, loopVars, delivered, seen>>
    BY <1>3, Zenon DEF CommitTransaction
  <2>3. TypeOK'
    BY <2>1, <2>2, InsertType, Zenon DEF IInv, TypeOK, TypeOKRelay
  <2> QED
    BY <2>2, <2>3, InsertStep, Zenon
<1>4. CASE RollbackTransaction(id)
  <2>1. TypeOK'
    BY <1>4, Zenon DEF RollbackTransaction, IInv, TypeOK, TypeOKRelay
  <2> QED
    BY <1>4, <2>1, SameBatches, Zenon DEF RollbackTransaction
<1>5. CASE ReplayDeadLetter(id)
  <2>1. notified' \in BOOLEAN
    BY <1>5, Zenon DEF ReplayDeadLetter, IInv, TypeOK, TypeOKRelay
  <2>2. Insert(id) /\ UNCHANGED <<loopVars, ghostVars, openTx, seen>>
    BY <1>5, Zenon DEF ReplayDeadLetter
  <2>3. TypeOK'
    BY <2>1, <2>2, InsertType, Zenon DEF IInv, TypeOK, TypeOKRelay
  <2> QED
    BY <2>2, <2>3, InsertStep, Zenon
<1> QED
  BY <1>1, <1>2, <1>3, <1>4, <1>5, Zenon DEF Client

\* Cleanup deletes published rows only: their events were delivered, and no
\* open claim holds one.
LEMMA CleanupStep ==
    ASSUME IInv, NEW limit, CleanupPublished(limit)
    PROVE  IInv'
<1> DEFINE rows == FirstOf({id \in Present : table[id].status = "published"}, limit)
<1>1. \A id \in rows : table[id].status = "published" /\ delivered[id] > 0
  BY SMTT(30), Zenon DEF FirstOf, IInv, PublishedWasDelivered
<1>2. /\ table' = [id \in Ids |-> IF id \in rows THEN None ELSE table[id]]
      /\ UNCHANGED <<notified, loopVars, ghostVars, openTx, seen>>
  BY Zenon DEF CleanupPublished
<1> HIDE DEF rows
<1> USE DEF loopVars, ghostVars
<1>3. TypeOK'
  BY <1>2, Zenon DEF IInv, TypeOK, TypeOKRelay
<1>4. BatchOK' /\ AckDelivered'
  BY <1>2, Zenon DEF IInv, BatchOK, AckDelivered, CurrentId
<1>5. LockedOK'
  BY <1>1, <1>2, Zenon DEF IInv, LockedOK, TypeOK, TypeOKRelay
<1>6. HeldKnown'
  BY <1>1, <1>2, Zenon DEF IInv, HeldKnown, Known, TypeOK, TypeOKRelay
<1>7. PublishedWasDelivered'
  BY <1>2, Zenon DEF IInv, PublishedWasDelivered, Present
<1> QED
  BY <1>3, <1>4, <1>5, <1>6, <1>7, Zenon DEF IInv

-----------------------------------------------------------------------------
(* The theorems. *)

LEMMA NextIInv == IInv /\ [Next]_vars => IInv'
<1> SUFFICES ASSUME IInv, [Next]_vars PROVE IInv'
  BY Zenon
<1>1. CASE TickSql
  BY <1>1, TickStep, Zenon
<1>2. ASSUME NEW r \in Relays, StoreStep(r) PROVE IInv'
  BY <1>2, SelectForUpdateStep, CommitClaimStep, SettlePublishedStep, ReadAttemptsStep,
     SettleFailedStep, Zenon DEF StoreStep
<1>3. ASSUME NEW r \in Relays, RelayStepSql(r) PROVE IInv'
  BY <1>3, WakeUpStep, YieldStep, PublishOkStep, PublishErrStep, Zenon DEF RelayStepSql, RelayStep
<1>4. ASSUME NEW r \in Relays, CrashSql(r) PROVE IInv'
  BY <1>4, CrashStep, Zenon
<1>5. ASSUME NEW r \in Relays, (RequestShutdown(r) \/ Restart(r)) /\ UNCHANGED <<openTx, seen>>
      PROVE  IInv'
  BY <1>5, RequestShutdownStep, RestartStep, Zenon
<1>6. ASSUME NEW id \in Ids, Client(id) PROVE IInv'
  BY <1>6, ClientStep, Zenon
<1>7. ASSUME NEW limit \in 1..Cardinality(Ids), CleanupPublished(limit) PROVE IInv'
  BY <1>7, CleanupStep, Zenon
<1>8. CASE UNCHANGED vars
  <2>1. TypeOK'
    BY <1>8, Zenon DEF vars, relayVars, storeVars, loopVars, ghostVars, IInv, TypeOK, TypeOKRelay
  <2> QED
    BY <1>8, <2>1, SameBatches, Zenon DEF vars, relayVars, storeVars, loopVars, ghostVars
<1> QED
  BY <1>1, <1>2, <1>3, <1>4, <1>5, <1>6, <1>7, <1>8, Zenon DEF Next

\* The inductive invariant holds in every reachable state of the SQL outbox.
THEOREM Invariance == Spec => []IInv
<1>1. Init => IInv
  BY InitIInv, Zenon
<1>2. IInv /\ [Next]_vars => IInv'
  BY NextIInv, Zenon
<1> QED
  BY <1>1, <1>2, PTL DEF Spec

\* Every variable keeps its type, whatever relays, clients and crashes do.
THEOREM TypeCorrect == Spec => []TypeOK
<1>1. IInv => TypeOK
  BY Zenon DEF IInv
<1> QED
  BY <1>1, Invariance, PTL

\* A row is marked published only after the broker took its event, for any
\* number of relays, leases and crashes (mark_published, SKIP LOCKED, cleanup).
THEOREM PublishedOnlyDelivered == Spec => []PublishedWasDelivered
<1>1. IInv => PublishedWasDelivered
  BY Zenon DEF IInv
<1> QED
  BY <1>1, Invariance, PTL

-----------------------------------------------------------------------------
(* The SQL outbox implements EventOutbox.  Four shapes of step. *)

LEMMA MapStutter ==
    ASSUME \A id \in Ids : Phase(id)' = Phase(id), UNCHANGED delivered
    PROVE  UNCHANGED Promise!vars
BY Zenon DEF Promise!vars

LEMMA MapDeliver ==
    ASSUME NEW id \in Ids, Phase(id) # "none", delivered' = MoreDelivered(id),
           \A i \in Ids : Phase(i)' = Phase(i)
    PROVE  Promise!Deliver(id)
BY Zenon DEF Promise!Deliver, MoreDelivered

LEMMA MapAccept ==
    ASSUME NEW id \in Ids, Phase(id) # "waiting", Phase(id)' = "waiting", UNCHANGED delivered,
           \A i \in Ids \ {id} : Phase(i)' = Phase(i)
    PROVE  Promise!Accept(id)
<1>1. Phase(id) \in {"none", "done"}
  BY Zenon DEF Phase
<1> QED
  BY <1>1, Zenon DEF Promise!Accept

LEMMA MapFinish ==
    ASSUME NEW id \in Ids, Phase(id) = "waiting", Phase(id)' = "done", delivered[id] > 0,
           UNCHANGED delivered, \A i \in Ids \ {id} : Phase(i)' = Phase(i)
    PROVE  Promise!Finish(id)
BY Zenon DEF Promise!Finish

\* A step that leaves rows and deliveries alone, or keeps every row's phase.
LEMMA MapUnchanged ==
    ASSUME UNCHANGED <<table, delivered>>
    PROVE  UNCHANGED Promise!vars
<1>1. \A id \in Ids : Phase(id)' = Phase(id)
  BY Zenon DEF Phase
<1> QED
  BY <1>1, MapStutter, Zenon

LEMMA MapInsert ==
    ASSUME IInv, NEW id \in Ids, Insert(id), UNCHANGED delivered
    PROVE  Promise!Accept(id) \/ UNCHANGED Promise!vars
<1>1. /\ table'[id] = NewRow
      /\ \A i \in Ids \ {id} : table'[i] = table[i]
  BY Zenon DEF Insert, IInv, TypeOK, TypeOKRelay
<1>2. NewRow # None /\ NewRow.status = "pending"
  BY RowTypes, NoneIsNoRow, Zenon DEF NewRow
<1>3. Phase(id)' = "waiting"
  BY <1>1, <1>2, Zenon DEF Phase
<1>4. \A i \in Ids \ {id} : Phase(i)' = Phase(i)
  BY <1>1, Zenon DEF Phase
<1>5. CASE Phase(id) = "waiting"
  BY <1>3, <1>4, <1>5, MapStutter, Zenon
<1>6. CASE Phase(id) # "waiting"
  BY <1>3, <1>4, <1>6, MapAccept, Zenon
<1> QED
  BY <1>5, <1>6, Zenon

LEMMA MapUpdate ==
    ASSUME IInv, NEW id \in Ids, NEW row, UpdatePublishing(id, row), row # None,
           table[id] # None /\ row.status = "published" => delivered[id] > 0,
           UNCHANGED delivered
    PROVE  Promise!Finish(id) \/ UNCHANGED Promise!vars
<1>1. CASE table' = table
  BY <1>1, MapUnchanged, Zenon
<1>2. CASE table' # table
  <2>1. /\ table[id] # None /\ table[id].status = "publishing"
        /\ table' = [table EXCEPT ![id] = row]
    BY <1>2, Zenon DEF UpdatePublishing
  <2>2. table'[id] = row /\ \A i \in Ids \ {id} : table'[i] = table[i]
    BY <2>1, Zenon DEF IInv, TypeOK, TypeOKRelay
  <2>3. \A i \in Ids \ {id} : Phase(i)' = Phase(i)
    BY <2>2, Zenon DEF Phase
  <2>4. Phase(id) = "waiting"
    BY <2>1, Zenon DEF Phase
  <2>5. Phase(id)' = IF row.status = "published" THEN "done" ELSE "waiting"
    BY <2>2, Zenon DEF Phase
  <2>6. CASE row.status = "published"
    BY <2>1, <2>3, <2>4, <2>5, <2>6, MapFinish, Zenon
  <2>7. CASE row.status # "published"
    BY <2>3, <2>4, <2>5, <2>7, MapStutter, Zenon
  <2> QED
    BY <2>6, <2>7, Zenon
<1> QED
  BY <1>1, <1>2, Zenon

LEMMA MapTick ==
    ASSUME IInv, TickSql
    PROVE  UNCHANGED Promise!vars
<1>1. \A id \in Ids :
        /\ table[id] = None => table'[id] = None
        /\ table[id] # None => table'[id] # None /\ table'[id].status = table[id].status
  <2> SUFFICES ASSUME NEW id \in Ids, table[id] # None
               PROVE  table'[id] # None /\ table'[id].status = table[id].status
    BY Zenon DEF TickSql, RelayTick
  <2>1. table[id] \in Rows
    BY SMTT(30), Zenon DEF IInv, TypeOK, TypeOKRelay
  <2>2. OneLess(table[id].next) \in Times /\ OneLess(table[id].lease) \in Times
    BY <2>1, OneLessType, SMTT(30), Zenon DEF Rows
  <2>3. table'[id] = [table[id] EXCEPT !.next = OneLess(@), !.lease = OneLess(@)]
    BY Zenon DEF TickSql, RelayTick
  <2>4. table'[id] \in Rows /\ table'[id].status = table[id].status
    BY <2>1, <2>2, <2>3, Zenon DEF Rows
  <2> QED
    BY <2>4, NoneIsNoRow, SMTT(30), Zenon
<1>2. UNCHANGED delivered
  BY Zenon DEF TickSql, RelayTick
<1>3. \A id \in Ids : Phase(id)' = Phase(id)
  BY <1>1, <1>2, Zenon DEF Phase
<1> QED
  BY <1>2, <1>3, MapStutter, Zenon

LEMMA MapCommitClaim ==
    ASSUME IInv, NEW r \in Relays, CommitClaim(r)
    PROVE  UNCHANGED Promise!vars
<1>1. \A id \in batch[r] : /\ table[id] # None /\ table[id].status # "published"
                           /\ table'[id] # None /\ table'[id].status = "publishing"
  <2> SUFFICES ASSUME NEW id \in batch[r]
               PROVE  /\ table[id] # None /\ table[id].status # "published"
                      /\ table'[id] # None /\ table'[id].status = "publishing"
    BY Zenon
  <2>1. id \in Ids /\ table[id] \in Rows /\ table[id] # None /\ table[id].status # "published"
    BY Zenon DEF CommitClaim, IInv, LockedOK, TypeOK, TypeOKRelay
  <2>2. Left(Lease, age[r]) \in Times
    <3>1. age[r] \in Nat
      BY AgeType, Zenon
    <3> QED
      BY <3>1, LeftType, OutboxConstants, ZenonT(30), Zenon DEF Times
  <2>3. table'[id] = MarkPublishing(table[id], Left(Lease, age[r]))
    BY <2>1, Zenon DEF CommitClaim
  <2>4. table'[id] # None
    BY <2>1, <2>2, <2>3, RowTypes, NoneIsNoRow, Zenon
  <2>5. table'[id].status = "publishing"
    BY <2>1, <2>3, Zenon DEF MarkPublishing, Rows
  <2> QED
    BY <2>1, <2>4, <2>5, Zenon
<1>2. \A id \in Ids \ batch[r] : table'[id] = table[id]
  BY Zenon DEF CommitClaim
<1>3. UNCHANGED delivered
  BY Zenon DEF CommitClaim
<1>4. \A id \in Ids : Phase(id)' = Phase(id)
  BY <1>1, <1>2, <1>3, Zenon DEF Phase
<1> QED
  BY <1>3, <1>4, MapStutter, Zenon

LEMMA MapPublish ==
    ASSUME IInv, NEW r \in Relays, PublishOk(r) \/ PublishErr(r)
    PROVE  Promise!Deliver(CurrentId(r)) \/ UNCHANGED Promise!vars
<1>1. CurrentId(r) \in batch[r] /\ CurrentId(r) \in Ids
  BY CurrentKnown, Zenon DEF PublishOk, PublishErr, Busy, Working
<1>2. table[CurrentId(r)] # None \/ delivered[CurrentId(r)] > 0
  BY <1>1, Zenon DEF PublishOk, PublishErr, IInv, HeldKnown, Known, Busy, Working
<1>3. UNCHANGED table /\ (UNCHANGED delivered \/ delivered' = MoreDelivered(CurrentId(r)))
  BY Zenon DEF PublishOk, PublishErr, storeVars, ghostVars
<1>4. CASE UNCHANGED delivered
  BY <1>3, <1>4, MapUnchanged, SMTT(30), Zenon
<1>5. CASE delivered' = MoreDelivered(CurrentId(r))
  <2>1. Phase(CurrentId(r)) # "none"
    BY <1>2, Zenon DEF Phase
  <2>2. \A i \in Ids : delivered[i] > 0 => delivered'[i] > 0
    BY <1>1, <1>5, MoreDeliveredType, Zenon DEF IInv, TypeOK, TypeOKRelay
  <2>3. \A i \in Ids : i # CurrentId(r) => delivered'[i] = delivered[i]
    BY <1>1, <1>5, SMTT(30), Zenon DEF MoreDelivered, IInv, TypeOK, TypeOKRelay
  <2>4. \A i \in Ids : Phase(i)' = Phase(i)
    BY <1>2, <1>3, <2>2, <2>3, Zenon DEF Phase
  <2> QED
    BY <1>1, <1>5, <2>1, <2>4, MapDeliver, Zenon
<1> QED
  BY <1>3, <1>4, <1>5, Zenon

LEMMA MapSettle ==
    ASSUME IInv, NEW r \in Relays, SettlePublished(r) \/ SettleFailed(r)
    PROVE  Promise!Finish(CurrentId(r)) \/ UNCHANGED Promise!vars
<1>1. CurrentId(r) \in Ids
  BY CurrentKnown, SMTT(30), Zenon DEF SettlePublished, SettleFailed, Busy, Working
<1>2. CASE table[CurrentId(r)] = None
  BY <1>2, MapUnchanged, ZenonT(30), Zenon DEF SettlePublished, SettleFailed, UpdatePublishing, ghostVars
<1>3. CASE table[CurrentId(r)] # None /\ SettlePublished(r)
  <2> DEFINE row == MarkPublished(table[CurrentId(r)])
  <2>1. None \in Times /\ table[CurrentId(r)] \in Rows
    BY <1>1, <1>3, Zenon DEF Times, IInv, TypeOK, TypeOKRelay
  <2>2. row # None
    BY <2>1, RowTypes, NoneIsNoRow, SMTT(30), Zenon
  <2>3. UpdatePublishing(CurrentId(r), row) /\ UNCHANGED delivered /\ delivered[CurrentId(r)] > 0
    BY <1>3, Zenon DEF SettlePublished, ghostVars, IInv, AckDelivered
  <2> HIDE DEF row
  <2> QED
    BY <1>1, <2>2, <2>3, MapUpdate, Zenon
<1>4. CASE table[CurrentId(r)] # None /\ SettleFailed(r)
  <2> DEFINE next == NextAttempt(claimed[r][CurrentId(r)], age[r])
             row == FailedRow(table[CurrentId(r)], seen[r], next)
  <2>1. table[CurrentId(r)] \in Rows
    BY <1>1, <1>4, SMTT(30), Zenon DEF IInv, TypeOK, TypeOKRelay
  <2>2. UpdatePublishing(CurrentId(r), row) /\ UNCHANGED delivered
    BY <1>4, Zenon DEF SettleFailed, ghostVars
  <2>3. row.status = "failed"
    BY <2>1, Zenon DEF FailedRow, MarkFailed, Rows
  <2>4. next \in Times
    <3>1. claimed[r][CurrentId(r)] \in 0..AttemptCap
      BY <1>1, Zenon DEF IInv, TypeOK, TypeOKRelay
    <3>2. age[r] \in Nat
      BY AgeType, SMTT(30), Zenon
    <3>3. NextAttempt(claimed[r][CurrentId(r)], age[r]) \in Nat
      BY ONLY <3>1, <3>2, NextAttemptType, Zenon
    <3> QED
      BY <3>3, Zenon DEF Times
  <2>5. seen[r] \in 0..AttemptCap
    BY Zenon DEF IInv, TypeOK
  <2> HIDE DEF next
  <2>6. row # None
    BY <2>1, <2>4, <2>5, FailedRowType, NoneIsNoRow, Zenon
  <2> HIDE DEF row
  <2> QED
    BY <1>1, <2>2, <2>3, <2>6, MapUpdate, Zenon
<1> QED
  BY <1>2, <1>3, <1>4, SMTT(30), Zenon

LEMMA MapCleanup ==
    ASSUME IInv, NEW limit, CleanupPublished(limit)
    PROVE  UNCHANGED Promise!vars
<1> DEFINE rows == FirstOf({id \in Present : table[id].status = "published"}, limit)
<1>1. \A id \in rows : table[id] # None /\ table[id].status = "published" /\ delivered[id] > 0
  BY Zenon DEF FirstOf, Present, IInv, PublishedWasDelivered
<1>2. /\ table' = [id \in Ids |-> IF id \in rows THEN None ELSE table[id]]
      /\ UNCHANGED delivered
  BY Zenon DEF CleanupPublished, ghostVars
<1> HIDE DEF rows
<1>3. \A id \in Ids : Phase(id)' = Phase(id)
  BY <1>1, <1>2, Zenon DEF Phase
<1> QED
  BY <1>2, <1>3, MapStutter, Zenon

LEMMA MapNext == IInv /\ [Next]_vars => [Promise!Next]_(Promise!vars)
<1> SUFFICES ASSUME IInv, [Next]_vars PROVE Promise!Next \/ UNCHANGED Promise!vars
  BY Zenon
<1> USE DEF storeVars, loopVars, ghostVars, relayVars
<1>1. CASE TickSql
  BY <1>1, MapTick, Zenon
<1>2. ASSUME NEW r \in Relays, StoreStep(r) PROVE Promise!Next \/ UNCHANGED Promise!vars
  <2>1. CASE SelectForUpdate(r) \/ ReadAttempts(r)
    BY <2>1, MapUnchanged, Zenon DEF SelectForUpdate, ReadAttempts
  <2>2. CASE CommitClaim(r)
    BY <2>2, MapCommitClaim, Zenon
  <2>3. CASE SettlePublished(r) \/ SettleFailed(r)
    <3>1. CurrentId(r) \in Ids
      BY <2>3, CurrentKnown, Zenon DEF SettlePublished, SettleFailed, Busy, Working
    <3> QED
      BY <2>3, <3>1, MapSettle, SMTT(30), Zenon DEF Promise!Next
  <2> QED
    BY <1>2, <2>1, <2>2, <2>3, SMTT(30), Zenon DEF StoreStep
<1>3. ASSUME NEW r \in Relays, RelayStepSql(r) PROVE Promise!Next \/ UNCHANGED Promise!vars
  <2>1. CASE WakeUp(r) \/ Yield(r)
    BY <2>1, MapUnchanged, Zenon DEF WakeUp, Yield
  <2>2. CASE PublishOk(r) \/ PublishErr(r)
    <3>1. CurrentId(r) \in Ids
      BY <2>2, CurrentKnown, Zenon DEF PublishOk, PublishErr, Busy, Working
    <3> QED
      BY <2>2, <3>1, MapPublish, SMTT(30), Zenon DEF Promise!Next
  <2> QED
    BY <1>3, <2>1, <2>2, SMTT(30), Zenon DEF RelayStepSql, RelayStep
<1>4. ASSUME NEW r \in Relays, CrashSql(r) \/ RequestShutdown(r) \/ Restart(r)
      PROVE  UNCHANGED Promise!vars
  BY <1>4, MapUnchanged, Zenon DEF CrashSql, Crash, RequestShutdown, Restart
<1>5. ASSUME NEW id \in Ids, Client(id) PROVE Promise!Next \/ UNCHANGED Promise!vars
  <2>1. CASE UNCHANGED <<table, delivered>>
    BY <2>1, MapUnchanged, Zenon
  <2>2. CASE ~ UNCHANGED <<table, delivered>>
    <3>1. Insert(id) /\ UNCHANGED delivered
      BY <1>5, <2>2, Zenon DEF Client, Enqueue, EnqueueInTransaction, CommitTransaction,
                        RollbackTransaction, ReplayDeadLetter
    <3> QED
      BY <3>1, MapInsert, SMTT(30), Zenon DEF Promise!Next
  <2> QED
    BY <2>1, <2>2, Zenon
<1>6. ASSUME NEW limit \in 1..Cardinality(Ids), CleanupPublished(limit)
      PROVE  UNCHANGED Promise!vars
  BY <1>6, MapCleanup, Zenon
<1>7. CASE UNCHANGED vars
  BY <1>7, MapUnchanged, Zenon DEF vars
<1> QED
  BY <1>1, <1>2, <1>3, <1>4, <1>5, <1>6, <1>7, Zenon DEF Next

\* The SQL outbox, with any number of relays, crashes and clients, implements
\* the promise of EventOutbox: only committed events are delivered, and an
\* event is done only after a delivery.
THEOREM Refinement == Spec => KeepsPromise
<1>1. Init => Promise!Init
  BY DEF Init, InitRelay, Promise!Init, Phase
<1>2. IInv /\ [Next]_vars => [Promise!Next]_(Promise!vars)
  BY MapNext, Zenon
<1> QED
  BY <1>1, <1>2, Invariance, PTL DEF Spec, KeepsPromise, Promise!Spec

-----------------------------------------------------------------------------
(***************************************************************************)
(* What the row locks of a claim, the status and the lease of a row        *)
(* guarantee together.  A relay that keeps a message within its lease has  *)
(* it alone.                                                               *)
(***************************************************************************)

(* The inductive invariant *)

\* A row that an open transaction inserts is not in the table yet.
OpenTxAbsent == \A id \in openTx : table[id] = None

\* The rows of an open claim stay claimable: whatever would change one waits
\* for its lock.
LockedClaimable ==
    \A r \in Relays, id \in Ids :
        pc[r] = "locked" /\ id \in batch[r] => table[id] # None /\ Claimable(table[id])

\* FOR UPDATE SKIP LOCKED: two open claims share no row.
LockedOnce ==
    \A r1, r2 \in Relays, id \in Ids :
        /\ pc[r1] = "locked" /\ id \in batch[r1]
        /\ pc[r2] = "locked" /\ id \in batch[r2]
        => r1 = r2

InTime(id) == "late" \notin cause[id]

\* The row of a message whose relays were all in time is still leased, for as
\* long as the batch of its relay is younger than the lease.
Leased(r, id) ==
    /\ table[id] # None /\ table[id].status = "publishing"
    /\ age[r] < Lease /\ table[id].lease = Lease - age[r]

HeldLeased == \A r \in Relays, id \in Ids : Holds(r, id) /\ InTime(id) => Leased(r, id)

\* A published row waits for nothing.
PublishedBare ==
    \A id \in Ids : table[id] # None /\ table[id].status = "published"
                      => table[id].next = None /\ table[id].lease = None

LeaseInv ==
    /\ OpenTxAbsent /\ LockedClaimable /\ LockedOnce
    /\ HeldLeased /\ ExclusiveHold /\ PublishedBare

LEMMA InitLeaseInv == Init => LeaseInv
BY Zenon DEF Init, InitRelay, LeaseInv, OpenTxAbsent, LockedClaimable, LockedOnce, HeldLeased,
       ExclusiveHold, PublishedBare, Holds, Working

\* A leased row is not claimable, and neither is a published one.
LEMMA LeasedNotClaimable ==
    ASSUME IInv, NEW r \in Relays, NEW id \in Ids, Leased(r, id)
    PROVE  ~Claimable(table[id]) /\ table[id].status # "published"
<1>1. age[r] \in Nat /\ Lease \in Nat /\ None \notin Nat
  BY AgeType, OutboxConstants, Zenon
<1>2. Lease - age[r] # 0 /\ Lease - age[r] \in Nat
  BY <1>1 DEF Leased
<1> QED
  BY <1>1, <1>2, Zenon DEF Leased, Claimable, Due

-----------------------------------------------------------------------------
(* The kinds of step.  Each is what some of the actions do to the rows and   *)
(* to the relays that are busy with them.                                    *)

\* Everything about the other relays stays.
Others(r) ==
    \A q \in Relays : q # r =>
        pc'[q] = pc[q] /\ batch'[q] = batch[q] /\ age'[q] = age[q] /\ seen'[q] = seen[q]

\* No row and no busy relay changes; a transaction may begin with an absent id.
Quiet ==
    /\ UNCHANGED <<table, cause, delivered, crashes>>
    /\ \A q \in Relays :
        \/ pc[q] \notin Busy /\ pc'[q] \notin Busy
        \/ pc'[q] = pc[q] /\ batch'[q] = batch[q] /\ age'[q] = age[q] /\ seen'[q] = seen[q]
    /\ \A id \in openTx' : id \in openTx \/ table[id] = None

\* A relay goes on with the message that it holds.
Advance(r) ==
    /\ UNCHANGED <<table, crashes, openTx>>
    /\ Others(r)
    /\ pc[r] \in Working /\ pc'[r] \in Working
    /\ batch'[r] = batch[r] /\ age'[r] = age[r]
    /\ \A id \in Ids : cause[id] \subseteq cause'[id]
    /\ \A id \in Ids : id # CurrentId(r) => delivered'[id] = delivered[id]
    /\ \/ /\ pc[r] = "publish" /\ pc'[r] = "ack"
          /\ delivered[CurrentId(r)] = 0 => delivered'[CurrentId(r)] = 1
       \/ /\ pc[r] = "publish" /\ pc'[r] = "nack"
          /\ delivered' = delivered \/ cause'[CurrentId(r)] # {}
       \/ /\ pc[r] = "nack" /\ pc'[r] = "fail" /\ delivered' = delivered
          /\ table[CurrentId(r)] # None => table[CurrentId(r)].attempts <= seen'[r]

\* A row that is absent or failed, and not locked, is written anew.
Anew(id) ==
    /\ table'[id] = NewRow
    /\ \A i \in Ids : i # id => table'[i] = table[i]
    /\ table[id] = None \/ (table[id].status = "failed" /\ ~Locked(id))
    /\ UNCHANGED <<pc, batch, age, seen, crashes, delivered>>
    /\ openTx' \subseteq openTx /\ id \notin openTx'
    /\ \A i \in Ids : cause[i] \subseteq cause'[i]
    /\ delivered[id] > 0 /\ table[id] = None => cause'[id] # {}

\* A relay is gone, with its batch or its open claim.
Drop(r) ==
    /\ UNCHANGED <<table, delivered, openTx>>
    /\ Others(r) /\ pc'[r] \notin Busy
    /\ crashes' > 0
    /\ \A id \in Ids : cause[id] \subseteq cause'[id]
    /\ pc[r] = "ack" => cause'[CurrentId(r)] # {}

\* Published rows are deleted.
Cleaned ==
    /\ \A id \in Ids :
        \/ table'[id] = table[id]
        \/ table'[id] = None /\ table[id] # None /\ table[id].status = "published"
    /\ UNCHANGED <<pc, batch, age, seen, crashes, delivered, cause, openTx>>

\* A relay claims rows that are claimable and that no other claim has locked.
Claimed(r) ==
    /\ UNCHANGED <<table, delivered, cause, crashes, openTx>>
    /\ Others(r)
    /\ pc[r] \notin Busy /\ pc'[r] = "locked"
    /\ \A id \in batch'[r] : table[id] # None /\ Claimable(table[id]) /\ ~Locked(id)

\* A claim is committed: its rows are leased to the relay.
Leases(r) ==
    /\ UNCHANGED <<delivered, crashes, openTx>>
    /\ Others(r)
    /\ pc[r] = "locked" /\ pc'[r] = "publish" /\ batch'[r] = batch[r] /\ age'[r] = age[r]
    /\ \A id \in Ids :
        IF id \in batch[r]
        THEN /\ table'[id] # None
             /\ table'[id].status = "publishing" /\ table'[id].attempts = table[id].attempts
             /\ table'[id].lease = Left(Lease, age[r])
             /\ cause'[id] = IF age[r] >= Lease THEN cause[id] \cup {"late"} ELSE cause[id]
        ELSE table'[id] = table[id] /\ cause'[id] = cause[id]

\* A relay settles the message `id' of its batch, if the row is still publishing.
Settled(r, id) ==
    /\ UNCHANGED <<delivered, cause, crashes, openTx>>
    /\ Others(r)
    /\ pc[r] \in Working /\ id \in batch[r] /\ id = CurrentId(r)
    /\ batch'[r] = batch[r] \ {id}
    /\ \/ pc'[r] \notin Busy /\ batch'[r] = {}
       \/ pc'[r] = "publish" /\ age'[r] = age[r]
    /\ ~Locked(id)
    /\ \A i \in Ids : i # id => table'[i] = table[i]
    /\ IF table[id] # None /\ table[id].status = "publishing"
       THEN /\ table'[id] # None
            /\ \/ /\ pc[r] = "ack" /\ table'[id].status = "published"
                  /\ table'[id].attempts = table[id].attempts
                  /\ table'[id].next = None /\ table'[id].lease = None
               \/ /\ pc[r] = "fail" /\ table'[id].status = "failed"
                  /\ table'[id].attempts = seen[r]
       ELSE table'[id] = table[id]

\* One unit of time passes.
Aged ==
    /\ UNCHANGED <<pc, batch, seen, crashes, delivered, openTx>>
    /\ \A id \in Ids :
        IF table[id] = None THEN table'[id] = None
        ELSE /\ table'[id] # None
             /\ table'[id].status = table[id].status /\ table'[id].attempts = table[id].attempts
             /\ table'[id].next = OneLess(table[id].next)
             /\ table'[id].lease = OneLess(table[id].lease)
             /\ table'[id].status = "published" /\ table[id].next = None /\ table[id].lease = None
                  => table'[id] = table[id]
    /\ \A r \in Relays :
        age'[r] = IF pc[r] \in Busy /\ age[r] < AgeCap THEN age[r] + 1 ELSE age[r]
    /\ \A id \in Ids :
        /\ cause[id] \subseteq cause'[id]
        /\ \A r \in Relays : Holds(r, id) /\ age'[r] >= Lease => "late" \in cause'[id]

LEMMA QuietLease == LeaseInv /\ Quiet => LeaseInv'
<1> SUFFICES ASSUME LeaseInv, Quiet PROVE LeaseInv'
  BY Zenon
<1>1. OpenTxAbsent' /\ PublishedBare'
  BY Zenon DEF LeaseInv, Quiet, OpenTxAbsent, PublishedBare
<1>2. LockedClaimable' /\ LockedOnce'
  BY Zenon DEF LeaseInv, Quiet, LockedClaimable, LockedOnce, Busy
<1>3. HeldLeased' /\ ExclusiveHold'
  BY DEF LeaseInv, Quiet, HeldLeased, ExclusiveHold, Holds, InTime, Leased, Busy
<1> QED
  BY <1>1, <1>2, <1>3, Zenon DEF LeaseInv

LEMMA AdvanceLease ==
    ASSUME LeaseInv, NEW r \in Relays, Advance(r)
    PROVE  LeaseInv'
<1>1. OpenTxAbsent' /\ PublishedBare'
  BY Zenon DEF LeaseInv, Advance, OpenTxAbsent, PublishedBare
<1>2. \A q \in Relays : batch'[q] = batch[q] /\ age'[q] = age[q]
  BY Zenon DEF Advance, Others
<1>3. \A q \in Relays : pc'[q] \in Working <=> pc[q] \in Working
  BY Zenon DEF Advance, Others
<1>4. \A q \in Relays : pc'[q] = "locked" <=> pc[q] = "locked"
  BY Zenon DEF Advance, Others, Working
<1>5. LockedClaimable' /\ LockedOnce'
  BY <1>2, <1>4, Zenon DEF LeaseInv, Advance, LockedClaimable, LockedOnce
<1>6. HeldLeased'
  BY <1>2, <1>3 DEF LeaseInv, Advance, HeldLeased, Holds, InTime, Leased
<1>7. ExclusiveHold'
  BY <1>2, <1>3, Zenon DEF LeaseInv, Advance, ExclusiveHold, Holds
<1> QED
  BY <1>1, <1>5, <1>6, <1>7, Zenon DEF LeaseInv

LEMMA DropLease ==
    ASSUME LeaseInv, NEW r \in Relays, Drop(r)
    PROVE  LeaseInv'
<1>1. OpenTxAbsent' /\ PublishedBare'
  BY Zenon DEF LeaseInv, Drop, OpenTxAbsent, PublishedBare
<1>2. \A q \in Relays : pc'[q] \in Busy => q # r /\ pc'[q] = pc[q] /\ batch'[q] = batch[q] /\ age'[q] = age[q]
  BY Zenon DEF Drop, Others
<1>3. LockedClaimable' /\ LockedOnce'
  BY <1>2, Zenon DEF LeaseInv, Drop, LockedClaimable, LockedOnce, Busy
<1>4. HeldLeased'
  BY <1>2 DEF LeaseInv, Drop, HeldLeased, Holds, InTime, Leased, Busy
<1>5. ExclusiveHold'
  BY <1>2, Zenon DEF LeaseInv, Drop, ExclusiveHold, Holds, Busy
<1> QED
  BY <1>1, <1>3, <1>4, <1>5, Zenon DEF LeaseInv

LEMMA AnewLease ==
    ASSUME LeaseInv, openTx \subseteq Ids, NEW id \in Ids, Anew(id)
    PROVE  LeaseInv'
<1>1. NewRow.status = "pending"
  BY Zenon DEF NewRow
<1>2. OpenTxAbsent' /\ PublishedBare'
  BY <1>1, Zenon DEF LeaseInv, Anew, OpenTxAbsent, PublishedBare
<1>3. LockedOnce' /\ ExclusiveHold'
  BY Zenon DEF LeaseInv, Anew, LockedOnce, ExclusiveHold, Holds
<1>4. LockedClaimable'
  <2> SUFFICES ASSUME NEW r \in Relays, NEW i \in Ids, pc[r] = "locked", i \in batch[r]
               PROVE  table'[i] # None /\ Claimable(table'[i])
    BY Zenon DEF Anew, LockedClaimable
  <2>1. i # id
    BY Zenon DEF LeaseInv, LockedClaimable, Anew, Locked
  <2> QED
    BY <2>1, Zenon DEF LeaseInv, LockedClaimable, Anew
<1>5. HeldLeased'
  BY <1>1 DEF LeaseInv, Anew, HeldLeased, Holds, InTime, Leased
<1> QED
  BY <1>2, <1>3, <1>4, <1>5, Zenon DEF LeaseInv

LEMMA CleanedLease ==
    ASSUME LeaseInv, openTx \subseteq Ids, Cleaned
    PROVE  LeaseInv'
<1>1. OpenTxAbsent' /\ PublishedBare'
  BY Zenon DEF LeaseInv, Cleaned, OpenTxAbsent, PublishedBare
<1>2. LockedOnce' /\ ExclusiveHold'
  BY Zenon DEF LeaseInv, Cleaned, LockedOnce, ExclusiveHold, Holds
<1>3. LockedClaimable'
  BY Zenon DEF LeaseInv, Cleaned, LockedClaimable, Claimable
<1>4. HeldLeased'
  BY DEF LeaseInv, Cleaned, HeldLeased, Holds, InTime, Leased
<1> QED
  BY <1>1, <1>2, <1>3, <1>4, Zenon DEF LeaseInv

LEMMA ClaimedLease ==
    ASSUME LeaseInv, NEW r \in Relays, Claimed(r)
    PROVE  LeaseInv'
<1>1. OpenTxAbsent' /\ PublishedBare'
  BY Zenon DEF LeaseInv, Claimed, OpenTxAbsent, PublishedBare
<1>2. \A q \in Relays : q # r => pc'[q] = pc[q] /\ batch'[q] = batch[q] /\ age'[q] = age[q]
  BY Zenon DEF Claimed, Others
<1>3. LockedClaimable'
  BY <1>2, Zenon DEF LeaseInv, Claimed, LockedClaimable
<1>4. LockedOnce'
  BY <1>2 DEF LeaseInv, Claimed, LockedOnce, Locked
<1>5. HeldLeased' /\ ExclusiveHold'
  <2>1. pc'[r] \notin Working
    BY Zenon DEF Claimed, Working
  <2> QED
    BY <1>2, <2>1 DEF LeaseInv, Claimed, HeldLeased, ExclusiveHold, Holds, InTime, Leased
<1> QED
  BY <1>1, <1>3, <1>4, <1>5, Zenon DEF LeaseInv

\* A claim that is committed in time leases rows that no other relay holds.
LEMMA LeasesLease ==
    ASSUME IInv, LeaseInv, NEW r \in Relays, Leases(r)
    PROVE  LeaseInv'
<1>1. \A q \in Relays : batch'[q] = batch[q] /\ age'[q] = age[q] /\ (q # r => pc'[q] = pc[q])
  BY Zenon DEF Leases, Others
<1>2. pc[r] = "locked" /\ pc'[r] = "publish"
  BY Zenon DEF Leases
<1>3. \A id \in Ids : id \in batch[r] => table[id] # None /\ Claimable(table[id])
  BY <1>2, Zenon DEF LeaseInv, LockedClaimable
<1>4. \A id \in Ids : id \notin batch[r] => table'[id] = table[id] /\ cause'[id] = cause[id]
  BY Zenon DEF Leases
<1>5. \A id \in Ids : id \in batch[r] =>
        /\ table'[id] # None
        /\ table'[id].status = "publishing" /\ table'[id].lease = Left(Lease, age[r])
        /\ age[r] >= Lease => "late" \in cause'[id]
        /\ cause[id] \subseteq cause'[id]
  BY Zenon DEF Leases
<1>6. \A q \in Relays, id \in Ids : Holds(q, id) /\ InTime(id) => id \notin batch[r]
  BY <1>3, LeasedNotClaimable, Zenon DEF LeaseInv, HeldLeased
<1>7. openTx \subseteq Ids
  BY Zenon DEF IInv, TypeOK
<1>8. OpenTxAbsent' /\ PublishedBare'
  <2>1. \A id \in openTx : id \notin batch[r]
    BY <1>3, <1>7, Zenon DEF LeaseInv, OpenTxAbsent
  <2> QED
    BY <1>4, <1>5, <1>7, <2>1 DEF LeaseInv, OpenTxAbsent, PublishedBare, Leases
<1>9. LockedClaimable' /\ LockedOnce'
  BY <1>1, <1>2, <1>4 DEF LeaseInv, LockedClaimable, LockedOnce
<1>10. HeldLeased'
  <2> SUFFICES ASSUME NEW q \in Relays, NEW id \in Ids, pc'[q] \in Working, id \in batch[q],
                      "late" \notin cause'[id]
               PROVE  /\ table'[id] # None /\ table'[id].status = "publishing"
                      /\ age[q] < Lease /\ table'[id].lease = Lease - age[q]
    BY <1>1 DEF HeldLeased, Holds, InTime, Leased
  <2>1. CASE q = r
    <3>1. age[r] \in Nat /\ Lease \in Nat
      BY AgeType, OutboxConstants, Zenon
    <3>2. age[r] < Lease
      BY <1>5, <2>1, <3>1
    <3>3. Left(Lease, age[r]) = Lease - age[r]
      BY <3>1, <3>2, Zenon DEF Left
    <3> QED
      BY <1>5, <2>1, <3>2, <3>3, Zenon
  <2>2. CASE q # r
    <3>1. Holds(q, id) /\ InTime(id)
      BY <1>1, <1>4, <1>5, <2>2, Zenon DEF Holds, InTime
    <3>2. id \notin batch[r] /\ Leased(q, id)
      BY <1>6, <3>1, Zenon DEF LeaseInv, HeldLeased
    <3> QED
      BY <1>4, <3>2, Zenon DEF Leased
  <2> QED
    BY <2>1, <2>2, Zenon
<1>11. ExclusiveHold'
  <2> SUFFICES ASSUME NEW id \in Ids, NEW r1 \in Relays, NEW r2 \in Relays, r1 # r2,
                      pc'[r1] \in Working, id \in batch[r1], pc'[r2] \in Working, id \in batch[r2]
               PROVE  "late" \in cause'[id]
    BY <1>1, Zenon DEF ExclusiveHold, Holds
  <2>1. cause[id] \subseteq cause'[id]
    BY <1>4, <1>5, Zenon
  <2>2. CASE r1 # r /\ r2 # r
    BY <1>1, <2>1, <2>2, Zenon DEF LeaseInv, ExclusiveHold, Holds
  <2>3. CASE r1 = r \/ r2 = r
    <3>1. PICK q \in Relays : Holds(q, id) /\ id \in batch[r]
      BY <1>1, <2>3, Zenon DEF Holds
    <3> QED
      BY <1>6, <2>1, <3>1, Zenon DEF InTime
  <2> QED
    BY <2>2, <2>3, Zenon
<1> QED
  BY <1>8, <1>9, <1>10, <1>11, Zenon DEF LeaseInv

\* A relay in time settles a row that it holds alone.
LEMMA SettledLease ==
    ASSUME IInv, LeaseInv, NEW r \in Relays, NEW id \in Ids, Settled(r, id)
    PROVE  LeaseInv'
<1>1. \A q \in Relays : q # r => pc'[q] = pc[q] /\ batch'[q] = batch[q] /\ age'[q] = age[q]
  BY Zenon DEF Settled, Others
<1>2. /\ Holds(r, id) /\ batch'[r] = batch[r] \ {id} /\ ~Locked(id)
      /\ pc'[r] \notin Busy \/ (pc'[r] = "publish" /\ age'[r] = age[r])
      /\ \A i \in Ids : i # id => table'[i] = table[i]
      /\ cause' = cause /\ openTx' = openTx
  BY Zenon DEF Settled, Holds
<1>3. /\ table[id] = None => table'[id] = None
      /\ table[id] # None /\ table[id].status # "publishing" => table'[id] = table[id]
      /\ table'[id] # None /\ table'[id].status = "published" /\ table'[id] # table[id]
           => table'[id].next = None /\ table'[id].lease = None
  BY Zenon DEF Settled
<1>4. openTx \subseteq Ids
  BY Zenon DEF IInv, TypeOK
<1>5. OpenTxAbsent' /\ PublishedBare'
  BY <1>2, <1>3, <1>4, ZenonT(30) DEF LeaseInv, OpenTxAbsent, PublishedBare
<1>6. \A q \in Relays : pc'[q] = "locked" => q # r /\ pc[q] = "locked" /\ id \notin batch[q]
  BY <1>1, <1>2, Zenon DEF Locked, Busy
<1>7. LockedClaimable' /\ LockedOnce'
  BY <1>1, <1>2, <1>6, Zenon DEF LeaseInv, LockedClaimable, LockedOnce
<1>8. \A q \in Relays, i \in Ids :
        pc'[q] \in Working /\ i \in batch'[q] =>
          /\ Holds(q, i) /\ age'[q] = age[q]
          /\ InTime(i) => i # id
  <2> SUFFICES ASSUME NEW q \in Relays, NEW i \in Ids, pc'[q] \in Working, i \in batch'[q]
               PROVE  Holds(q, i) /\ age'[q] = age[q] /\ (InTime(i) => i # id)
    BY Zenon
  <2>1. CASE q = r
    BY <1>2, <2>1, Zenon DEF Holds, Busy
  <2>2. CASE q # r
    <3>1. Holds(q, i) /\ age'[q] = age[q]
      BY <1>1, <2>2, Zenon DEF Holds
    <3> QED
      BY <1>2, <2>2, <3>1, Zenon DEF LeaseInv, ExclusiveHold, InTime
  <2> QED
    BY <2>1, <2>2, Zenon
<1>9. HeldLeased'
  BY <1>2, <1>8 DEF LeaseInv, HeldLeased, Holds, InTime, Leased
<1>10. ExclusiveHold'
  BY <1>2, <1>8, Zenon DEF LeaseInv, ExclusiveHold, Holds
<1> QED
  BY <1>5, <1>7, <1>9, <1>10, Zenon DEF LeaseInv

\* The lease of a row and the age of the batch that holds it run together, and
\* a relay that reaches the end of its lease is late.
LEMMA AgedLease ==
    ASSUME IInv, LeaseInv, Aged
    PROVE  LeaseInv'
<1>1. None \notin Nat /\ Lease \in Nat /\ OneLess(None) = None
  BY OutboxConstants, Zenon DEF OneLess
<1>2. \A time : Due(time) => Due(OneLess(time))
  BY <1>1 DEF Due, OneLess, Left
<1>3. openTx \subseteq Ids
  BY Zenon DEF IInv, TypeOK
<1>4. \A id \in Ids :
        /\ table'[id] = None <=> table[id] = None
        /\ table[id] # None => /\ table'[id].status = table[id].status
                               /\ table'[id].next = OneLess(table[id].next)
                               /\ table'[id].lease = OneLess(table[id].lease)
  BY Zenon DEF Aged
<1>5. UNCHANGED <<pc, batch, openTx>>
  BY Zenon DEF Aged
<1>6. OpenTxAbsent' /\ PublishedBare'
  BY <1>1, <1>3, <1>4, <1>5, Zenon DEF LeaseInv, OpenTxAbsent, PublishedBare
<1>7. LockedClaimable' /\ LockedOnce'
  BY <1>2, <1>4, <1>5 DEF LeaseInv, LockedClaimable, LockedOnce, Claimable
<1>8. \A id \in Ids : /\ cause[id] \subseteq cause'[id]
                      /\ \A r \in Relays : Holds(r, id) /\ age'[r] >= Lease => "late" \in cause'[id]
  BY Zenon DEF Aged
<1>9. ExclusiveHold'
  BY <1>5, <1>8, Zenon DEF LeaseInv, ExclusiveHold, Holds
<1>10. HeldLeased'
  <2> SUFFICES ASSUME NEW r \in Relays, NEW id \in Ids, Holds(r, id), "late" \notin cause'[id]
               PROVE  /\ table'[id] # None /\ table'[id].status = "publishing"
                      /\ age'[r] < Lease /\ table'[id].lease = Lease - age'[r]
    BY <1>5, Zenon DEF HeldLeased, Holds, InTime, Leased
  <2>1. Leased(r, id)
    BY <1>8, Zenon DEF LeaseInv, HeldLeased, InTime
  <2>2. age[r] \in Nat /\ age[r] < Lease /\ AgeCap \in Nat /\ Lease <= AgeCap
    BY <2>1, AgeType, AgeCapType, OutboxConstants DEF Leased, AgeCap
  <2>3. age'[r] = age[r] + 1
    <3>1. pc[r] \in Busy
      BY Zenon DEF Holds, Busy
    <3> QED
      BY <1>1, <2>2, <3>1 DEF Aged
  <2>4. age'[r] < Lease
    BY <1>1, <1>8, <2>2, <2>3
  <2>5. table'[id].lease = Lease - age'[r]
    <3>1. table'[id].lease = OneLess(Lease - age[r])
      BY <1>4, <2>1, Zenon DEF Leased
    <3>2. Lease - age[r] \in Nat /\ Lease - age[r] > 1
      BY <1>1, <2>2, <2>3, <2>4
    <3>3. OneLess(Lease - age[r]) = (Lease - age[r]) - 1
      BY <1>1, <3>2, Zenon DEF OneLess, Left
    <3> QED
      BY <1>1, <2>2, <2>3, <3>1, <3>3
  <2> QED
    BY <1>4, <2>1, <2>4, <2>5, Zenon DEF Leased
<1> QED
  BY <1>6, <1>7, <1>9, <1>10, Zenon DEF LeaseInv

-----------------------------------------------------------------------------
(* Every action is a step of one of these kinds. *)

LEMMA TickKind ==
    ASSUME IInv, TickSql
    PROVE  Aged
<1> DEFINE older(r) == IF pc[r] \in Working \cup {"locked"} /\ age[r] < AgeCap
                       THEN age[r] + 1 ELSE age[r]
<1>1. /\ UNCHANGED <<pc, batch, seen, crashes, delivered, openTx>>
      /\ table' = [id \in Ids |->
                     IF table[id] = None THEN None
                     ELSE [table[id] EXCEPT !.next = OneLess(@), !.lease = OneLess(@)]]
      /\ age' = [r \in Relays |-> older(r)]
      /\ cause' = [id \in Ids |-> IF \E r \in Relays : Holds(r, id) /\ older(r) >= Lease
                                  THEN cause[id] \cup {"late"} ELSE cause[id]]
  BY Zenon DEF TickSql, RelayTick
<1>2. ASSUME NEW id \in Ids
      PROVE  IF table[id] = None THEN table'[id] = None
             ELSE /\ table'[id] # None
                  /\ table'[id].status = table[id].status
                  /\ table'[id].attempts = table[id].attempts
                  /\ table'[id].next = OneLess(table[id].next)
                  /\ table'[id].lease = OneLess(table[id].lease)
                  /\ table'[id].status = "published" /\ table[id].next = None /\ table[id].lease = None
                       => table'[id] = table[id]
  <2>1. CASE table[id] = None
    BY <1>1, <2>1, Zenon
  <2>2. CASE table[id] # None
    <3> DEFINE row == table[id]
               next == OneLess(row.next)
               lease == OneLess(row.lease)
    <3>1. row \in [status: Statuses, attempts: 0..AttemptCap, next: Times, lease: Times]
      BY <2>2, Zenon DEF IInv, TypeOK, TypeOKRelay, Rows
    <3>2. table'[id] = [row EXCEPT !.next = next, !.lease = lease]
      BY <1>1, <2>2, Zenon
    <3>3. next \in Times /\ lease \in Times /\ OneLess(None) = None
      BY <3>1, OneLessType, Zenon DEF OneLess
    <3>4. row.next = None => next = None
      BY <3>3, Zenon
    <3>5. row.lease = None => lease = None
      BY <3>3, Zenon
    <3> HIDE DEF row, next, lease
    <3>6. /\ table'[id] \in Rows
          /\ table'[id].status = row.status /\ table'[id].attempts = row.attempts
          /\ table'[id].next = next /\ table'[id].lease = lease
      BY <3>1, <3>2, <3>3, Zenon DEF Rows
    <3>7. row.next = None /\ row.lease = None => table'[id] = row
      BY <3>1, <3>2, <3>4, <3>5, Zenon
    <3> QED
      BY <2>2, <3>6, <3>7, NoneIsNoRow, Zenon DEF row, next, lease
  <2> QED
    BY <2>1, <2>2, ZenonT(30), Zenon
<1>3. \A r \in Relays : age'[r] = IF pc[r] \in Busy /\ age[r] < AgeCap THEN age[r] + 1 ELSE age[r]
  BY <1>1, Zenon DEF Busy
<1>4. \A id \in Ids :
        /\ cause[id] \subseteq cause'[id]
        /\ \A r \in Relays : Holds(r, id) /\ age'[r] >= Lease => "late" \in cause'[id]
  BY <1>1, Zenon
<1> QED
  BY <1>1, <1>2, <1>3, <1>4, Zenon DEF Aged

LEMMA Domains ==
    ASSUME IInv
    PROVE  DOMAIN pc = Relays /\ DOMAIN batch = Relays /\ DOMAIN age = Relays /\ DOMAIN seen = Relays
BY Zenon DEF IInv, TypeOK, TypeOKRelay

LEMMA LoopKind ==
    ASSUME IInv, NEW r \in Relays,
           \/ (RequestShutdown(r) \/ Restart(r)) /\ UNCHANGED <<openTx, seen>>
           \/ (WakeUp(r) \/ Yield(r)) /\ UNCHANGED <<openTx, seen>>
    PROVE  Quiet
<1>1. UNCHANGED <<table, cause, delivered, crashes, batch, age, openTx, seen>>
  BY Zenon DEF RequestShutdown, Restart, WakeUp, Yield, storeVars, ghostVars
<1>2. \/ pc' = pc
      \/ pc[r] \notin Busy /\ \E place \in {"poll", "stopped"} : pc' = [pc EXCEPT ![r] = place]
  BY Zenon DEF RequestShutdown, Restart, WakeUp, Yield, Busy, Working
<1>3. \A q \in Relays : pc'[q] = pc[q] \/ (pc[q] \notin Busy /\ pc'[q] \notin Busy)
  BY <1>2, Zenon DEF Busy, Working, IInv, TypeOK, TypeOKRelay
<1> QED
  BY <1>1, <1>3, Zenon DEF Quiet

LEMMA CrashKind ==
    ASSUME IInv, NEW r \in Relays, CrashSql(r)
    PROVE  Drop(r)
<1>1. /\ UNCHANGED <<table, delivered, openTx>>
      /\ pc' = [pc EXCEPT ![r] = "down"] /\ batch' = [batch EXCEPT ![r] = {}]
      /\ age' = [age EXCEPT ![r] = 0] /\ seen' = [seen EXCEPT ![r] = 0]
      /\ crashes' = crashes + 1
      /\ cause' = IF pc[r] = "ack" THEN [cause EXCEPT ![CurrentId(r)] = @ \cup {"again"}] ELSE cause
  BY Zenon DEF CrashSql, Crash, storeVars
<1>2. Others(r) /\ pc'[r] = "down"
  BY <1>1, Domains, Zenon DEF Others
<1>3. crashes' > 0
  BY <1>1 DEF IInv, TypeOK, TypeOKRelay
<1>4. pc[r] = "ack" => CurrentId(r) \in Ids
  BY CurrentKnown, Zenon DEF Busy, Working
<1>5. /\ \A id \in Ids : cause[id] \subseteq cause'[id]
      /\ pc[r] = "ack" => cause'[CurrentId(r)] # {}
  <2>1. cause \in [Ids -> SUBSET {"late", "again"}]
    BY Zenon DEF IInv, TypeOK, TypeOKRelay
  <2> QED
    BY <1>1, <1>4, <2>1, Zenon
<1> QED
  BY <1>1, <1>2, <1>3, <1>5, Zenon DEF Drop, Busy, Working

LEMMA SelectKind ==
    ASSUME IInv, NEW r \in Relays, SelectForUpdate(r)
    PROVE  Quiet \/ Claimed(r)
<1> DEFINE rows == FirstOf({id \in Present : Claimable(table[id]) /\ ~Locked(id)}, Limit)
<1>1. \A id \in rows : table[id] # None /\ Claimable(table[id]) /\ ~Locked(id)
  BY Zenon DEF FirstOf, Present
<1>2. /\ pc[r] = "poll" /\ age' = [age EXCEPT ![r] = 0]
      /\ UNCHANGED <<table, delivered, cause, crashes, openTx, seen>>
      /\ \/ pc' = [pc EXCEPT ![r] = "idle"] /\ batch' = batch
         \/ pc' = [pc EXCEPT ![r] = "locked"] /\ batch' = [batch EXCEPT ![r] = rows]
  BY Zenon DEF SelectForUpdate, BeginIdle, storeVars, ghostVars
<1> HIDE DEF rows
<1>3. pc[r] \notin Busy /\ "idle" \notin Busy
  BY <1>2, Zenon DEF Busy, Working
<1>4. CASE pc' = [pc EXCEPT ![r] = "idle"] /\ batch' = batch
  <2>1. Others(r) /\ pc'[r] = "idle"
    BY <1>2, <1>4, Domains, Zenon DEF Others
  <2> QED
    BY <1>2, <1>3, <2>1, Zenon DEF Quiet, Others
<1>5. CASE pc' = [pc EXCEPT ![r] = "locked"] /\ batch' = [batch EXCEPT ![r] = rows]
  <2>1. Others(r) /\ pc'[r] = "locked" /\ batch'[r] = rows
    BY <1>2, <1>5, Domains, Zenon DEF Others
  <2> QED
    BY <1>1, <1>2, <1>3, <2>1, Zenon DEF Claimed
<1> QED
  BY <1>2, <1>4, <1>5, Zenon

LEMMA CommitKind ==
    ASSUME IInv, NEW r \in Relays, CommitClaim(r)
    PROVE  Leases(r)
<1>1. /\ UNCHANGED <<delivered, batch, age, crashes, openTx, seen>>
      /\ pc[r] = "locked" /\ pc' = [pc EXCEPT ![r] = "publish"]
      /\ table' = [id \in Ids |->
                     IF id \in batch[r] THEN MarkPublishing(table[id], Left(Lease, age[r]))
                     ELSE table[id]]
      /\ cause' = [id \in Ids |->
                     IF id \in batch[r] /\ age[r] >= Lease THEN cause[id] \cup {"late"}
                     ELSE cause[id]]
  BY Zenon DEF CommitClaim
<1>3. Others(r) /\ pc'[r] = "publish" /\ batch'[r] = batch[r] /\ age'[r] = age[r]
  BY <1>1, Domains, Zenon DEF Others
<1>4. ASSUME NEW id \in Ids, id \in batch[r]
      PROVE  /\ table'[id] # None
             /\ table'[id].status = "publishing" /\ table'[id].attempts = table[id].attempts
             /\ table'[id].lease = Left(Lease, age[r])
  <2> DEFINE time == Left(Lease, age[r])
             row  == table[id]
  <2>1. row \in Rows
    BY <1>1, <1>4, Zenon DEF IInv, LockedOK, TypeOK, TypeOKRelay
  <2>2. time \in Times
    BY AgeType, LeftType, OutboxConstants, Zenon DEF Times
  <2>3. table'[id] = MarkPublishing(row, time)
    BY <1>1, <1>4, Zenon
  <2> HIDE DEF row, time
  <2>4. table'[id] \in Rows
    BY <2>1, <2>2, <2>3, RowTypes, Zenon
  <2>5. /\ table'[id].status = "publishing" /\ table'[id].attempts = row.attempts
        /\ table'[id].lease = time
    BY <2>1, <2>3, Zenon DEF MarkPublishing, Rows
  <2> QED
    BY <2>4, <2>5, NoneIsNoRow, Zenon DEF row, time
<1>5. ASSUME NEW id \in Ids
      PROVE  /\ id \in batch[r] =>
                  cause'[id] = IF age[r] >= Lease THEN cause[id] \cup {"late"} ELSE cause[id]
             /\ id \notin batch[r] => table'[id] = table[id] /\ cause'[id] = cause[id]
  BY <1>1, Zenon
<1> QED
  BY <1>1, <1>3, <1>4, <1>5, Zenon DEF Leases

LEMMA SettleKind ==
    ASSUME IInv, NEW r \in Relays, SettlePublished(r) \/ SettleFailed(r)
    PROVE  CurrentId(r) \in Ids /\ Settled(r, CurrentId(r))
<1> DEFINE id == CurrentId(r)
           next == NextAttempt(claimed[r][id], age[r])
           row == IF pc[r] = "ack" THEN MarkPublished(table[id])
                  ELSE FailedRow(table[id], seen[r], next)
<1>1. /\ UNCHANGED <<delivered, cause, crashes, openTx>>
      /\ pc[r] \in {"ack", "fail"} /\ ~Locked(id) /\ SettleCurrent(r) /\ UpdatePublishing(id, row)
  BY Zenon DEF SettlePublished, SettleFailed, ghostVars
<1>2. pc[r] \in Working /\ id \in batch[r] /\ id \in Ids
  BY <1>1, CurrentKnown, Zenon DEF Busy, Working
<1>3. Others(r)
  <2>1. seen' = seen \/ seen' = [seen EXCEPT ![r] = 0]
    BY Zenon DEF SettlePublished, SettleFailed
  <2>2. /\ batch' = [batch EXCEPT ![r] = @ \ {id}]
        /\ pc' = [pc EXCEPT ![r] = IF batch[r] = {id} THEN "yield" ELSE "publish"]
        /\ age' = [age EXCEPT ![r] = IF batch[r] = {id} THEN 0 ELSE @]
    BY <1>1, Zenon DEF SettleCurrent
  <2> QED
    BY <2>1, <2>2, Domains, Zenon DEF Others
<1>4. /\ batch'[r] = batch[r] \ {id}
      /\ \/ pc'[r] \notin Busy /\ batch'[r] = {}
         \/ pc'[r] = "publish" /\ age'[r] = age[r]
  <2>1. pc \in [Relays -> RelayPlaces] /\ batch \in [Relays -> SUBSET Ids] /\ age \in [Relays -> 0..AgeCap]
    BY Zenon DEF IInv, TypeOK, TypeOKRelay
  <2> QED
    BY <1>1, <2>1, Zenon DEF SettleCurrent, Busy, Working
<1>5. /\ table \in [Ids -> Rows \cup {None}]
      /\ table' = IF table[id] # None /\ table[id].status = "publishing"
                  THEN [table EXCEPT ![id] = row] ELSE table
  BY <1>1, Zenon DEF UpdatePublishing, IInv, TypeOK, TypeOKRelay
<1>6. table[id] # None =>
        /\ row # None
        /\ \/ /\ pc[r] = "ack" /\ row.status = "published"
              /\ row.attempts = table[id].attempts
              /\ row.next = None /\ row.lease = None
           \/ /\ pc[r] = "fail" /\ row.status = "failed"
              /\ row.attempts = seen[r]
  <2> SUFFICES ASSUME table[id] # None
               PROVE  /\ row # None
                      /\ \/ /\ pc[r] = "ack" /\ row.status = "published"
                            /\ row.attempts = table[id].attempts
                            /\ row.next = None /\ row.lease = None
                         \/ /\ pc[r] = "fail" /\ row.status = "failed"
                            /\ row.attempts = seen[r]
    BY Zenon
  <2>1. table[id] \in Rows /\ seen[r] \in 0..AttemptCap /\ None \in Times
    BY <1>2, <1>5, Zenon DEF IInv, TypeOK, Times
  <2>2. next \in Times
    <3>1. claimed[r][id] \in 0..AttemptCap
      BY <1>2, Zenon DEF IInv, TypeOK, TypeOKRelay
    <3> QED
      BY <3>1, AgeType, NextAttemptType, Zenon DEF Times
  <2> HIDE DEF next
  <2>3. row # None
    BY <2>1, <2>2, RowTypes, FailedRowType, NoneIsNoRow, Zenon
  <2>4. CASE pc[r] = "ack"
    BY <2>1, <2>3, <2>4, Zenon DEF MarkPublished, Rows
  <2>5. CASE pc[r] = "fail"
    BY <2>1, <2>3, <2>5, Zenon DEF FailedRow, MarkFailed, Rows
  <2> QED
    BY <1>1, <2>4, <2>5, Zenon
<1> HIDE DEF row
<1>7. /\ \A i \in Ids : i # id => table'[i] = table[i]
      /\ table[id] # None /\ table[id].status = "publishing" => table'[id] = row
      /\ ~(table[id] # None /\ table[id].status = "publishing") => table'[id] = table[id]
  BY <1>2, <1>5, Zenon
<1> HIDE DEF id
<1>8. Settled(r, id)
  BY <1>1, <1>2, <1>3, <1>4, <1>6, <1>7, Zenon DEF Settled, id
<1> QED
  BY <1>2, <1>8, Zenon DEF id

LEMMA PublishKind ==
    ASSUME IInv, NEW r \in Relays,
           \/ (PublishOk(r) \/ PublishErr(r)) /\ UNCHANGED <<openTx, seen>>
           \/ ReadAttempts(r)
    PROVE  CurrentId(r) \in Ids /\ Advance(r)
<1>1. /\ UNCHANGED <<table, crashes, openTx, batch, age>>
      /\ \/ pc[r] = "publish" /\ pc' = [pc EXCEPT ![r] = "ack"] /\ seen' = seen
         \/ pc[r] = "publish" /\ pc' = [pc EXCEPT ![r] = "nack"] /\ seen' = seen
         \/ /\ pc[r] = "nack" /\ pc' = [pc EXCEPT ![r] = "fail"]
            /\ \E count : seen' = [seen EXCEPT ![r] = count]
  BY Zenon DEF PublishOk, PublishErr, ReadAttempts, storeVars, ghostVars
<1>2. /\ Others(r) /\ batch'[r] = batch[r] /\ age'[r] = age[r]
      /\ \/ pc[r] = "publish" /\ pc'[r] \in {"ack", "nack"}
         \/ pc[r] = "nack" /\ pc'[r] = "fail"
  BY <1>1, Domains, Zenon DEF Others
<1>3. pc[r] \in Working /\ pc'[r] \in Working
  BY <1>2, Zenon DEF Working
<1>4. CurrentId(r) \in Ids
  BY <1>3, CurrentKnown, Zenon DEF Busy
<1>5. delivered \in [Ids -> 0..2] /\ cause \in [Ids -> SUBSET {"late", "again"}]
  BY Zenon DEF IInv, TypeOK, TypeOKRelay
<1>6. CASE PublishOk(r)
  <2>1. delivered' = MoreDelivered(CurrentId(r)) /\ cause' = cause
    BY <1>6, Zenon DEF PublishOk
  <2>2. pc[r] = "publish" /\ pc'[r] = "ack"
    BY <1>6, Domains, Zenon DEF PublishOk
  <2>3. /\ \A id \in Ids : id # CurrentId(r) => delivered'[id] = delivered[id]
        /\ delivered[CurrentId(r)] = 0 => delivered'[CurrentId(r)] = 1
    BY <1>4, <1>5, <2>1, SMTT(30), Zenon DEF MoreDelivered
  <2> QED
    BY <1>1, <1>2, <1>3, <1>4, <2>1, <2>2, <2>3, Zenon DEF Advance
<1>7. CASE PublishErr(r)
  <2>1. \/ delivered' = delivered /\ cause' = cause
        \/ /\ delivered' = MoreDelivered(CurrentId(r))
           /\ cause' = [cause EXCEPT ![CurrentId(r)] = @ \cup {"again"}]
    BY <1>7, Zenon DEF PublishErr, ghostVars
  <2>2. pc[r] = "publish" /\ pc'[r] = "nack"
    BY <1>7, Domains, Zenon DEF PublishErr
  <2>3. \A id \in Ids : id # CurrentId(r) => delivered'[id] = delivered[id]
    BY <1>4, <1>5, <2>1, Zenon DEF MoreDelivered
  <2>4. /\ \A id \in Ids : cause[id] \subseteq cause'[id]
        /\ delivered' = delivered \/ cause'[CurrentId(r)] # {}
    BY <1>4, <1>5, <2>1, Zenon
  <2> QED
    BY <1>1, <1>2, <1>3, <1>4, <2>2, <2>3, <2>4, Zenon DEF Advance
<1>8. CASE ReadAttempts(r)
  <2>1. pc[r] = "nack" /\ pc'[r] = "fail" /\ UNCHANGED <<delivered, cause>>
    BY <1>8, Domains, Zenon DEF ReadAttempts, ghostVars
  <2>2. table[CurrentId(r)] # None => table[CurrentId(r)].attempts <= seen'[r]
    <3>1. table[CurrentId(r)] # None => seen'[r] = Saturated(table[CurrentId(r)].attempts + 1)
      BY <1>8, Domains, Zenon DEF ReadAttempts
    <3>2. table[CurrentId(r)] # None => table[CurrentId(r)].attempts \in 0..AttemptCap
      BY <1>4, Zenon DEF IInv, TypeOK, TypeOKRelay, Rows
    <3> QED
      BY <3>1, <3>2, OutboxConstants DEF Saturated
  <2> QED
    BY <1>1, <1>2, <1>3, <1>4, <2>1, <2>2, Zenon DEF Advance
<1> QED
  BY <1>6, <1>7, <1>8, Zenon

\* The clients of the store.
LEMMA ClientKind ==
    ASSUME IInv, LeaseInv, NEW id \in Ids, Client(id)
    PROVE  Quiet \/ Anew(id)
<1>1. /\ table \in [Ids -> Rows \cup {None}] /\ cause \in [Ids -> SUBSET {"late", "again"}]
      /\ delivered \in [Ids -> 0..2]
  BY Zenon DEF IInv, TypeOK, TypeOKRelay
<1>2. /\ \A i \in Ids : cause[i] \subseteq Requeued(id)[i]
      /\ delivered[id] > 0 => Requeued(id)[id] # {}
  BY <1>1, Zenon DEF Requeued
<1>3. Insert(id) => table'[id] = NewRow /\ \A i \in Ids : i # id => table'[i] = table[i]
  BY <1>1, Zenon DEF Insert
<1>4. UNCHANGED <<pc, batch, age, seen, crashes, delivered>>
  BY Zenon DEF Client, Enqueue, EnqueueInTransaction, CommitTransaction, RollbackTransaction,
         ReplayDeadLetter, relayVars, loopVars, ghostVars
<1>5. CASE Enqueue(id)
  <2>1. CASE table[id] = None
    BY <1>2, <1>3, <1>4, <1>5, <2>1, Zenon DEF Enqueue, Anew
  <2>2. CASE table[id] # None
    BY <1>4, <1>5, <2>2, Zenon DEF Enqueue, Quiet
  <2> QED
    BY <2>1, <2>2, Zenon
<1>6. CASE EnqueueInTransaction(id)
  BY <1>4, <1>6, Zenon DEF EnqueueInTransaction, Quiet, ghostVars
<1>7. CASE CommitTransaction(id)
  <2>1. table[id] = None
    BY <1>7, Zenon DEF CommitTransaction, LeaseInv, OpenTxAbsent
  <2> QED
    BY <1>2, <1>3, <1>4, <1>7, <2>1, Zenon DEF CommitTransaction, Anew
<1>8. CASE RollbackTransaction(id)
  BY <1>4, <1>8, Zenon DEF RollbackTransaction, Quiet, relayVars, storeVars, ghostVars
<1>9. CASE ReplayDeadLetter(id)
  <2>1. id \notin openTx
    BY <1>9, Zenon DEF ReplayDeadLetter, LeaseInv, OpenTxAbsent
  <2> QED
    BY <1>3, <1>4, <1>9, <2>1, Zenon DEF ReplayDeadLetter, Anew, ghostVars
<1> QED
  BY <1>5, <1>6, <1>7, <1>8, <1>9, Zenon DEF Client

LEMMA CleanupKind ==
    ASSUME NEW limit, CleanupPublished(limit)
    PROVE  Cleaned
<1> DEFINE rows == FirstOf({id \in Present : table[id].status = "published"}, limit)
<1>1. \A id \in rows : table[id] # None /\ table[id].status = "published"
  BY Zenon DEF FirstOf, Present
<1>2. /\ table' = [id \in Ids |-> IF id \in rows THEN None ELSE table[id]]
      /\ UNCHANGED <<pc, batch, age, seen, crashes, delivered, cause, openTx>>
  BY Zenon DEF CleanupPublished, loopVars, ghostVars
<1> HIDE DEF rows
<1> QED
  BY <1>1, <1>2, Zenon DEF Cleaned

\* Every step of the system is of one of the kinds.
LEMMA StepKinds ==
    ASSUME IInv, LeaseInv, [Next]_vars
    PROVE  \/ Quiet \/ Aged \/ Cleaned
           \/ \E r \in Relays : Drop(r) \/ Claimed(r) \/ Leases(r)
           \/ \E r \in Relays : CurrentId(r) \in Ids /\ (Advance(r) \/ Settled(r, CurrentId(r)))
           \/ \E id \in Ids : Anew(id)
<1>1. CASE TickSql
  BY <1>1, TickKind, Zenon
<1>2. ASSUME NEW r \in Relays, StoreStep(r)
      PROVE  \/ Quiet \/ Claimed(r) \/ Leases(r)
             \/ CurrentId(r) \in Ids /\ (Advance(r) \/ Settled(r, CurrentId(r)))
  BY <1>2, SelectKind, CommitKind, SettleKind, PublishKind, Zenon DEF StoreStep
<1>3. ASSUME NEW r \in Relays, RelayStepSql(r)
      PROVE  Quiet \/ (CurrentId(r) \in Ids /\ Advance(r))
  BY <1>3, LoopKind, PublishKind, Zenon DEF RelayStepSql, RelayStep
<1>4. ASSUME NEW r \in Relays, CrashSql(r) PROVE Drop(r)
  BY <1>4, CrashKind, Zenon
<1>5. ASSUME NEW r \in Relays, (RequestShutdown(r) \/ Restart(r)) /\ UNCHANGED <<openTx, seen>>
      PROVE  Quiet
  BY <1>5, LoopKind, Zenon
<1>6. ASSUME NEW id \in Ids, Client(id) PROVE Quiet \/ Anew(id)
  BY <1>6, ClientKind, Zenon
<1>7. ASSUME NEW limit \in 1..Cardinality(Ids), CleanupPublished(limit) PROVE Cleaned
  BY <1>7, CleanupKind, Zenon
<1>8. CASE UNCHANGED vars
  BY <1>8, Zenon DEF vars, relayVars, storeVars, loopVars, ghostVars, Quiet
<1> QED
  BY <1>1, <1>2, <1>3, <1>4, <1>5, <1>6, <1>7, <1>8, Zenon DEF Next

LEMMA LeaseInvPreserved == IInv /\ LeaseInv /\ [Next]_vars => LeaseInv'
<1> SUFFICES ASSUME IInv, LeaseInv, [Next]_vars PROVE LeaseInv'
  BY Zenon
<1>1. openTx \subseteq Ids
  BY Zenon DEF IInv, TypeOK
<1> QED
  BY <1>1, StepKinds, QuietLease, AgedLease, CleanedLease, DropLease, ClaimedLease, LeasesLease,
     AdvanceLease, SettledLease, AnewLease, Zenon, Zenon

LEMMA LeaseInvariance == Spec => [](IInv /\ LeaseInv)
BY InitLeaseInv, LeaseInvPreserved, Invariance, PTL DEF Spec

-----------------------------------------------------------------------------
(* The theorems *)

\* Two relays work on the same message only after one of them kept it past its
\* lease: SKIP LOCKED, the status and the lease of the row keep them apart, for
\* any number of relays, crashes and restarts.
THEOREM ExclusivelyHeld == Spec => []ExclusiveHold
<1>1. LeaseInv => ExclusiveHold
  BY Zenon DEF LeaseInv
<1> QED
  BY <1>1, LeaseInvariance, PTL

\* A published row stays as it is until cleanup_published deletes it: a late
\* mark_failed, a duplicate enqueue or a claim never brings it back.
THEOREM PublishedStays == Spec => PublishedIsFinal
<1>1. ASSUME IInv, LeaseInv, [Next]_vars, NEW id \in Present, table[id].status = "published"
      PROVE  table'[id] \in {table[id], None}
  <2>1. id \in Ids /\ table[id] # None /\ table[id].next = None /\ table[id].lease = None
    BY <1>1, Zenon DEF Present, LeaseInv, PublishedBare
  <2>2. CASE Quiet \/ Cleaned \/ \E r \in Relays : Drop(r) \/ Claimed(r) \/ Advance(r)
    BY <2>1, <2>2, Zenon DEF Quiet, Cleaned, Drop, Claimed, Advance
  <2>3. CASE Aged
    BY <1>1, <2>1, <2>3, Zenon DEF Aged
  <2>4. ASSUME NEW r \in Relays, Leases(r) PROVE table'[id] = table[id]
    <3>1. id \notin batch[r]
      BY <1>1, <2>1, <2>4, Zenon DEF Leases, LeaseInv, LockedClaimable, Claimable
    <3> QED
      BY <2>1, <2>4, <3>1, Zenon DEF Leases
  <2>5. ASSUME NEW r \in Relays, Settled(r, CurrentId(r)) PROVE table'[id] = table[id]
    <3>1. /\ \A i \in Ids : i # CurrentId(r) => table'[i] = table[i]
          /\ ~(table[CurrentId(r)] # None /\ table[CurrentId(r)].status = "publishing")
               => table'[CurrentId(r)] = table[CurrentId(r)]
      BY <2>5, Zenon DEF Settled
    <3> QED
      BY <1>1, <2>1, <3>1, Zenon
  <2>6. ASSUME NEW i \in Ids, Anew(i) PROVE table'[id] = table[id]
    BY <1>1, <2>1, <2>6, Zenon DEF Anew
  <2> QED
    BY <1>1, <2>2, <2>3, <2>4, <2>5, <2>6, StepKinds, Zenon
<1>2. IInv /\ LeaseInv /\ [Next]_vars
        => \A id \in Present : table[id].status = "published" => table'[id] \in {table[id], None}
  BY <1>1, Zenon
<1> QED
  BY <1>2, LeaseInvariance, PTL DEF Spec, PublishedIsFinal

-----------------------------------------------------------------------------
(* The attempts of a row *)

\* The count that mark_failed has read is not below the row's, for a relay in time.
SeenFresh ==
    \A r \in Relays : pc[r] = "fail" /\ InTime(CurrentId(r))
                        => table[CurrentId(r)].attempts <= seen[r]

\* What a step in time does to the attempts of a row.
LEMMA AttemptsKept ==
    ASSUME IInv, LeaseInv, SeenFresh, [Next]_vars, NEW id \in Ids, table[id] # None, InTime(id)
    PROVE  \/ table'[id] = None
           \/ table'[id] = NewRow
           \/ table'[id].attempts = table[id].attempts
           \/ \E r \in Relays : /\ pc[r] = "fail" /\ id = CurrentId(r) /\ id \in batch[r]
                                /\ pc'[r] # "fail"
                                /\ table'[id].attempts = seen[r]
                                /\ table'[id].status = "failed"
<1>1. CASE Quiet \/ Cleaned \/ \E r \in Relays : Drop(r) \/ Claimed(r) \/ Advance(r)
  BY <1>1, Zenon DEF Quiet, Cleaned, Drop, Claimed, Advance
<1>2. CASE Aged
  BY <1>2, Zenon DEF Aged
<1>3. ASSUME NEW r \in Relays, Leases(r) PROVE table'[id].attempts = table[id].attempts
  BY <1>3, Zenon DEF Leases
<1>4. ASSUME NEW r \in Relays, Settled(r, CurrentId(r))
      PROVE  \/ table'[id].attempts = table[id].attempts
             \/ /\ pc[r] = "fail" /\ id = CurrentId(r) /\ id \in batch[r]
                /\ pc'[r] # "fail"
                /\ table'[id].attempts = seen[r]
                /\ table'[id].status = "failed"
  BY <1>4, Zenon DEF Settled, Busy, Working
<1>5. ASSUME NEW i \in Ids, Anew(i) PROVE table'[id] = NewRow \/ table'[id] = table[id]
  BY <1>5, Zenon DEF Anew
<1> QED
  BY <1>1, <1>2, <1>3, <1>4, <1>5, StepKinds, Zenon

\* No step takes a cause back.
LEMMA CausesGrow ==
    ASSUME IInv, LeaseInv, [Next]_vars, NEW id \in Ids
    PROVE  cause[id] \subseteq cause'[id]
<1>1. CASE Quiet \/ Aged \/ Cleaned
  BY <1>1, Zenon DEF Quiet, Aged, Cleaned
<1>2. CASE \E r \in Relays : Drop(r) \/ Claimed(r) \/ Advance(r) \/ Settled(r, CurrentId(r))
  BY <1>2, Zenon DEF Drop, Claimed, Advance, Settled
<1>3. CASE \E r \in Relays : Leases(r)
  BY <1>3, Zenon DEF Leases
<1>4. CASE \E i \in Ids : Anew(i)
  BY <1>4, Zenon DEF Anew
<1> QED
  BY <1>1, <1>2, <1>3, <1>4, StepKinds, Zenon

\* How a relay comes to be about to write a count.
LEMMA FailPlace ==
    ASSUME IInv, LeaseInv, [Next]_vars, NEW r \in Relays, pc'[r] = "fail"
    PROVE  /\ batch'[r] = batch[r]
           /\ \/ pc[r] = "fail" /\ seen'[r] = seen[r]
              \/ /\ pc[r] = "nack" /\ table' = table
                 /\ table[CurrentId(r)] # None => table[CurrentId(r)].attempts <= seen'[r]
<1>1. CASE Quiet \/ Aged \/ Cleaned \/ \E i \in Ids : Anew(i)
  BY <1>1, Zenon DEF Quiet, Aged, Cleaned, Anew, Busy, Working
<1>2. CASE \E q \in Relays : Drop(q) \/ Claimed(q) \/ Leases(q)
  BY <1>2, Zenon DEF Drop, Claimed, Leases, Others, Busy, Working
<1>3. CASE \E q \in Relays : Settled(q, CurrentId(q))
  BY <1>3, Zenon DEF Settled, Others, Busy, Working
<1>4. CASE \E q \in Relays : Advance(q)
  BY <1>4, Zenon DEF Advance, Others
<1> QED
  BY <1>1, <1>2, <1>3, <1>4, StepKinds, Zenon

LEMMA SeenFreshPreserved == IInv /\ LeaseInv /\ SeenFresh /\ [Next]_vars => SeenFresh'
<1> SUFFICES ASSUME IInv, LeaseInv, SeenFresh, [Next]_vars,
                    NEW r \in Relays, pc'[r] = "fail", "late" \notin cause'[LeastOf(batch'[r])]
             PROVE  table'[LeastOf(batch'[r])].attempts <= seen'[r]
  BY Zenon DEF SeenFresh, InTime, CurrentId
<1> DEFINE id == CurrentId(r)
<1>1. /\ batch'[r] = batch[r]
      /\ \/ pc[r] = "fail" /\ seen'[r] = seen[r]
         \/ /\ pc[r] = "nack" /\ table' = table
            /\ table[id] # None => table[id].attempts <= seen'[r]
  BY FailPlace, Zenon
<1>2. id \in Ids /\ id \in batch[r] /\ LeastOf(batch'[r]) = id
  BY <1>1, CurrentKnown, Zenon DEF CurrentId, Busy, Working
<1> HIDE DEF id
<1>3. InTime(id) /\ Holds(r, id)
  BY <1>1, <1>2, CausesGrow, Zenon DEF InTime, Holds, Working
<1>4. LeaseInv'
  BY LeaseInvPreserved, Zenon
<1>5. table[id] # None /\ table'[id] # None /\ table'[id].status = "publishing"
  <2>1. Leased(r, id)
    BY <1>2, <1>3, Zenon DEF LeaseInv, HeldLeased
  <2>2. table'[id] # None /\ table'[id].status = "publishing"
    BY <1>1, <1>2, <1>4, Zenon DEF LeaseInv, HeldLeased, Holds, InTime, Leased, Working
  <2> QED
    BY <2>1, <2>2, Zenon DEF Leased
<1>6. table[id].attempts <= seen'[r] => table'[id].attempts <= seen'[r]
  <2>1. NewRow.status = "pending"
    BY Zenon DEF NewRow
  <2>2. table'[id].attempts = table[id].attempts
    BY <1>2, <1>3, <1>5, <2>1, AttemptsKept, Zenon
  <2> QED
    BY <2>2, Zenon
<1>7. table[id].attempts <= seen'[r]
  BY <1>1, <1>2, <1>3, <1>5, Zenon DEF SeenFresh, id
<1> QED
  BY <1>2, <1>6, <1>7, Zenon

\* The attempts of a row go down only when the row is written anew, or when a
\* relay past its lease writes back a count that it read earlier.
THEOREM AttemptsOnlyGrow == Spec => AttemptsGrow
<1>1. Init => SeenFresh
  BY Zenon DEF Init, InitRelay, SeenFresh
<1>2. ASSUME IInv, LeaseInv, SeenFresh, [Next]_vars, NEW id \in Present,
             table'[id] # None, table'[id].attempts < table[id].attempts
      PROVE  table'[id] = NewRow \/ "late" \in cause[id]
  <2> SUFFICES ASSUME InTime(id), table'[id] # NewRow PROVE FALSE
    BY Zenon DEF InTime
  <2>1. id \in Ids /\ table[id] # None /\ table[id].attempts \in Nat
    <3>1. id \in Ids /\ table[id] # None
      BY <1>2, Zenon DEF Present
    <3>2. table[id].attempts \in 0..AttemptCap
      BY <1>2, <3>1, Zenon DEF IInv, TypeOK, TypeOKRelay, Rows
    <3> QED
      BY <3>1, <3>2
  <2>2. PICK r \in Relays : pc[r] = "fail" /\ id = CurrentId(r) /\ table'[id].attempts = seen[r]
    BY <1>2, <2>1, AttemptsKept
  <2>3. table[id].attempts <= seen[r] /\ seen[r] \in Nat
    BY <1>2, <2>2, OutboxConstants DEF SeenFresh, IInv, TypeOK
  <2> QED
    BY <1>2, <2>1, <2>2, <2>3
<1>3. IInv /\ LeaseInv /\ SeenFresh /\ [Next]_vars
        => \A id \in Present :
             table'[id] # None /\ table'[id].attempts < table[id].attempts
               => table'[id] = NewRow \/ "late" \in cause[id]
  BY <1>2, Zenon
<1> QED
  BY <1>1, <1>3, SeenFreshPreserved, LeaseInvariance, PTL DEF Spec, AttemptsGrow

-----------------------------------------------------------------------------
(* Deliveries *)

Finished(id) == table[id] = None \/ table[id].status = "published"

AtAck(r, id) == pc[r] = "ack" /\ id \in batch[r] /\ id = CurrentId(r)

\* An event delivered without a reason to deliver it again is settled for good,
\* or the relay that delivered it is about to settle it.
OnceDelivered ==
    \A id \in Ids : cause[id] = {} /\ delivered[id] > 0 =>
        delivered[id] = 1 /\ (Finished(id) \/ \E r \in Relays : AtAck(r, id))

\* A message in the batch of a relay in time is not finished, and the relay is
\* the only one at it.
LEMMA HeldAlone ==
    ASSUME LeaseInv, NEW r \in Relays, NEW id \in Ids, Holds(r, id), InTime(id)
    PROVE  ~Finished(id) /\ \A q \in Relays : AtAck(q, id) => q = r
<1>1. Leased(r, id)
  BY Zenon DEF LeaseInv, HeldLeased
<1>2. ASSUME NEW q \in Relays, AtAck(q, id) PROVE q = r
  BY <1>2, Zenon DEF LeaseInv, ExclusiveHold, AtAck, Holds, InTime, Working
<1> QED
  BY <1>1, <1>2, Zenon DEF Leased, Finished

\* A step that leaves an event without a cause delivers it at most once.
LEMMA DeliveryStep ==
    ASSUME IInv, LeaseInv, OnceDelivered, [Next]_vars, NEW id \in Ids, cause'[id] = {}
    PROVE  \/ delivered'[id] = delivered[id]
           \/ /\ delivered[id] = 0 /\ delivered'[id] = 1
              /\ \E r \in Relays : /\ pc'[r] = "ack" /\ batch'[r] = batch[r]
                                   /\ id \in batch[r] /\ id = CurrentId(r)
<1>1. cause[id] = {} /\ InTime(id)
  BY CausesGrow, Zenon DEF InTime
<1>2. CASE \/ Quiet \/ Aged \/ Cleaned \/ (\E i \in Ids : Anew(i))
           \/ \E r \in Relays : Drop(r) \/ Claimed(r) \/ Leases(r) \/ Settled(r, CurrentId(r))
  BY <1>2, Zenon DEF Quiet, Aged, Cleaned, Anew, Drop, Claimed, Leases, Settled
<1>3. ASSUME NEW r \in Relays, Advance(r), delivered'[id] # delivered[id]
      PROVE  /\ delivered[id] = 0 /\ delivered'[id] = 1
             /\ pc'[r] = "ack" /\ batch'[r] = batch[r] /\ id \in batch[r] /\ id = CurrentId(r)
  <2>1. id = CurrentId(r) /\ batch'[r] = batch[r] /\ pc[r] = "publish" /\ pc'[r] = "ack"
    BY <1>3, Zenon DEF Advance
  <2>2. id \in batch[r] /\ Holds(r, id)
    BY <2>1, CurrentKnown, Zenon DEF Busy, Working, Holds
  <2>3. ~Finished(id) /\ \A q \in Relays : ~AtAck(q, id)
    BY <1>1, <2>1, <2>2, HeldAlone, Zenon DEF AtAck
  <2>4. delivered[id] = 0
    BY <1>1, <2>3, SMTT(30) DEF OnceDelivered, IInv, TypeOK, TypeOKRelay
  <2> QED
    BY <1>3, <2>1, <2>2, <2>4, Zenon DEF Advance
<1> QED
  BY <1>2, <1>3, StepKinds, Zenon

\* A finished row is not brought back without a cause.
LEMMA FinishedStays ==
    ASSUME IInv, LeaseInv, [Next]_vars, NEW id \in Ids, cause'[id] = {}, delivered[id] > 0,
           Finished(id)
    PROVE  table'[id] = None \/ table'[id].status = "published"
<1>1. cause[id] = {} /\ InTime(id)
  BY CausesGrow, Zenon DEF InTime
<1>2. CASE Quiet \/ Cleaned \/ \E r \in Relays : Drop(r) \/ Claimed(r) \/ Advance(r)
  BY <1>2, Zenon DEF Quiet, Cleaned, Drop, Claimed, Advance, Finished
<1>3. CASE Aged
  BY <1>3, Zenon DEF Aged, Finished
<1>4. ASSUME NEW r \in Relays, Leases(r) PROVE table'[id] = table[id]
  <2>1. id \notin batch[r]
    BY <1>4, Zenon DEF Leases, LeaseInv, LockedClaimable, Claimable, Finished
  <2> QED
    BY <1>4, <2>1, Zenon DEF Leases
<1>5. ASSUME NEW r \in Relays, Settled(r, CurrentId(r)) PROVE table'[id] = table[id]
  <2>1. id # CurrentId(r)
    BY <1>1, <1>5, HeldAlone, Zenon DEF Settled, Holds
  <2> QED
    BY <1>5, <2>1, Zenon DEF Settled
<1>6. ASSUME NEW i \in Ids, Anew(i) PROVE table'[id] = table[id]
  BY <1>6, Zenon DEF Anew, Finished
<1> QED
  BY <1>2, <1>3, <1>4, <1>5, <1>6, StepKinds, Zenon DEF Finished

\* A relay that delivered a message settles it, or goes down and leaves a cause.
LEMMA AckStays ==
    ASSUME IInv, LeaseInv, [Next]_vars, NEW id \in Ids, cause'[id] = {},
           NEW r \in Relays, AtAck(r, id)
    PROVE  \/ table'[id] = None \/ table'[id].status = "published"
           \/ pc'[r] = "ack" /\ batch'[r] = batch[r]
<1>1. InTime(id) /\ Holds(r, id)
  BY CausesGrow, Zenon DEF InTime, AtAck, Holds, Working
<1>2. CASE Quiet \/ Aged \/ Cleaned \/ \E i \in Ids : Anew(i)
  BY <1>2, Zenon DEF Quiet, Aged, Cleaned, Anew, AtAck, Busy, Working
<1>3. ASSUME NEW q \in Relays, Drop(q) \/ Claimed(q) \/ Leases(q) \/ Advance(q)
      PROVE  pc'[r] = "ack" /\ batch'[r] = batch[r]
  BY <1>3, Zenon DEF Drop, Claimed, Leases, Advance, Others, AtAck, Busy, Working
<1>4. ASSUME NEW q \in Relays, q # r, Settled(q, CurrentId(q))
      PROVE  pc'[r] = "ack" /\ batch'[r] = batch[r]
  BY <1>4, Zenon DEF Settled, Others, AtAck
<1>5. ASSUME Settled(r, CurrentId(r)) PROVE table'[id].status = "published"
  <2>1. Leased(r, id)
    BY <1>1, Zenon DEF LeaseInv, HeldLeased
  <2> QED
    BY <1>5, <2>1, Zenon DEF Settled, AtAck, Leased
<1> QED
  BY <1>2, <1>3, <1>4, <1>5, StepKinds, Zenon

LEMMA OnceDeliveredPreserved == IInv /\ LeaseInv /\ OnceDelivered /\ [Next]_vars => OnceDelivered'
<1> SUFFICES ASSUME IInv, LeaseInv, OnceDelivered, [Next]_vars,
                    NEW id \in Ids, cause'[id] = {}, delivered'[id] > 0
             PROVE  /\ delivered'[id] = 1
                    /\ \/ table'[id] = None \/ table'[id].status = "published"
                       \/ \E r \in Relays : /\ pc'[r] = "ack" /\ id \in batch'[r]
                                            /\ id = LeastOf(batch'[r])
  BY Zenon DEF OnceDelivered, Finished, AtAck, CurrentId
<1>1. CASE delivered'[id] # delivered[id]
  BY <1>1, DeliveryStep, ZenonT(30) DEF CurrentId
<1>2. CASE delivered'[id] = delivered[id]
  <2>1. cause[id] = {}
    BY CausesGrow, Zenon
  <2>2. delivered[id] = 1 /\ (Finished(id) \/ \E r \in Relays : AtAck(r, id))
    BY <1>2, <2>1, Zenon DEF OnceDelivered
  <2>3. CASE Finished(id)
    BY <1>2, <2>2, <2>3, FinishedStays, Zenon
  <2>4. ASSUME NEW r \in Relays, AtAck(r, id)
        PROVE  \/ table'[id] = None \/ table'[id].status = "published"
               \/ pc'[r] = "ack" /\ id \in batch'[r] /\ id = LeastOf(batch'[r])
    BY <2>4, AckStays, Zenon DEF AtAck, CurrentId
  <2> QED
    BY <1>2, <2>2, <2>3, <2>4, Zenon
<1> QED
  BY <1>1, <1>2, Zenon

\* The broker takes an event twice only for a cause that the design accepts: a
\* relay past its lease, a relay lost between publish and mark_published, a
\* publish error after the broker took the event, an id enqueued again.
THEOREM DuplicatesHaveCause == Spec => []DuplicateHasCause
<1>1. Init => OnceDelivered
  BY DEF Init, InitRelay, OnceDelivered
<1>2. IInv /\ OnceDelivered => DuplicateHasCause
  BY DEF IInv, TypeOK, TypeOKRelay, OnceDelivered, DuplicateHasCause
<1> QED
  BY <1>1, <1>2, OnceDeliveredPreserved, LeaseInvariance, PTL DEF Spec

\* While no relay has crashed, every publishing row is in the batch of a working
\* relay: a batch is left only when each of its messages is settled, shutdown
\* or not.
THEOREM NothingStranded == Spec => []NoStrandedRow
<1> DEFINE Kept(id) == \E r \in Relays : pc'[r] \in Working /\ id \in batch'[r]
<1>1. Init => NoStrandedRow
  BY Zenon DEF Init, InitRelay, NoStrandedRow, Present
<1>2. ASSUME IInv, LeaseInv, NoStrandedRow, [Next]_vars, crashes' = 0,
             NEW id \in Ids, table'[id] # None, table'[id].status = "publishing"
      PROVE  Kept(id)
  <2>1. crashes = 0 /\ table[id] # None /\ table[id].status = "publishing"
          => \E r \in Relays : Holds(r, id)
    BY <1>2, Zenon DEF NoStrandedRow, Present
  <2>2. CASE Quiet
    BY <1>2, <2>1, <2>2, Zenon DEF Quiet, Holds, Busy
  <2>3. CASE Aged
    BY <1>2, <2>1, <2>3, Zenon DEF Aged, Holds
  <2>4. CASE Cleaned
    BY <1>2, <2>1, <2>4, Zenon DEF Cleaned, Holds
  <2>5. ASSUME NEW r \in Relays, Drop(r) PROVE Kept(id)
    BY <1>2, <2>5 DEF Drop
  <2>6. ASSUME NEW r \in Relays, Claimed(r) PROVE Kept(id)
    BY <1>2, <2>1, <2>6, Zenon DEF Claimed, Others, Holds, Busy
  <2>7. ASSUME NEW r \in Relays, Leases(r) PROVE Kept(id)
    <3>1. CASE id \in batch[r]
      BY <2>7, <3>1, Zenon DEF Leases, Working
    <3>2. CASE id \notin batch[r]
      <4>1. table'[id] = table[id] /\ crashes' = crashes /\ Others(r)
        BY <2>7, <3>2, Zenon DEF Leases
      <4> QED
        BY <1>2, <2>1, <3>2, <4>1, Zenon DEF Others, Holds
    <3> QED
      BY <3>1, <3>2, Zenon
  <2>8. ASSUME NEW r \in Relays, Advance(r) PROVE Kept(id)
    BY <1>2, <2>1, <2>8, Zenon DEF Advance, Others, Holds
  <2>9. ASSUME NEW r \in Relays, Settled(r, CurrentId(r)) PROVE Kept(id)
    <3>1. id # CurrentId(r) /\ table'[id] = table[id] /\ crashes' = crashes
      BY <1>2, <2>9, Zenon DEF Settled
    <3>2. PICK q \in Relays : Holds(q, id)
      BY <1>2, <2>1, <3>1, Zenon
    <3>3. CASE q = r
      BY <2>9, <3>1, <3>2, <3>3, Zenon DEF Settled, Holds, Working
    <3>4. CASE q # r
      BY <2>9, <3>2, <3>4, Zenon DEF Settled, Others, Holds
    <3> QED
      BY <3>3, <3>4, Zenon
  <2>10. ASSUME NEW i \in Ids, Anew(i) PROVE Kept(id)
    <3>1. NewRow.status = "pending"
      BY Zenon DEF NewRow
    <3> QED
      BY <1>2, <2>1, <2>10, <3>1, Zenon DEF Anew, Holds
  <2> HIDE DEF Kept
  <2> QED
    BY <1>2, <2>2, <2>3, <2>4, <2>5, <2>6, <2>7, <2>8, <2>9, <2>10, StepKinds, ZenonT(30)
<1>3. IInv /\ LeaseInv /\ NoStrandedRow /\ [Next]_vars => NoStrandedRow'
  BY <1>2, Zenon DEF NoStrandedRow, Present, Holds
<1> QED
  BY <1>1, <1>3, LeaseInvariance, PTL DEF Spec

=============================================================================
