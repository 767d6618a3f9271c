----------------------------- MODULE SqlOutbox -----------------------------
(***************************************************************************)
(* SqlOutboxStore of roze-transaction-sql under the relay of OutboxRelay:  *)
(* several relays, in one or several processes, over one SQL table.  Each  *)
(* SQL statement is one step; the claim transaction keeps its rows locked  *)
(* from its SELECT ... FOR UPDATE SKIP LOCKED to its COMMIT, and mark_failed *)
(* reads and writes the row in two separate statements.                    *)
(***************************************************************************)
EXTENDS OutboxRelay

CONSTANT MaxAttempts  \* SqlOutboxConfig::max_attempts

ASSUME SqlConstants == MaxAttempts \in Nat \ {0} /\ MaxAttempts < AttemptCap

VARIABLES
    openTx,  \* ids inserted by business transactions not committed yet
    seen     \* mark_failed: the attempts each relay is about to write

vars == <<relayVars, openTx, seen>>

-----------------------------------------------------------------------------
Locked(id) == \E r \in Relays : pc[r] = "locked" /\ id \in batch[r]

Insert(id) == table' = [table EXCEPT ![id] = NewRow]

Requeued(id) ==
    IF delivered[id] > 0 THEN [cause EXCEPT ![id] = @ \cup {"again"}] ELSE cause

\* enqueue outside a transaction; an id already in the table changes nothing.
\* The notification reaches the relays of this process only.
Enqueue(id) ==
    /\ id \notin openTx
    /\ IF table[id] = None
       THEN /\ Insert(id)
            /\ notified' \in {notified, TRUE}
            /\ cause' = Requeued(id)
       ELSE UNCHANGED <<table, notified, cause>>
    /\ UNCHANGED <<loopVars, delivered, openTx, seen>>

\* enqueue_in_transaction: the row is inserted, and the relay notified, before
\* the business transaction commits.
EnqueueInTransaction(id) ==
    /\ id \notin openTx
    /\ table[id] = None
    /\ openTx' = openTx \cup {id}
    /\ notified' \in {notified, TRUE}
    /\ UNCHANGED <<table, loopVars, ghostVars, seen>>

CommitTransaction(id) ==
    /\ id \in openTx
    /\ openTx' = openTx \ {id}
    /\ Insert(id)
    /\ cause' = Requeued(id)
    /\ UNCHANGED <<notified, loopVars, delivered, seen>>

RollbackTransaction(id) ==
    /\ id \in openTx
    /\ openTx' = openTx \ {id}
    /\ UNCHANGED <<relayVars, seen>>

-----------------------------------------------------------------------------
(* claim_pending *)

SelectForUpdate(r) ==
    LET rows == FirstOf({id \in Present : Claimable(table[id]) /\ ~Locked(id)}, Limit)
    IN  /\ pc[r] = "poll"
        /\ \/ /\ rows = {}
              /\ BeginIdle(r)
              /\ UNCHANGED <<batch, claimed>>
           \/ /\ rows # {}
              /\ pc' = [pc EXCEPT ![r] = "locked"]
              /\ batch' = [batch EXCEPT ![r] = rows]
              /\ claimed' = [claimed EXCEPT ![r] =
                               [id \in Ids |-> IF id \in rows THEN table[id].attempts ELSE 0]]
              /\ UNCHANGED sleep
        /\ age' = [age EXCEPT ![r] = 0]
        /\ UNCHANGED <<storeVars, ghostVars, idle, shutdown, crashes, openTx, seen>>

CommitClaim(r) ==
    /\ pc[r] = "locked"
    /\ pc' = [pc EXCEPT ![r] = "publish"]
    /\ table' = [id \in Ids |->
                   IF id \in batch[r] THEN MarkPublishing(table[id], Left(Lease, age[r]))
                   ELSE table[id]]
    /\ cause' = [id \in Ids |->
                   IF id \in batch[r] /\ age[r] >= Lease THEN cause[id] \cup {"late"}
                   ELSE cause[id]]
    /\ UNCHANGED <<notified, delivered, batch, claimed, age, idle, sleep, shutdown,
                   crashes, openTx, seen>>

-----------------------------------------------------------------------------
(* mark_published and mark_failed *)

\* Mutant: UPDATE ... WHERE id = ?, whatever the status.
UpdateAnyStatus(id, row) ==
    table' = IF table[id] # None THEN [table EXCEPT ![id] = row] ELSE table

\* UPDATE ... WHERE id = ? AND status = 'publishing'.
UpdatePublishing(id, row) ==
    table' = IF table[id] # None /\ table[id].status = "publishing"
             THEN [table EXCEPT ![id] = row] ELSE table

SettlePublished(r) ==
    /\ pc[r] = "ack"
    /\ ~Locked(CurrentId(r))
    /\ UpdatePublishing(CurrentId(r), MarkPublished(table[CurrentId(r)]))
    /\ SettleCurrent(r)
    /\ UNCHANGED <<notified, ghostVars, idle, sleep, shutdown, crashes, openTx, seen>>

ReadAttempts(r) ==
    /\ pc[r] = "nack"
    /\ seen' = [seen EXCEPT ![r] = IF table[CurrentId(r)] = None THEN 1
                                   ELSE Saturated(table[CurrentId(r)].attempts + 1)]
    /\ pc' = [pc EXCEPT ![r] = "fail"]
    /\ UNCHANGED <<storeVars, ghostVars, batch, claimed, age, idle, sleep, shutdown,
                   crashes, openTx>>

\* Mutant: a row that is given up counts as published.
FailedRowGivenUp(row, attempts, next) ==
    IF attempts < MaxAttempts THEN MarkFailed(row, attempts, next) ELSE MarkPublished(row)

\* The row after mark_failed wrote `attempts': a dead letter has no next attempt.
FailedRow(row, attempts, next) ==
    MarkFailed(row, attempts, IF attempts < MaxAttempts THEN next ELSE None)

SettleFailed(r) ==
    /\ pc[r] = "fail"
    /\ ~Locked(CurrentId(r))
    /\ UpdatePublishing(CurrentId(r),
                        FailedRow(table[CurrentId(r)], seen[r],
                                  NextAttempt(claimed[r][CurrentId(r)], age[r])))
    /\ SettleCurrent(r)
    /\ seen' = [seen EXCEPT ![r] = 0]
    /\ UNCHANGED <<notified, ghostVars, idle, sleep, shutdown, crashes, openTx>>

-----------------------------------------------------------------------------
(* The administrative operations. *)

ReplayDeadLetter(id) ==
    /\ table[id] # None /\ table[id].status = "failed"
    /\ ~Locked(id)
    /\ Insert(id)
    /\ notified' \in {notified, TRUE}
    /\ UNCHANGED <<loopVars, ghostVars, openTx, seen>>

\* Mutant: rows of any status are deleted.
CleanupAnyStatus(limit) ==
    /\ Present # {}
    /\ table' = [id \in Ids |-> IF id \in FirstOf(Present, limit) THEN None ELSE table[id]]
    /\ UNCHANGED <<notified, loopVars, ghostVars, openTx, seen>>

CleanupPublished(limit) ==
    LET rows == FirstOf({id \in Present : table[id].status = "published"}, limit)
    IN  /\ rows # {}
        /\ table' = [id \in Ids |-> IF id \in rows THEN None ELSE table[id]]
        /\ UNCHANGED <<notified, loopVars, ghostVars, openTx, seen>>

-----------------------------------------------------------------------------
Init == InitRelay /\ openTx = {} /\ seen = [r \in Relays |-> 0]

StoreStep(r) ==
    SelectForUpdate(r) \/ CommitClaim(r) \/ SettlePublished(r) \/ ReadAttempts(r) \/ SettleFailed(r)

Client(id) ==
    \/ Enqueue(id)
    \/ EnqueueInTransaction(id)
    \/ CommitTransaction(id)
    \/ RollbackTransaction(id)
    \/ ReplayDeadLetter(id)

CrashSql(r) == Crash(r) /\ seen' = [seen EXCEPT ![r] = 0] /\ UNCHANGED openTx

RelayStepSql(r) == RelayStep(r) /\ UNCHANGED <<openTx, seen>>

TickSql == RelayTick /\ UNCHANGED <<openTx, seen>>

Next ==
    \/ TickSql
    \/ \E r \in Relays : StoreStep(r) \/ RelayStepSql(r) \/ CrashSql(r)
    \/ \E r \in Relays : (RequestShutdown(r) \/ Restart(r)) /\ UNCHANGED <<openTx, seen>>
    \/ \E id \in Ids : Client(id)
    \/ \E limit \in 1..Cardinality(Ids) : CleanupPublished(limit)

Spec == Init /\ [][Next]_vars

\* A relay and its database keep running, a relay that went down is started
\* again, time passes, and a broker that is asked for the same event again and
\* again accepts it.  A statement waiting for a row lock gets it eventually
\* (strong fairness).
Fairness ==
    /\ WF_vars(TickSql)
    /\ \A r \in Relays :
        /\ SF_vars(StoreStep(r))
        /\ WF_vars(RelayStepSql(r))
        /\ WF_vars(Restart(r) /\ UNCHANGED <<openTx, seen>>)
    /\ \A id \in Ids :
        SF_vars(\E r \in Relays : Holds(r, id) /\ id = CurrentId(r) /\ PublishOk(r)
                  /\ UNCHANGED <<openTx, seen>>)

FairSpec == Spec /\ Fairness

-----------------------------------------------------------------------------
(* Properties. *)

\* Every variable keeps its type.
TypeOK ==
    /\ TypeOKRelay
    /\ openTx \in SUBSET Ids
    /\ seen \in [Relays -> 0..AttemptCap]

\* A row is published only if the broker took its event: no interleaving of
\* claims, crashes, stale relays, replays and cleanups marks an event published
\* that was never delivered (roze-transaction-sql mark_published).
PublishedWasDelivered ==
    \A id \in Present : table[id].status = "published" => delivered[id] > 0

\* Two relays work on the same row at the same time only if one of them kept
\* it past its lease (SKIP LOCKED, the status and the lease keep them apart).
ExclusiveHold ==
    \A id \in Ids, r1, r2 \in Relays :
        r1 # r2 /\ Holds(r1, id) /\ Holds(r2, id) => "late" \in cause[id]

\* The broker takes an event twice only for a reason the design accepts: a
\* relay past its lease, a relay lost between publish and mark_published, a
\* publish error after the broker took it, or an id enqueued again after cleanup.
DuplicateHasCause ==
    \A id \in Ids : delivered[id] > 1 => cause[id] # {}

\* While no relay crashed, every row left in publishing is in the batch of a
\* working relay: a shutdown never strands a claimed row (run_outbox_relay
\* looks at shutdown only between batches).
NoStrandedRow ==
    crashes = 0 =>
        \A id \in Present : table[id].status = "publishing" => \E r \in Relays : Holds(r, id)

\* A published row is final: a duplicate enqueue, a late mark_failed or a late
\* claim never brings it back; only cleanup_published removes it.
PublishedIsFinal ==
    [][\A id \in Present : table[id].status = "published" => table'[id] \in {table[id], None}]_vars

\* The attempts of a row go down only when it is replayed, or when a relay past
\* its lease writes back a count it read earlier (mark_failed is not atomic).
AttemptsGrow ==
    [][\A id \in Present :
         table'[id] # None /\ table'[id].attempts < table[id].attempts
           => table'[id] = NewRow \/ "late" \in cause[id]]_vars

\* docs/contracts/persistent-outbox.md:16 promises "bounded attempts".
BoundedAttempts ==
    \A id \in Present : table[id].attempts <= MaxAttempts

\* The SQL store keeps the promise of an outbox (EventOutbox): an event whose
\* business transaction rolled back is never delivered, and a row counts as
\* published only after a delivery.  A delivered event whose row is gone is done.
Phase(id) ==
    IF table[id] = None THEN IF delivered[id] > 0 THEN "done" ELSE "none"
    ELSE IF table[id].status = "published" THEN "done" ELSE "waiting"

Promise == INSTANCE EventOutbox WITH phase <- [id \in Ids |-> Phase(id)]
KeepsPromise == Promise!Spec

\* Every committed event reaches the broker, unless every relay was shut down:
\* the bounded poll finds rows whose notification came before their commit and
\* rows a crashed relay left behind.
EventuallyDelivered ==
    \A id \in Ids :
        table[id] # None ~> (delivered[id] > 0 \/ \A r \in Relays : pc[r] = "stopped")

\* A relay asked to stop finishes its batch and stops, or goes down.
ShutdownCompletes ==
    \A r \in Relays : shutdown[r] ~> pc[r] \in {"stopped", "down"}

=============================================================================
