---------------------------- MODULE MemoryOutbox ----------------------------
(***************************************************************************)
(* InMemoryOutbox of roze-transaction under the relay of OutboxRelay: one  *)
(* mutex-protected map, so every store operation is one step.  Unlike the  *)
(* SQL store, enqueue replaces the row of a known id, and mark_published   *)
(* and mark_failed do not look at the row's status.                        *)
(***************************************************************************)
EXTENDS OutboxRelay

-----------------------------------------------------------------------------
\* enqueue: BTreeMap::insert, then notify_one if the id is new.  Replacing a row
\* that a relay holds, or that was delivered, leaves it to be published again.
Enqueue(id) ==
    /\ table' = [table EXCEPT ![id] = NewRow]
    /\ notified' = (notified \/ table[id] = None)
    /\ cause' = IF table[id] = None \/ table[id] = NewRow THEN cause
                ELSE [cause EXCEPT ![id] = @ \cup {"again"}]
    /\ UNCHANGED <<loopVars, delivered>>

\* claim_pending, and the clock reading before it.
ClaimPending(r) ==
    LET rows == FirstOf({id \in Present : Claimable(table[id])}, Limit)
    IN  /\ pc[r] = "poll"
        /\ \/ /\ rows = {}
              /\ BeginIdle(r)
              /\ UNCHANGED <<table, batch, claimed>>
           \/ /\ rows # {}
              /\ pc' = [pc EXCEPT ![r] = "publish"]
              /\ table' = [id \in Ids |-> IF id \in rows THEN MarkPublishing(table[id], Lease)
                                          ELSE table[id]]
              /\ batch' = [batch EXCEPT ![r] = rows]
              /\ claimed' = [claimed EXCEPT ![r] =
                               [id \in Ids |-> IF id \in rows THEN table[id].attempts ELSE 0]]
              /\ UNCHANGED sleep
        /\ age' = [age EXCEPT ![r] = 0]
        /\ UNCHANGED <<notified, ghostVars, idle, shutdown, crashes>>

\* get_mut(id) and the transition of the message, whatever its status.
Update(id, row) == table' = IF table[id] = None THEN table ELSE [table EXCEPT ![id] = row]

SettlePublished(r) ==
    /\ pc[r] = "ack"
    /\ Update(CurrentId(r), MarkPublished(table[CurrentId(r)]))
    /\ SettleCurrent(r)
    /\ UNCHANGED <<notified, ghostVars, idle, sleep, shutdown, crashes>>

\* Mutant: a failure removes the row.
SettleFailedRemoved(r) ==
    /\ pc[r] = "nack"
    /\ table' = [table EXCEPT ![CurrentId(r)] = None]
    /\ SettleCurrent(r)
    /\ UNCHANGED <<notified, ghostVars, idle, sleep, shutdown, crashes>>

SettleFailed(r) ==
    /\ pc[r] = "nack"
    /\ Update(CurrentId(r),
              MarkFailed(table[CurrentId(r)], Saturated(table[CurrentId(r)].attempts + 1),
                         NextAttempt(claimed[r][CurrentId(r)], age[r])))
    /\ SettleCurrent(r)
    /\ UNCHANGED <<notified, ghostVars, idle, sleep, shutdown, crashes>>

-----------------------------------------------------------------------------
MemoryInit == InitRelay

StoreStep(r) == ClaimPending(r) \/ SettlePublished(r) \/ SettleFailed(r)

MemoryNext ==
    \/ RelayTick
    \/ \E r \in Relays : StoreStep(r) \/ RelayStep(r) \/ FaultStep(r)
    \/ \E id \in Ids : Enqueue(id)

MemorySpec == MemoryInit /\ [][MemoryNext]_relayVars

-----------------------------------------------------------------------------
(* Properties. *)

\* A published row is published again only because its id was enqueued again or
\* because a relay past its lease reported a failure over it: mark_failed does
\* not check the status.
PublishedReopens ==
    [][\A id \in Present :
         table[id].status = "published" /\ table'[id].status # "published"
           => table'[id] = NewRow \/ cause[id] # {}]_relayVars

\* The in-memory store keeps the promise of an outbox (EventOutbox).
MemoryPromise == INSTANCE EventOutbox WITH
    phase <- [id \in Ids |-> IF table[id] = None THEN "none"
                             ELSE IF table[id].status = "published" THEN "done" ELSE "waiting"]
MemoryKeepsPromise == MemoryPromise!Spec

=============================================================================
