---------------------------- MODULE OutboxRelay ----------------------------
(***************************************************************************)
(* The outbox relay of roze-transaction: the row life cycle, the batch a   *)
(* relay works through, and the loop around the batches.  The stores that  *)
(* a relay talks to are modelled by SqlOutbox and MemoryOutbox, which      *)
(* extend this module with the store operations and the specification.     *)
(*                                                                         *)
(* Every timestamp of the code is kept as the time LEFT until it is        *)
(* reached (0: "<= now", None: NULL).  RelayTick lets one unit of time     *)
(* pass, so time is unbounded although every state is small.               *)
(***************************************************************************)
EXTENDS Naturals, FiniteSets, Option

CONSTANTS
    Ids,             \* event ids, ordered: the primary key of the table
    Relays,          \* relay workers, in one or in several processes
    Limit,           \* OutboxRelayConfig::limit
    Lease,           \* OutboxRelayConfig::lease_millis
    InitialBackoff,  \* OutboxRelayConfig::initial_backoff_millis
    MaxBackoff,      \* OutboxRelayConfig::max_backoff_millis
    MinIdle,         \* OutboxRelayLoopConfig::idle_backoff_min
    MaxIdle,         \* OutboxRelayLoopConfig::idle_backoff_max
    AttemptCap,      \* where the attempts counter saturates
    MaxCrashes       \* bound: relays that fail in one behaviour

ASSUME OutboxConstants ==
    /\ Ids \subseteq Nat /\ IsFiniteSet(Ids)
    /\ None \notin Nat
    /\ {Limit, Lease, InitialBackoff, MinIdle} \subseteq Nat \ {0}
    /\ {MaxBackoff, MaxIdle, AttemptCap, MaxCrashes} \subseteq Nat
    /\ MinIdle <= MaxIdle

VARIABLES
    table,      \* id -> row, or None when there is no such row
    pc,         \* where each relay is
    batch,      \* ids a relay claimed and has not settled yet
    claimed,    \* attempts of those rows when they were claimed
    age,        \* time since the clock was read for the batch
    idle,       \* idle_delay
    sleep,      \* time left of an idle sleep
    notified,   \* Notify: a stored wake-up
    shutdown,   \* the relay's shutdown future has resolved
    crashes,    \* relays that failed so far
    delivered,  \* ghost: times the broker took the event (0, 1, 2 or more)
    cause       \* ghost: why an event may be delivered twice: a relay kept it
                \* "late", past its lease, or it was left to be published
                \* "again" after the broker took it

storeVars == <<table, notified>>
loopVars  == <<pc, batch, claimed, age, idle, sleep, shutdown, crashes>>
ghostVars == <<delivered, cause>>
relayVars == <<storeVars, loopVars, ghostVars>>

-----------------------------------------------------------------------------
(* Rows: OutboxMessage and its transitions. *)

Statuses == {"pending", "publishing", "published", "failed"}
Times    == Nat \cup {None}
Rows     == [status: Statuses, attempts: 0..AttemptCap, next: Times, lease: Times]

ASSUME NoneIsNoRow == None \notin Rows

NewRow == [status |-> "pending", attempts |-> 0, next |-> None, lease |-> None]

Saturated(n) == IF n < AttemptCap THEN n ELSE AttemptCap

\* Mutant: a claim starts the attempts afresh.
MarkPublishingAfresh(row, lease) ==
    [row EXCEPT !.status = "publishing", !.attempts = 0, !.lease = lease]

MarkPublishing(row, lease) ==
    [row EXCEPT !.status = "publishing", !.lease = lease]

\* Mutant: the status is left as it is.
MarkPublishedStatusKept(row) == [row EXCEPT !.next = None, !.lease = None]

MarkPublished(row) ==
    [row EXCEPT !.status = "published", !.next = None, !.lease = None]

MarkFailed(row, attempts, next) ==
    [row EXCEPT !.status = "failed", !.attempts = attempts,
                !.next = next, !.lease = None]

Due(time) == time = None \/ time = 0

\* Mutant: the lease of a publishing row is not looked at.
ClaimableAnyLease(row) ==
    \/ row.status \in {"pending", "failed"} /\ Due(row.next)
    \/ row.status = "publishing"

\* Mutant: a published row is claimed like a failed one.
ClaimablePublished(row) ==
    \/ row.status # "publishing" /\ Due(row.next)
    \/ row.status = "publishing" /\ Due(row.lease)

Claimable(row) ==
    \/ row.status \in {"pending", "failed"} /\ Due(row.next)
    \/ row.status = "publishing" /\ Due(row.lease)

Present == {id \in Ids : table[id] # None}

\* The first n ids of S in key order: ORDER BY id LIMIT n.
FirstOf(S, n) == {id \in S : Cardinality({other \in S : other < id}) < n}

-----------------------------------------------------------------------------
(* Time. *)

Left(delay, elapsed) == IF delay > elapsed THEN delay - elapsed ELSE 0

OneLess(time) == IF time = None THEN None ELSE Left(time, 1)

AgeCap == IF Lease > MaxBackoff THEN Lease ELSE MaxBackoff

PowersOfTwo == <<1, 2, 4, 8, 16, 32, 64>>

\* next_attempt_millis, as the time left when the batch is `elapsed` old.
NextAttempt(attempts, elapsed) ==
    LET exponent == IF attempts < 6 THEN attempts ELSE 6
        grown    == InitialBackoff * PowersOfTwo[exponent + 1]
    IN  Left(IF grown < MaxBackoff THEN grown ELSE MaxBackoff, elapsed)

NextIdleDelay(current) == IF 2 * current < MaxIdle THEN 2 * current ELSE MaxIdle

-----------------------------------------------------------------------------
(* The relay.  poll: about to run a batch; locked: inside the claim        *)
(* transaction; publish, ack, nack, fail: at one message of the batch;     *)
(* yield: after a batch that did something; idle: waiting after an empty   *)
(* one; stopped: returned Ok; down: returned Err, or its process is gone.  *)

Working     == {"publish", "ack", "nack", "fail"}
RelayPlaces == {"poll", "locked", "yield", "idle", "stopped", "down"} \cup Working

Holds(r, id) == pc[r] \in Working /\ id \in batch[r]

LeastOf(S) == CHOOSE id \in S : \A other \in S : id <= other

CurrentId(r) == LeastOf(batch[r])

TypeOKRelay ==
    /\ table \in [Ids -> Rows \cup {None}]
    /\ pc \in [Relays -> RelayPlaces]
    /\ batch \in [Relays -> SUBSET Ids]
    /\ claimed \in [Relays -> [Ids -> 0..AttemptCap]]
    /\ age \in [Relays -> 0..AgeCap]
    /\ idle \in [Relays -> Nat]
    /\ sleep \in [Relays -> Nat]
    /\ notified \in BOOLEAN
    /\ shutdown \in [Relays -> BOOLEAN]
    /\ crashes \in 0..MaxCrashes
    /\ delivered \in [Ids -> 0..2]
    /\ cause \in [Ids -> SUBSET {"late", "again"}]

InitRelay ==
    /\ table = [id \in Ids |-> None]
    /\ pc = [r \in Relays |-> "poll"]
    /\ batch = [r \in Relays |-> {}]
    /\ claimed = [r \in Relays |-> [id \in Ids |-> 0]]
    /\ age = [r \in Relays |-> 0]
    /\ idle = [r \in Relays |-> MinIdle]
    /\ sleep = [r \in Relays |-> 0]
    /\ notified = FALSE
    /\ shutdown = [r \in Relays |-> FALSE]
    /\ crashes = 0
    /\ delivered = [id \in Ids |-> 0]
    /\ cause = [id \in Ids |-> {}]

-----------------------------------------------------------------------------
(* What the outside does to a relay. *)

\* One unit of time passes.  A relay that still holds a row when its lease
\* has run out is late: another relay may claim the row from now on.
RelayTick ==
    LET older(r) == IF pc[r] \in Working \cup {"locked"} /\ age[r] < AgeCap
                    THEN age[r] + 1 ELSE age[r]
        late(id) == \E r \in Relays : Holds(r, id) /\ older(r) >= Lease
    IN  /\ table' = [id \in Ids |->
                       IF table[id] = None THEN None
                       ELSE [table[id] EXCEPT !.next = OneLess(@), !.lease = OneLess(@)]]
        /\ age' = [r \in Relays |-> older(r)]
        /\ sleep' = [r \in Relays |-> Left(sleep[r], 1)]
        /\ cause' = [id \in Ids |-> IF late(id) THEN cause[id] \cup {"late"} ELSE cause[id]]
        /\ UNCHANGED <<notified, pc, batch, claimed, idle, shutdown, crashes, delivered>>

\* The shutdown future given to run_outbox_relay resolves.
RequestShutdown(r) ==
    /\ ~shutdown[r]
    /\ shutdown' = [shutdown EXCEPT ![r] = TRUE]
    /\ UNCHANGED <<storeVars, ghostVars, pc, batch, claimed, age, idle, sleep, crashes>>

\* A store error ends the loop through `?', or the process dies: the batch is
\* forgotten, an open claim transaction is rolled back.
Crash(r) ==
    /\ pc[r] \in {"poll", "locked"} \cup Working
    /\ crashes < MaxCrashes
    /\ crashes' = crashes + 1
    /\ pc' = [pc EXCEPT ![r] = "down"]
    /\ batch' = [batch EXCEPT ![r] = {}]
    /\ claimed' = [claimed EXCEPT ![r] = [id \in Ids |-> 0]]
    /\ age' = [age EXCEPT ![r] = 0]
    /\ cause' = IF pc[r] = "ack"
                THEN [cause EXCEPT ![CurrentId(r)] = @ \cup {"again"}]
                ELSE cause
    /\ UNCHANGED <<storeVars, idle, sleep, shutdown, delivered>>

\* A new process calls run_outbox_relay again.
Restart(r) ==
    /\ pc[r] = "down"
    /\ pc' = [pc EXCEPT ![r] = "poll"]
    /\ idle' = [idle EXCEPT ![r] = MinIdle]
    /\ shutdown' = [shutdown EXCEPT ![r] = FALSE]
    /\ UNCHANGED <<storeVars, ghostVars, batch, claimed, age, sleep, crashes>>

-----------------------------------------------------------------------------
(* The loop of run_outbox_relay. *)

\* The batch found nothing: wait for a notification or for idle_delay.
BeginIdle(r) ==
    /\ pc' = [pc EXCEPT ![r] = "idle"]
    /\ sleep' = [sleep EXCEPT ![r] = idle[r]]

\* Mutant: an idle relay waits for a notification only.
WakeUpNotifiedOnly(r) ==
    /\ pc[r] = "idle"
    /\ \/ /\ shutdown[r]
          /\ pc' = [pc EXCEPT ![r] = "stopped"]
          /\ UNCHANGED <<notified, idle>>
       \/ /\ ~shutdown[r] /\ notified
          /\ notified' = FALSE
          /\ pc' = [pc EXCEPT ![r] = "poll"]
          /\ idle' = [idle EXCEPT ![r] = NextIdleDelay(@)]
    /\ sleep' = [sleep EXCEPT ![r] = 0]
    /\ UNCHANGED <<table, ghostVars, batch, claimed, age, shutdown, crashes>>

\* The biased select of an idle relay: shutdown, then notified, then sleep.
WakeUp(r) ==
    /\ pc[r] = "idle"
    /\ \/ /\ shutdown[r]
          /\ pc' = [pc EXCEPT ![r] = "stopped"]
          /\ UNCHANGED <<notified, idle>>
       \/ /\ ~shutdown[r]
          /\ notified \/ sleep[r] = 0
          /\ notified' = FALSE
          /\ pc' = [pc EXCEPT ![r] = "poll"]
          /\ idle' = [idle EXCEPT ![r] = NextIdleDelay(@)]
    /\ sleep' = [sleep EXCEPT ![r] = 0]
    /\ UNCHANGED <<table, ghostVars, batch, claimed, age, shutdown, crashes>>

\* Mutant: shutdown is looked at only while idle.
YieldNoShutdown(r) ==
    /\ pc[r] = "yield"
    /\ pc' = [pc EXCEPT ![r] = "poll"]
    /\ idle' = [idle EXCEPT ![r] = MinIdle]
    /\ UNCHANGED <<storeVars, ghostVars, batch, claimed, age, sleep, shutdown, crashes>>

\* After a batch that did something: stop if asked to, else poll at once.
Yield(r) ==
    /\ pc[r] = "yield"
    /\ pc' = [pc EXCEPT ![r] = IF shutdown[r] THEN "stopped" ELSE "poll"]
    /\ idle' = [idle EXCEPT ![r] = MinIdle]
    /\ UNCHANGED <<storeVars, ghostVars, batch, claimed, age, sleep, shutdown, crashes>>

-----------------------------------------------------------------------------
(* The messages of a batch, in key order: relay_outbox_batch. *)

MoreDelivered(id) == [delivered EXCEPT ![id] = IF @ < 2 THEN @ + 1 ELSE 2]

PublishOk(r) ==
    /\ pc[r] = "publish"
    /\ pc' = [pc EXCEPT ![r] = "ack"]
    /\ delivered' = MoreDelivered(CurrentId(r))
    /\ UNCHANGED <<storeVars, cause, batch, claimed, age, idle, sleep, shutdown, crashes>>

\* The publisher returns an error; the broker may have taken the message.
PublishErr(r) ==
    /\ pc[r] = "publish"
    /\ pc' = [pc EXCEPT ![r] = "nack"]
    /\ \/ UNCHANGED ghostVars
       \/ /\ delivered' = MoreDelivered(CurrentId(r))
          /\ cause' = [cause EXCEPT ![CurrentId(r)] = @ \cup {"again"}]
    /\ UNCHANGED <<storeVars, batch, claimed, age, idle, sleep, shutdown, crashes>>

\* Mutant: shutdown ends the batch after the current message.
SettleUntilShutdown(r) ==
    LET last == batch[r] = {CurrentId(r)} \/ shutdown[r]
    IN  /\ batch' = [batch EXCEPT ![r] = IF last THEN {} ELSE @ \ {CurrentId(r)}]
        /\ claimed' = [claimed EXCEPT ![r][CurrentId(r)] = 0]
        /\ pc' = [pc EXCEPT ![r] = IF last THEN "yield" ELSE "publish"]
        /\ age' = [age EXCEPT ![r] = IF last THEN 0 ELSE @]

\* The current message is settled in the store: go to the next one.
SettleCurrent(r) ==
    /\ batch' = [batch EXCEPT ![r] = @ \ {CurrentId(r)}]
    /\ claimed' = [claimed EXCEPT ![r][CurrentId(r)] = 0]
    /\ pc' = [pc EXCEPT ![r] = IF batch[r] = {CurrentId(r)} THEN "yield" ELSE "publish"]
    /\ age' = [age EXCEPT ![r] = IF batch[r] = {CurrentId(r)} THEN 0 ELSE @]

\* The step of a relay that no store is involved in.
RelayStep(r) == WakeUp(r) \/ Yield(r) \/ PublishOk(r) \/ PublishErr(r)

FaultStep(r) == RequestShutdown(r) \/ Crash(r) \/ Restart(r)

=============================================================================
