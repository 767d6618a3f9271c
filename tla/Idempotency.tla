---------------------------- MODULE Idempotency ----------------------------
(***************************************************************************)
(* Duplicate requests with one idempotency key (roze-middleware): the      *)
(* generated handler begins, runs its logic, and completes or fails the    *)
(* record of the key in a store, which is a map in memory or a hash in     *)
(* Redis changed by scripts.  Each call of the store is one step.  A       *)
(* handler may be dropped while it runs, and a call to Redis may be lost   *)
(* on its way there or back.                                               *)
(***************************************************************************)
EXTENDS Clock, FiniteSets

CONSTANTS
    Stores,          \* SUBSET {"memory", "redis"}
    Handlers,        \* requests with the key that may be handled at one time
    Prints,          \* request fingerprints
    Lease,           \* IdempotencyPolicy::lease_millis
    RecordTtl        \* RedisIdempotencyConfig::record_ttl_millis

\* IdempotencyRecord, with the time to live of its key; by: the handler whose
\* response it holds; late (history): which came when the lease of that handler
\* was over.
Records ==
    [print: Prints, by: Handlers \cup {None}, late: BOOLEAN, lease: Time, ttl: Time]

ASSUME IdempotencyConstants ==
    /\ {Lease, RecordTtl} \subseteq Nat
    /\ None \notin Handlers \cup Records

VARIABLES
    store,    \* the store in use
    record,   \* the IdempotencyRecord of the key, or None
    handler,  \* the state of each handler
    strays    \* history: a handler that outlived its lease has removed a record

idemVars == <<store, record, handler, strays>>

\* at: idle, run (its logic), complete, fail (about to settle its record);
\* left: time left of the lease that it was given.
IdleHandler == [at |-> "idle", print |-> None, left |-> 0]

IdemInit ==
    /\ store \in Stores
    /\ record = None
    /\ handler = [h \in Handlers |-> IdleHandler]
    /\ strays = FALSE

Running(h) == handler[h].at # "idle"
Live(h)    == Running(h) /\ handler[h].left > 0

Leased(print) ==
    [print |-> print, by |-> None, late |-> FALSE, lease |-> Lease,
     ttl |-> IF store = "redis" THEN RecordTtl ELSE None]

GoIdle(h) == handler' = [handler EXCEPT ![h] = IdleHandler]

-----------------------------------------------------------------------------
(* IdempotencyStore::begin *)

Decision(print) ==
    CASE record = None           -> "execute"
      [] record # None /\ record.print # print -> "conflict"
      [] record # None /\ record.print = print /\ record.by # None -> "replay"
      [] record # None /\ record.print = print /\ record.by = None /\ record.lease > 0 -> "in_flight"
      [] OTHER -> "execute"

\* Mutant: the lease of the request under way is not looked at.
BeginImpatient(h, print) ==
    /\ handler[h].at = "idle"
    /\ IF Decision(print) \in {"execute", "in_flight"}
       THEN /\ record' = Leased(print)
            /\ handler' = [handler EXCEPT ![h] = [at |-> "run", print |-> print, left |-> Lease]]
       ELSE UNCHANGED <<record, handler>>
    /\ UNCHANGED <<store, strays>>

\* Mutant: a finished request is executed again.
BeginForgetful(h, print) ==
    /\ handler[h].at = "idle"
    /\ IF Decision(print) \in {"execute", "replay"}
       THEN /\ record' = Leased(print)
            /\ handler' = [handler EXCEPT ![h] = [at |-> "run", print |-> print, left |-> Lease]]
       ELSE UNCHANGED <<record, handler>>
    /\ UNCHANGED <<store, strays>>

\* A replayed, refused or conflicting request is answered at once.
Begin(h, print) ==
    /\ handler[h].at = "idle"
    /\ IF Decision(print) = "execute"
       THEN /\ record' = Leased(print)
            /\ handler' = [handler EXCEPT ![h] = [at |-> "run", print |-> print, left |-> Lease]]
       ELSE UNCHANGED <<record, handler>>
    /\ UNCHANGED <<store, strays>>

\* The script ran and its answer is lost: 503, and nobody executes.
BeginAnswerLost(h, print) ==
    /\ store = "redis" /\ handler[h].at = "idle"
    /\ Decision(print) = "execute"
    /\ record' = Leased(print)
    /\ UNCHANGED <<store, handler, strays>>

-----------------------------------------------------------------------------
(* The logic, and how the handler settles its record *)

FinishRequest(h, place) ==
    /\ handler[h].at = "run"
    /\ handler' = [handler EXCEPT ![h].at = place]
    /\ UNCHANGED <<store, record, strays>>

\* The handler's future is dropped; the record keeps its lease.
Abandon(h) ==
    /\ Running(h)
    /\ GoIdle(h)
    /\ UNCHANGED <<store, record, strays>>

\* IdempotencyStore::complete: whoever holds the lease now.
Complete(h) ==
    /\ handler[h].at = "complete"
    /\ record' = IF record # None /\ record.print = handler[h].print
                 THEN [record EXCEPT !.by = h, !.late = ~Live(h), !.lease = None,
                                     !.ttl = IF store = "redis" THEN RecordTtl ELSE None]
                 ELSE record
    /\ GoIdle(h)
    /\ UNCHANGED <<store, strays>>

\* IdempotencyStore::fail: the record of whoever holds the lease now.
Fail(h) ==
    LET removes == record # None /\ record.print = handler[h].print /\ record.by = None
    IN  /\ handler[h].at = "fail"
        /\ record' = IF removes THEN None ELSE record
        /\ strays' = (strays \/ (removes /\ ~Live(h)))
        /\ GoIdle(h)
        /\ UNCHANGED store

\* Redis is unreachable: the record stays as it is.
SettleLost(h) ==
    /\ store = "redis" /\ handler[h].at \in {"complete", "fail"}
    /\ GoIdle(h)
    /\ UNCHANGED <<store, record, strays>>

-----------------------------------------------------------------------------
\* PEXPIRE removes the record with its time to live.
IdemTick ==
    /\ record' = IF record = None \/ record.ttl = 1 THEN None
                 ELSE [record EXCEPT !.lease = CountDown(@), !.ttl = CountDown(@)]
    /\ handler' = [h \in Handlers |-> [handler[h] EXCEPT !.left = CountDown(@)]]
    /\ UNCHANGED <<store, strays>>

IdemNext ==
    \/ IdemTick
    \/ \E h \in Handlers :
          \/ \E print \in Prints : Begin(h, print) \/ BeginAnswerLost(h, print)
          \/ FinishRequest(h, "complete") \/ FinishRequest(h, "fail") \/ Abandon(h)
          \/ Complete(h) \/ Fail(h) \/ SettleLost(h)

IdemSpec == IdemInit /\ [][IdemNext]_idemVars

-----------------------------------------------------------------------------
(* Properties. *)

\* Of the requests with one key at most one runs inside its lease, in every order
\* of begins, expiries, drops and lost calls, until a request that has outlived
\* its lease fails: that one removes the record of whoever took over (begin, fail).
OneLiveExecution ==
    \A g, h \in Handlers : Live(g) /\ Live(h) /\ g # h => strays

\* A response that may have been replayed is replaced only when it, or the one
\* that replaces it, came from a request that had outlived its lease: otherwise
\* every replay of a key agrees until the record expires (begin, complete).
ReplaysAgree ==
    [][record # None /\ record' # None /\ record.by # None /\ record'.by # record.by
         => record.late \/ record'.late \/ strays]_idemVars

\* A live processing lease keeps other requests with the key out
\* (docs/usage/rozectl-api.md:388, "a live processing lease returns
\* conflict, an expired lease can be reclaimed").
LiveLeaseExcludes ==
    \A g, h \in Handlers : Live(g) /\ Live(h) => g = h

=============================================================================
