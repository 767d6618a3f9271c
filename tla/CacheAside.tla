----------------------------- MODULE CacheAside -----------------------------
(***************************************************************************)
(* RedisCache of roze-cache for one key, over the single flight: readers   *)
(* look into the cache, load what it misses and store it; writers change   *)
(* the database and then invalidate the key.  The value of the database is *)
(* the number of writes so far.  get_or_set_json_option looks again inside *)
(* the flight; get_or_load_consistent_option keeps a value that is no      *)
(* longer fresh, for a load that fails.  Times to live end at any moment.  *)
(***************************************************************************)
EXTENDS SingleFlight

CONSTANTS
    Kinds,       \* SUBSET {"plain", "consistent"}
    Error,       \* what a failed load returns to the callers of a flight
    WriteBound   \* bound: writes

ASSUME CacheConstants ==
    /\ WriteBound \in Nat /\ Error \notin Nat
    /\ Values = (0..WriteBound) \cup {Error}

VARIABLES
    kind,     \* the function that the readers call
    db,       \* the value of the database
    pending,  \* writes that are not yet invalidated
    cache,    \* the value in Redis and whether it is fresh, or None
    reader,   \* where each reader is outside of the single flight's own steps
    copy,     \* the cached value that it keeps
    hand,     \* the value that it has loaded
    before,   \* history: the writes that were invalidated when it began
    raced     \* history: writes whose invalidation failed, or found a reader with
              \* an older value under way

cacheVars == <<kind, db, pending, cache, reader, copy, hand, before, raced>>
allVars == <<flightVars, cacheVars>>

\* out; flight: in do_call; check, store, back: in the loader; reset: after do_call
CacheInit ==
    /\ FlightInit
    /\ kind \in Kinds /\ db = 0 /\ pending = {} /\ cache = None
    /\ reader = [c \in Callers |-> "out"]
    /\ copy = [c \in Callers |-> None] /\ hand = [c \in Callers |-> None]
    /\ before = [c \in Callers |-> {}] /\ raced = {}

Step(c, from, to) == reader[c] = from /\ reader' = [reader EXCEPT ![c] = to]

Invalidated == (1..db) \ pending

-----------------------------------------------------------------------------
(* A read *)

\* The first look: a hit returns at once and changes nothing.
Get(c) ==
    /\ Step(c, "out", "flight")
    /\ cache # None => kind = "consistent" /\ ~cache.fresh
    /\ copy' = [copy EXCEPT ![c] = IF cache = None THEN None ELSE cache.value]
    /\ before' = [before EXCEPT ![c] = Invalidated]
    /\ Enter(c)
    /\ UNCHANGED <<kind, db, pending, cache, hand, raced>>

\* do_call up to the loader; a result ends it.
Fly(c) ==
    /\ reader[c] = "flight"
    /\ \/ Look(c) /\ IF caller'[c].at = "load" THEN Step(c, "flight", "check") ELSE UNCHANGED reader
       \/ Register(c) /\ UNCHANGED reader
    /\ UNCHANGED <<kind, db, pending, cache, copy, hand, before, raced>>

\* get_or_set_json_option looks again before it loads.
Check(c) ==
    /\ kind = "plain" /\ cache # None
    /\ Step(c, "check", "back")
    /\ hand' = [hand EXCEPT ![c] = cache.value]
    /\ UNCHANGED <<flightVars, kind, db, pending, cache, copy, before, raced>>

Load(c) ==
    /\ kind = "plain" => cache = None
    /\ Step(c, "check", "store")
    /\ hand' = [hand EXCEPT ![c] = db]
    /\ UNCHANGED <<flightVars, kind, db, pending, cache, copy, before, raced>>

\* The value that the leader kept, if it has one and stale_on_error is set.
LoadFails(c) ==
    /\ Step(c, "check", "back")
    /\ \E value \in {Error, copy[c]} \ {None} : hand' = [hand EXCEPT ![c] = value]
    /\ UNCHANGED <<flightVars, kind, db, pending, cache, copy, before, raced>>

Store(c) ==
    /\ Step(c, "store", "back")
    /\ cache' = [value |-> hand[c], fresh |-> TRUE]
    /\ UNCHANGED <<flightVars, kind, db, pending, copy, hand, before, raced>>

StoreFails(c) ==
    /\ Step(c, "store", "back")
    /\ hand' = [hand EXCEPT ![c] = Error]
    /\ UNCHANGED <<flightVars, kind, db, pending, cache, copy, before, raced>>

\* The loader returns to do_call.
Back(c) ==
    /\ Step(c, "back", "flight")
    /\ Loaded(c, hand[c])
    /\ hand' = [hand EXCEPT ![c] = None]
    /\ UNCHANGED <<kind, db, pending, cache, copy, before, raced>>

Leave(c) ==
    /\ copy' = [copy EXCEPT ![c] = None]
    /\ hand' = [hand EXCEPT ![c] = None]

\* do_call has returned.
Landed(c) ==
    /\ Step(c, "flight", "reset")
    /\ Return(c)
    /\ Leave(c)
    /\ UNCHANGED <<kind, db, pending, cache, before, raced>>

\* Mutant: the flight is not reset.
ResetFlightForgotten(c) ==
    /\ Step(c, "reset", "out")
    /\ before' = [before EXCEPT ![c] = {}]
    /\ UNCHANGED <<flightVars, kind, db, pending, cache, copy, hand, raced>>

\* flights.reset removes whatever flight the key has now.
ResetFlight(c) ==
    /\ Step(c, "reset", "out")
    /\ Reset
    /\ before' = [before EXCEPT ![c] = {}]
    /\ UNCHANGED <<kind, db, pending, cache, copy, hand, raced>>

\* The reader is dropped at an await; nobody resets the flight.
DropReader(c) ==
    /\ Cancel(c)
    /\ reader' = [reader EXCEPT ![c] = "out"]
    /\ Leave(c)
    /\ before' = [before EXCEPT ![c] = {}]
    /\ UNCHANGED <<kind, db, pending, cache, raced>>

-----------------------------------------------------------------------------
(* Writers, and time *)

Write ==
    /\ db < WriteBound
    /\ db' = db + 1
    /\ pending' = pending \cup {db'}
    /\ UNCHANGED <<flightVars, kind, cache, reader, copy, hand, before, raced>>

Older(v, w) == v \notin {None, Error} /\ v < w

\* A reader under way has a value older than write w, or its flight has.
InHand(c, w) ==
    LET e == IF reader[c] = "reset" THEN entry ELSE caller[c].entry
    IN  \/ Older(copy[c], w) \/ Older(hand[c], w) \/ Older(caller[c].result, w)
        \/ reader[c] # "out" /\ e # None /\ Older(flight[e].result, w)

Invalidate(w) ==
    /\ w \in pending
    /\ pending' = pending \ {w}
    /\ cache' = None
    /\ raced' = IF \E c \in Callers : InHand(c, w) THEN raced \cup {w} ELSE raced
    /\ UNCHANGED <<flightVars, kind, db, reader, copy, hand, before>>

\* del fails, or the writer dies before it.
InvalidateFails(w) ==
    /\ w \in pending
    /\ pending' = pending \ {w}
    /\ raced' = raced \cup {w}
    /\ UNCHANGED <<flightVars, kind, db, cache, reader, copy, hand, before>>

Age ==
    /\ cache # None
    /\ \/ cache' = None
       \/ kind = "consistent" /\ cache' = [cache EXCEPT !.fresh = FALSE]
    /\ UNCHANGED <<flightVars, kind, db, pending, reader, copy, hand, before, raced>>

Read(c) ==
    \/ Get(c) \/ Fly(c) \/ Check(c) \/ Load(c) \/ LoadFails(c) \/ Store(c) \/ StoreFails(c)
    \/ Back(c) \/ Landed(c) \/ ResetFlight(c)

CacheNext ==
    \/ Write \/ Age
    \/ \E w \in pending : Invalidate(w) \/ InvalidateFails(w)
    \/ \E c \in Callers : Read(c) \/ DropReader(c)

CacheSpec == CacheInit /\ [][CacheNext]_allVars

-----------------------------------------------------------------------------
(* Properties. *)

\* A read that begins after a write was invalidated is given, by the cache or by a
\* flight that it joins, an older value only if the invalidation failed, or if
\* another read was under way with an older value in hand when it ran: stale
\* data has no other source, whatever is dropped, fails or expires
\* (docs/usage/rozectl-api.md:878-881, lookup keys are invalidated after the
\* write succeeds; get_or_set_json_option, get_or_load_consistent_option).
StaleHasCause ==
    /\ cache # None => \A w \in Invalidated : Older(cache.value, w) => w \in raced
    /\ \A c \in Callers : \A w \in before[c] :
          Older(caller[c].result, w) \/ Older(copy[c], w) => w \in raced

=============================================================================
