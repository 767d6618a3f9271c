---------------------------- MODULE SingleFlight ----------------------------
(***************************************************************************)
(* SingleFlightGroup of roze-singleflight, for one key: callers that ask   *)
(* for the key while it is loading wait for the one that loads it.  The    *)
(* lock of an entry is held from look-up to decision and from result to    *)
(* notify_waiters, never across an await.  Callers may be dropped where    *)
(* they await.                                                             *)
(***************************************************************************)
EXTENDS Integers, FiniteSets, Option

CONSTANTS
    Callers,
    Values,     \* what a loader may return (an Err is one of them)
    MaxCancels  \* bound: callers dropped in their await

ASSUME FlightConstants ==
    IsFiniteSet(Callers) /\ None \notin Values /\ None \notin Nat /\ MaxCancels \in Nat

VARIABLES
    entry,    \* the entry that the map holds for the key, or None
    flight,   \* FlightState of every entry, and how often it was loaded
    caller,   \* where each caller is, with which entry
    cancels

flightVars == <<entry, flight, caller, cancels>>

\* More entries than callers can hold at once.
Entries == 1..(Cardinality(Callers) + 1)

NewFlight == [running |-> FALSE, result |-> None, loads |-> 0]

Away == [at |-> "out", entry |-> None, result |-> None]

FlightInit ==
    /\ entry = None
    /\ flight = [e \in Entries |-> NewFlight]
    /\ caller = [c \in Callers |-> Away]
    /\ cancels = 0

Unused == {e \in Entries \ {entry} : \A c \in Callers : caller[c].entry # e}

At(c, place) == caller[c].at = place

\* An entry is freed with the last Arc to it, so what it held is forgotten.
FreeEntries ==
    flight' = [e \in Entries |->
                 IF e = entry' \/ \E c \in Callers : caller'[c].entry = e
                 THEN flight[e] ELSE NewFlight]

-----------------------------------------------------------------------------
\* do_call: entry_for.
Enter(c) ==
    /\ At(c, "out")
    /\ IF entry # None
       THEN /\ caller' = [caller EXCEPT ![c].at = "look", ![c].entry = entry]
            /\ UNCHANGED <<entry, flight>>
       ELSE LET fresh == CHOOSE e \in Unused : TRUE
            IN  /\ entry' = fresh
                /\ caller' = [caller EXCEPT ![c].at = "look", ![c].entry = fresh]
                /\ UNCHANGED flight
    /\ UNCHANGED cancels

\* Mutant: a caller loads although another one does.
LookNotRunning(c) ==
    LET e == caller[c].entry
    IN  /\ At(c, "look")
        /\ \/ /\ flight[e].result # None
              /\ caller' = [caller EXCEPT ![c].at = "done", ![c].result = flight[e].result]
              /\ UNCHANGED flight
           \/ /\ flight[e].result = None
              /\ flight' = [flight EXCEPT ![e].running = TRUE]
              /\ caller' = [caller EXCEPT ![c].at = "load"]
        /\ UNCHANGED <<entry, cancels>>

\* The decision under the lock: return the result, load, or wait.
Look(c) ==
    LET e == caller[c].entry
    IN  /\ At(c, "look")
        /\ \/ /\ flight[e].result # None
              /\ caller' = [caller EXCEPT ![c].at = "done", ![c].result = flight[e].result]
              /\ UNCHANGED flight
           \/ /\ flight[e].result = None /\ ~flight[e].running
              /\ flight' = [flight EXCEPT ![e].running = TRUE]
              /\ caller' = [caller EXCEPT ![c].at = "load"]
           \/ /\ flight[e].result = None /\ flight[e].running
              /\ caller' = [caller EXCEPT ![c].at = "decided"]
              /\ UNCHANGED flight
        /\ UNCHANGED <<entry, cancels>>

\* The lock is released; only now does notified() register the caller.
Register(c) ==
    /\ At(c, "decided")
    /\ caller' = [caller EXCEPT ![c].at = "wait"]
    /\ UNCHANGED <<entry, flight, cancels>>

\* The loader returns: the result is stored and the callers that wait are woken.
Loaded(c, value) ==
    LET e == caller[c].entry
    IN  /\ At(c, "load")
        /\ flight' = [flight EXCEPT ![e] = [running |-> FALSE, result |-> value,
                                            loads |-> @.loads + 1]]
        /\ caller' = [d \in Callers |->
                        IF d = c \/ (At(d, "wait") /\ caller[d].entry = e)
                        THEN [caller[d] EXCEPT !.at = "look"] ELSE caller[d]]
        /\ UNCHANGED <<entry, cancels>>

Return(c) ==
    /\ At(c, "done")
    /\ caller' = [caller EXCEPT ![c] = Away]
    /\ UNCHANGED <<entry, cancels>>
    /\ FreeEntries

\* A caller is dropped in its loader or while it waits.
Cancel(c) ==
    /\ At(c, "load") \/ At(c, "wait")
    /\ cancels < MaxCancels
    /\ cancels' = cancels + 1
    /\ caller' = [caller EXCEPT ![c] = Away]
    /\ UNCHANGED entry
    /\ FreeEntries

Reset ==
    /\ entry' = None
    /\ UNCHANGED <<caller, cancels>>
    /\ FreeEntries

-----------------------------------------------------------------------------
DoCall(c) == Look(c) \/ Register(c) \/ (\E value \in Values : Loaded(c, value)) \/ Return(c)

FlightNext == Reset \/ \E c \in Callers : Enter(c) \/ DoCall(c) \/ Cancel(c)

FlightSpec == FlightInit /\ [][FlightNext]_flightVars

\* The runtime polls every task that is ready, and loaders return.
FlightFairness == \A c \in Callers : WF_flightVars(DoCall(c))

FlightFairSpec == FlightSpec /\ FlightFairness

-----------------------------------------------------------------------------
(* Properties. *)

\* An entry is loaded once, and never by two callers at a time, whoever comes, goes,
\* is dropped or resets the key (do_call, the test deduplicates_same_key).
LoadedOnce ==
    \A e \in Entries :
       flight[e].loads + Cardinality({c \in Callers : At(c, "load") /\ caller[c].entry = e}) <= 1

\* Every caller returns (the test deduplicates_same_key joins both of its
\* callers).
CallersReturn == \A c \in Callers : At(c, "look") ~> At(c, "out")

=============================================================================
