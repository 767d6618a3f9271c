---------------------------- MODULE StoresProofs ----------------------------
(***************************************************************************)
(* Theorems about the components around a store, for every value of their  *)
(* constants: SingleFlight and CacheAside (loads and stale entries),       *)
(* NatsConsumer (what the stream still owes), ConfigAdmin (versions and    *)
(* their file) and Saga (compensation).                                    *)
(***************************************************************************)
EXTENDS CacheAside, NatsConsumer, Saga, ConfigAdmin, FiniteSetTheorems, TLAPS

-----------------------------------------------------------------------------
(***************************************************************************)
(* SingleFlight and CacheAside                                             *)
(***************************************************************************)

(* SingleFlight: whoever loads an entry has it running, and alone. *)

Flights == [running: BOOLEAN, result: Values \cup {None}, loads: Nat]
CallerStates ==
    [at: {"out", "look", "decided", "wait", "load", "done"},
     entry: Entries \cup {None}, result: Values \cup {None}]

FlightTypeOK ==
    /\ entry \in Entries \cup {None}
    /\ flight \in [Entries -> Flights]
    /\ caller \in [Callers -> CallerStates]

OneLoader ==
    /\ \A c \in Callers : At(c, "out") <=> caller[c].entry = None
    /\ \A e \in Entries :
          /\ flight[e].running => flight[e].result = None
          /\ flight[e].loads = IF flight[e].result = None THEN 0 ELSE 1
    /\ \A c \in Callers : At(c, "load") => flight[caller[c].entry].running
    /\ \A c, d \in Callers :
          At(c, "load") /\ At(d, "load") /\ caller[c].entry = caller[d].entry => c = d

\* What nobody holds any more is forgotten.
Forgotten ==
    \A e \in Entries :
       flight[e].result = None \/ e = entry \/ \E c \in Callers : caller[c].entry = e

FlightInv == FlightTypeOK /\ OneLoader /\ Forgotten

Places == {"out", "look", "decided", "wait", "load", "done"}

LEMMA SetAt ==
    ASSUME NEW r \in CallerStates, NEW spot \in Places
    PROVE  /\ [r EXCEPT !.at = spot] \in CallerStates
           /\ [r EXCEPT !.at = spot].at = spot
           /\ [r EXCEPT !.at = spot].entry = r.entry
           /\ [r EXCEPT !.at = spot].result = r.result
BY Zenon DEF CallerStates, Places

LEMMA SetEntry ==
    ASSUME NEW r \in CallerStates, NEW e \in Entries \cup {None}
    PROVE  /\ [r EXCEPT !.entry = e] \in CallerStates
           /\ [r EXCEPT !.entry = e].at = r.at
           /\ [r EXCEPT !.entry = e].entry = e
           /\ [r EXCEPT !.entry = e].result = r.result
BY Zenon DEF CallerStates

LEMMA SetResult ==
    ASSUME NEW r \in CallerStates, NEW v \in Values \cup {None}
    PROVE  /\ [r EXCEPT !.result = v] \in CallerStates
           /\ [r EXCEPT !.result = v].at = r.at
           /\ [r EXCEPT !.result = v].entry = r.entry
           /\ [r EXCEPT !.result = v].result = v
BY Zenon DEF CallerStates

\* Caller c comes to a place with an entry and a result, and no other moves.
Moves(c, spot, e, v) ==
    /\ caller' \in [Callers -> CallerStates]
    /\ caller'[c].at = spot /\ caller'[c].entry = e /\ caller'[c].result = v
    /\ \A d \in Callers \ {c} : caller'[d] = caller[d]

LEMMA MovesBy ==
    ASSUME FlightTypeOK, NEW c \in Callers, NEW new \in CallerStates,
           caller' = [caller EXCEPT ![c] = new]
    PROVE  Moves(c, new.at, new.entry, new.result)
BY Zenon DEF FlightTypeOK, Moves

\* An entry is left for a caller that finds none.
LEMMA SomeUnused ==
    ASSUME FlightTypeOK, entry = None
    PROVE  (CHOOSE e \in Unused : TRUE) \in Entries
<1>1. SUFFICES ASSUME Unused = {} PROVE FALSE
  BY <1>1, Zenon DEF Unused
<1> DEFINE f == [c \in Callers |-> caller[c].entry]
           held == {f[c] : c \in Callers}
<1>2. f \in Surjection(Callers, held)
  BY Zenon DEF Surjection
<1>3. IsFiniteSet(held) /\ Cardinality(held) <= Cardinality(Callers)
  BY <1>2, FlightConstants, FS_Surjection, Zenon
<1>4. Cardinality(Callers) \in Nat
  BY FlightConstants, FS_CardinalityType, Zenon
<1>5. Cardinality(Entries) = Cardinality(Callers) + 1
  BY <1>4, FS_Interval DEF Entries
<1>6. Entries \in SUBSET held
  BY <1>1, FlightConstants DEF Unused, Entries
<1>7. Cardinality(Entries) <= Cardinality(held)
  BY <1>3, <1>6, FS_Subset, Zenon
<1>8. Cardinality(held) \in Nat
  BY <1>3, FS_CardinalityType, Zenon
<1> QED
  BY <1>3, <1>4, <1>5, <1>7, <1>8

LEMMA EnterEffect ==
    ASSUME FlightTypeOK, NEW c \in Callers, Enter(c)
    PROVE  /\ entry' \in Entries /\ (entry # None => entry' = entry)
           /\ UNCHANGED flight
           /\ At(c, "out") /\ Moves(c, "look", entry', caller[c].result)
<1>1. entry' \in Entries /\ (entry # None => entry' = entry) /\ UNCHANGED flight /\ At(c, "out")
  BY SomeUnused, Zenon DEF Enter, FlightTypeOK
<1>2. caller' = [caller EXCEPT ![c].at = "look", ![c].entry = entry']
  BY Zenon DEF Enter
<1> DEFINE mid == [caller[c] EXCEPT !.at = "look"]
           new == [mid EXCEPT !.entry = entry']
<1>3. caller[c] \in CallerStates /\ caller[c].result \in Values \cup {None}
  BY Zenon DEF FlightTypeOK, CallerStates
<1>4. mid \in CallerStates /\ mid.at = "look" /\ mid.result = caller[c].result
  BY <1>3, SetAt, Zenon DEF Places
<1>5. caller' = [caller EXCEPT ![c] = new]
  BY <1>2, Zenon DEF FlightTypeOK
<1> HIDE DEF mid
<1>6. new \in CallerStates /\ new.at = "look" /\ new.entry = entry' /\ new.result = caller[c].result
  BY <1>1, <1>4, SetEntry, Zenon
<1> HIDE DEF new
<1>7. Moves(c, "look", entry', caller[c].result)
  BY <1>5, <1>6, MovesBy, Zenon
<1> QED
  BY <1>1, <1>7, Zenon

\* The flight of entry e becomes one with these fields, and no other changes.
FlightIs(e, running, result, loads) ==
    /\ flight' \in [Entries -> Flights]
    /\ flight'[e].running = running /\ flight'[e].result = result /\ flight'[e].loads = loads
    /\ \A f \in Entries \ {e} : flight'[f] = flight[f]

LEMMA FlightIsBy ==
    ASSUME FlightTypeOK, NEW e \in Entries, NEW new \in Flights,
           flight' = [flight EXCEPT ![e] = new]
    PROVE  FlightIs(e, new.running, new.result, new.loads)
BY Zenon DEF FlightTypeOK, FlightIs

\* Callers that are not out hold an entry.
LEMMA Holds ==
    ASSUME FlightInv, NEW c \in Callers
    PROVE  /\ caller[c] \in CallerStates
           /\ caller[c].at \in Places /\ caller[c].result \in Values \cup {None}
           /\ ~At(c, "out") => caller[c].entry \in Entries
BY Zenon DEF FlightInv, FlightTypeOK, OneLoader, CallerStates, Places

LEMMA MoveAt ==
    ASSUME FlightInv, NEW c \in Callers, NEW spot \in Places,
           caller' = [caller EXCEPT ![c].at = spot]
    PROVE  Moves(c, spot, caller[c].entry, caller[c].result)
<1> DEFINE new == [caller[c] EXCEPT !.at = spot]
<1>1. new \in CallerStates /\ new.at = spot /\ new.entry = caller[c].entry
         /\ new.result = caller[c].result
  BY Holds, SetAt, Zenon
<1>2. caller' = [caller EXCEPT ![c] = new] /\ FlightTypeOK
  BY Zenon DEF FlightInv
<1> HIDE DEF new
<1> QED
  BY <1>1, <1>2, MovesBy, Zenon

LEMMA LookEffect ==
    ASSUME FlightInv, NEW c \in Callers, Look(c)
    PROVE  LET e == caller[c].entry
           IN  /\ e \in Entries /\ At(c, "look") /\ UNCHANGED entry
               /\ \/ /\ flight[e].result # None
                     /\ Moves(c, "done", e, flight[e].result) /\ UNCHANGED flight
                  \/ /\ flight[e].result = None /\ ~flight[e].running
                     /\ Moves(c, "load", e, caller[c].result)
                     /\ FlightIs(e, TRUE, None, flight[e].loads)
                  \/ /\ flight[e].result = None /\ flight[e].running
                     /\ Moves(c, "decided", e, caller[c].result) /\ UNCHANGED flight
<1> DEFINE e == caller[c].entry
<1>1. e \in Entries /\ At(c, "look") /\ UNCHANGED entry
  BY Holds, Zenon DEF Look, At
<1>2. flight[e] \in Flights /\ FlightTypeOK
  BY <1>1, Zenon DEF FlightInv, FlightTypeOK
<1>3. CASE flight[e].result # None
  <2> DEFINE mid == [caller[c] EXCEPT !.at = "done"]
             new == [mid EXCEPT !.result = flight[e].result]
  <2>1. caller' = [caller EXCEPT ![c] = new] /\ UNCHANGED flight
    BY <1>3, Zenon DEF Look
  <2>2. mid \in CallerStates /\ mid.at = "done" /\ mid.entry = e
    BY Holds, SetAt, Zenon DEF Places
  <2>3. flight[e].result \in Values \cup {None}
    BY <1>2, Zenon DEF Flights
  <2> HIDE DEF mid
  <2>4. new \in CallerStates /\ new.at = "done" /\ new.entry = e /\ new.result = flight[e].result
    BY <2>2, <2>3, SetResult, Zenon
  <2> HIDE DEF new
  <2>5. Moves(c, "done", e, flight[e].result)
    BY <1>2, <2>1, <2>4, MovesBy, Zenon
  <2> QED
    BY <1>1, <1>3, <2>1, <2>5, Zenon
<1>4. CASE flight[e].result = None /\ ~flight[e].running
  <2> DEFINE new == [flight[e] EXCEPT !.running = TRUE]
  <2>1. flight' = [flight EXCEPT ![e] = new] /\ caller' = [caller EXCEPT ![c].at = "load"]
    BY <1>4, Zenon DEF Look
  <2>2. new \in Flights /\ new.running = TRUE /\ new.result = None /\ new.loads = flight[e].loads
    BY <1>2, <1>4, Zenon DEF Flights
  <2> HIDE DEF new
  <2>3. FlightIs(e, TRUE, None, flight[e].loads)
    BY <1>1, <1>2, <2>1, <2>2, FlightIsBy, Zenon
  <2>4. Moves(c, "load", e, caller[c].result)
    BY <2>1, MoveAt, Zenon DEF Places
  <2> QED
    BY <1>1, <1>4, <2>3, <2>4, Zenon
<1>5. CASE flight[e].result = None /\ flight[e].running
  <2>1. Moves(c, "decided", e, caller[c].result) /\ UNCHANGED flight
    BY <1>5, MoveAt, Zenon DEF Places, Look
  <2> QED
    BY <1>1, <1>5, <2>1, Zenon
<1> QED
  BY <1>3, <1>4, <1>5, Zenon

\* Whoever waits for entry e looks again, and so does the loader.
LEMMA LoadedEffect ==
    ASSUME FlightInv, NEW c \in Callers, NEW v \in Values, Loaded(c, v)
    PROVE  LET e == caller[c].entry
           IN  /\ e \in Entries /\ At(c, "load") /\ UNCHANGED entry
               /\ FlightIs(e, FALSE, v, flight[e].loads + 1)
               /\ caller' \in [Callers -> CallerStates] /\ caller'[c].at = "look"
               /\ \A d \in Callers :
                     /\ caller'[d].entry = caller[d].entry
                     /\ caller'[d].result = caller[d].result
                     /\ \/ caller'[d].at = caller[d].at /\ d # c
                        \/ caller'[d].at = "look" /\ (d = c \/ At(d, "wait"))
<1> DEFINE e == caller[c].entry
           new == [running |-> FALSE, result |-> v, loads |-> flight[e].loads + 1]
           looks(d) == [caller[d] EXCEPT !.at = "look"]
<1>1. e \in Entries /\ At(c, "load") /\ UNCHANGED entry
  BY Holds, Zenon DEF Loaded, At
<1>2. flight[e] \in Flights /\ FlightTypeOK
  BY <1>1, Zenon DEF FlightInv, FlightTypeOK
<1>3. new \in Flights /\ new.running = FALSE /\ new.result = v /\ new.loads = flight[e].loads + 1
  BY <1>2 DEF Flights
<1>4. flight' = [flight EXCEPT ![e] = new]
  BY Zenon DEF Loaded
<1> HIDE DEF new
<1>5. FlightIs(e, FALSE, v, flight[e].loads + 1)
  BY <1>1, <1>2, <1>3, <1>4, FlightIsBy, Zenon
<1>6. \A d \in Callers : /\ looks(d) \in CallerStates /\ looks(d).at = "look"
                         /\ looks(d).entry = caller[d].entry /\ looks(d).result = caller[d].result
                         /\ caller[d] \in CallerStates
  BY Holds, SetAt, Zenon DEF Places
<1> HIDE DEF looks
<1>7. caller' = [d \in Callers |-> IF d = c \/ (At(d, "wait") /\ caller[d].entry = e)
                                  THEN looks(d) ELSE caller[d]]
  BY Zenon DEF Loaded, looks
<1>8. caller' \in [Callers -> CallerStates]
  BY <1>6, <1>7, Zenon
<1>9. \A d \in Callers :
         /\ caller'[d].entry = caller[d].entry
         /\ caller'[d].result = caller[d].result
         /\ \/ caller'[d].at = caller[d].at /\ d # c
            \/ caller'[d].at = "look" /\ (d = c \/ At(d, "wait"))
  BY <1>6, <1>7, Zenon
<1>10. caller'[c].at = "look"
  BY <1>6, <1>7, Zenon
<1> QED
  BY <1>1, <1>5, <1>8, <1>9, <1>10, Zenon

\* An entry that is still held is as it was, any other is as new.
Freed ==
    /\ flight' \in [Entries -> Flights]
    /\ \A e \in Entries : flight'[e] = flight[e] \/ flight'[e] = NewFlight
    /\ \A e \in Entries : \/ flight'[e] = NewFlight \/ e = entry'
                          \/ \E c \in Callers : caller'[c].entry = e
    /\ \A e \in Entries : e = entry' => flight'[e] = flight[e]
    /\ \A c \in Callers : caller'[c].entry \in Entries
                           => flight'[caller'[c].entry] = flight[caller'[c].entry]

LEMMA FreedBy ==
    ASSUME FlightTypeOK, FreeEntries
    PROVE  Freed
<1>1. NewFlight \in Flights
  BY Zenon DEF NewFlight, Flights
<1>2. flight' \in [Entries -> Flights]
  BY <1>1, Zenon DEF FlightTypeOK, FreeEntries
<1> QED
  BY <1>2, Zenon DEF FreeEntries, Freed

LEMMA LeaveEffect ==
    ASSUME FlightInv, NEW c \in Callers, Return(c) \/ Cancel(c)
    PROVE  /\ At(c, "done") \/ At(c, "load") \/ At(c, "wait")
           /\ UNCHANGED entry /\ Moves(c, "out", None, None) /\ Freed
<1>1. /\ At(c, "done") \/ At(c, "load") \/ At(c, "wait")
      /\ UNCHANGED entry /\ caller' = [caller EXCEPT ![c] = Away]
  BY Zenon DEF Return, Cancel
<1>2. Away \in CallerStates /\ Away.at = "out" /\ Away.entry = None /\ Away.result = None
  BY Zenon DEF Away, CallerStates
<1>3. FlightTypeOK /\ FreeEntries
  BY Zenon DEF FlightInv, Return, Cancel
<1>4. Moves(c, "out", None, None)
  BY <1>1, <1>2, <1>3, MovesBy, Zenon
<1> QED
  BY <1>1, <1>3, <1>4, FreedBy, Zenon

LEMMA FlightStepInv == FlightInv /\ [FlightNext]_flightVars => FlightInv'
<1> SUFFICES ASSUME FlightInv, [FlightNext]_flightVars PROVE FlightInv'
  BY Zenon
<1>0. FlightTypeOK /\ OneLoader /\ Forgotten
  BY Zenon DEF FlightInv
<1>1. ASSUME NEW c \in Callers, Enter(c) PROVE FlightInv'
  <2>1. /\ entry' \in Entries /\ (entry # None => entry' = entry) /\ UNCHANGED flight
        /\ At(c, "out") /\ Moves(c, "look", entry', caller[c].result)
    BY <1>0, <1>1, EnterEffect, Zenon
  <2>2. FlightTypeOK'
    BY <1>0, <2>1, Zenon DEF FlightTypeOK, Moves
  <2>3. None \notin Entries
    BY FlightConstants DEF Entries
  <2>4. OneLoader'
    BY <1>0, <2>1, <2>3 DEF OneLoader, Moves, At
  <2>5. Forgotten'
    <3>1. \A d \in Callers : caller[d].entry \in Entries => caller'[d].entry = caller[d].entry
      BY <1>0, <2>1, <2>3, Zenon DEF OneLoader, Moves
    <3> QED
      BY <1>0, <2>1, <2>3, <3>1, Zenon DEF Forgotten
  <2> QED
    BY <2>2, <2>4, <2>5, Zenon DEF FlightInv
<1>2. ASSUME NEW c \in Callers, Look(c) PROVE FlightInv'
  <2> DEFINE e == caller[c].entry
  <2>1. e \in Entries /\ At(c, "look") /\ UNCHANGED entry /\ e # None
    BY <1>0, <1>2, LookEffect, Zenon DEF OneLoader, At
  <2>2. CASE /\ \E spot \in {"done", "decided"} : \E v : Moves(c, spot, e, v)
             /\ UNCHANGED flight
    <3>1. FlightTypeOK'
      BY <1>0, <2>1, <2>2, Zenon DEF FlightTypeOK, Moves
    <3>2. OneLoader'
      BY <1>0, <2>1, <2>2 DEF OneLoader, Moves, At
    <3>3. Forgotten'
      BY <1>0, <2>1, <2>2, Zenon DEF Forgotten, Moves
    <3> QED
      BY <3>1, <3>2, <3>3, Zenon DEF FlightInv
  <2>3. CASE /\ flight[e].result = None /\ ~flight[e].running
             /\ Moves(c, "load", e, caller[c].result)
             /\ FlightIs(e, TRUE, None, flight[e].loads)
    <3>1. FlightTypeOK'
      BY <1>0, <2>1, <2>3, Zenon DEF FlightTypeOK, Moves, FlightIs
    <3>2. \A d \in Callers : At(d, "load") => d # c /\ caller[d].entry # e
      BY <1>0, <2>1, <2>3, Zenon DEF OneLoader, At
    <3>3. \A f \in Entries :
             /\ flight'[f].running => flight'[f].result = None
             /\ flight'[f].loads = IF flight'[f].result = None THEN 0 ELSE 1
      BY <1>0, <2>3 DEF OneLoader, FlightIs
    <3>4. OneLoader'
      BY <1>0, <2>1, <2>3, <3>2, <3>3, Holds DEF OneLoader, Moves, At, FlightIs
    <3>5. Forgotten'
      BY <1>0, <2>1, <2>3 DEF Forgotten, Moves, FlightIs
    <3> QED
      BY <3>1, <3>4, <3>5, Zenon DEF FlightInv
  <2> QED
    BY <1>2, <2>2, <2>3, LookEffect, Zenon
<1>3. ASSUME NEW c \in Callers, Register(c) PROVE FlightInv'
  <2>1. /\ Moves(c, "wait", caller[c].entry, caller[c].result)
        /\ UNCHANGED <<entry, flight>> /\ At(c, "decided")
    BY <1>3, MoveAt, Zenon DEF Register, Places
  <2>2. FlightTypeOK'
    BY <1>0, <2>1, Zenon DEF FlightTypeOK, Moves
  <2>3. OneLoader'
    BY <1>0, <2>1 DEF OneLoader, Moves, At
  <2>4. Forgotten'
    BY <1>0, <2>1, Zenon DEF Forgotten, Moves
  <2> QED
    BY <2>2, <2>3, <2>4, Zenon DEF FlightInv
<1>4. ASSUME NEW c \in Callers, NEW v \in Values, Loaded(c, v) PROVE FlightInv'
  <2> DEFINE e == caller[c].entry
  <2>1. /\ e \in Entries /\ At(c, "load") /\ UNCHANGED entry
        /\ FlightIs(e, FALSE, v, flight[e].loads + 1)
        /\ caller' \in [Callers -> CallerStates] /\ caller'[c].at = "look"
        /\ \A d \in Callers :
              /\ caller'[d].entry = caller[d].entry
              /\ \/ caller'[d].at = caller[d].at /\ d # c
                 \/ caller'[d].at = "look" /\ (d = c \/ At(d, "wait"))
    BY <1>4, LoadedEffect, Zenon
  <2>2. FlightTypeOK'
    BY <1>0, <2>1, Zenon DEF FlightTypeOK, FlightIs
  <2>3. flight[e].loads = 0 /\ v # None
    BY <1>0, <1>4, <2>1, FlightConstants, Zenon DEF OneLoader
  <2>4. \A d \in Callers : caller'[d].at = "load" => d # c /\ At(d, "load") /\ caller[d].entry # e
    BY <1>0, <2>1 DEF OneLoader, At
  <2>5. \A d \in Callers : caller'[d].at = "out" <=> At(d, "out")
    BY <2>1, Zenon DEF At
  <2>6. \A f \in Entries :
           /\ flight'[f].running => flight'[f].result = None
           /\ flight'[f].loads = IF flight'[f].result = None THEN 0 ELSE 1
    BY <1>0, <2>1, <2>3 DEF OneLoader, FlightIs
  <2>7. OneLoader'
    BY <1>0, <2>1, <2>4, <2>5, <2>6, Holds DEF OneLoader, FlightIs, At
  <2>8. Forgotten'
    BY <1>0, <2>1 DEF Forgotten, FlightIs
  <2> QED
    BY <2>2, <2>7, <2>8, Zenon DEF FlightInv
<1>5. ASSUME NEW c \in Callers, Return(c) \/ Cancel(c) PROVE FlightInv'
  <2>1. /\ UNCHANGED entry /\ Moves(c, "out", None, None) /\ Freed
    BY <1>5, LeaveEffect, Zenon
  <2>2. FlightTypeOK'
    BY <1>0, <2>1, Zenon DEF FlightTypeOK, Moves, Freed
  <2>3. OneLoader'
    BY <1>0, <2>1, Holds DEF OneLoader, Moves, At, Freed, NewFlight
  <2>4. Forgotten'
    BY <2>1 DEF Forgotten, Freed, NewFlight
  <2> QED
    BY <2>2, <2>3, <2>4, Zenon DEF FlightInv
<1>6. CASE Reset
  <2>1. Freed /\ entry' = None /\ UNCHANGED caller
    BY <1>0, <1>6, FreedBy, Zenon DEF Reset
  <2>2. FlightTypeOK'
    BY <1>0, <2>1, Zenon DEF FlightTypeOK, Freed
  <2>3. OneLoader'
    BY <1>0, <2>1, Holds DEF OneLoader, At, Freed, NewFlight
  <2>4. Forgotten'
    BY <2>1 DEF Forgotten, Freed, NewFlight
  <2> QED
    BY <2>2, <2>3, <2>4, Zenon DEF FlightInv
<1>7. CASE UNCHANGED flightVars
  BY <1>7, Zenon DEF flightVars, FlightInv, FlightTypeOK, OneLoader, Forgotten, At
<1> QED
  BY <1>1, <1>2, <1>3, <1>4, <1>5, <1>6, <1>7, Zenon DEF FlightNext, DoCall

LEMMA LoadedOnceHolds == FlightInv => LoadedOnce
<1> SUFFICES ASSUME FlightInv, NEW e \in Entries
             PROVE  flight[e].loads
                      + Cardinality({c \in Callers : At(c, "load") /\ caller[c].entry = e}) <= 1
  BY Zenon DEF LoadedOnce
<1> DEFINE loaders == {c \in Callers : At(c, "load") /\ caller[c].entry = e}
<1>1. CASE loaders = {}
  <2>1. Cardinality(loaders) = 0
    BY <1>1, FS_EmptySet, Zenon
  <2>2. flight[e].loads \in {0, 1}
    BY Zenon DEF FlightInv, OneLoader
  <2> QED
    BY <2>1, <2>2
<1>2. ASSUME NEW c \in loaders PROVE flight[e].loads + Cardinality(loaders) <= 1
  <2>1. loaders = {c}
    BY <1>2, Zenon DEF FlightInv, OneLoader
  <2>2. Cardinality(loaders) = 1
    BY <2>1, FS_Singleton, Zenon
  <2>3. flight[e].loads = 0
    BY <1>2, Zenon DEF FlightInv, OneLoader
  <2> QED
    BY <2>2, <2>3
<1> QED
  BY <1>1, <1>2, Zenon

LEMMA FlightInitInv == FlightInit => FlightInv
BY FlightConstants DEF FlightInit, FlightInv, FlightTypeOK, OneLoader, Forgotten, NewFlight, Away, Flights,
   CallerStates, At

\* However callers come, are dropped, or reset the key, an entry is loaded at most
\* once and by one caller at a time (SingleFlightGroup::do_call).
THEOREM LoadsOnce == FlightSpec => []LoadedOnce
BY FlightInitInv, FlightStepInv, LoadedOnceHolds, PTL DEF FlightSpec

-----------------------------------------------------------------------------
(* CacheAside: no value is older than a write that was invalidated, unless  *)
(* the write raced.                                                         *)

Numbers == 0..WriteBound

CacheTypeOK ==
    /\ db \in Numbers /\ pending \in SUBSET (1..db)
    /\ cache # None => cache \in [value: Numbers, fresh: BOOLEAN]
    /\ reader \in [Callers -> {"out", "flight", "check", "store", "back", "reset"}]
    /\ copy \in [Callers -> Numbers \cup {None}]
    /\ hand \in [Callers -> Values \cup {None}]
    /\ before \in [Callers -> SUBSET Invalidated]

\* Where a reader is in the cache, and where in the flight.
ReaderFlies ==
    \A c \in Callers :
       /\ reader[c] \in {"out", "reset"} <=> At(c, "out")
       /\ reader[c] \in {"check", "store", "back"} <=> At(c, "load")
       /\ reader[c] = "store" => hand[c] \in Numbers
       /\ reader[c] = "back" => hand[c] \in Values

\* A flight of the key that has its result is about to be reset.
Ending(c) ==
    reader[c] = "reset" \/ (caller[c].entry = entry /\ caller[c].at \in {"look", "done"})

ResetComes ==
    entry # None /\ flight[entry].result # None => \E c \in Callers : Ending(c)

Watched == Invalidated \ raced

Recent(v, writes) == \A w \in writes : ~Older(v, w)

AllRecent ==
    /\ cache # None => Recent(cache.value, Watched)
    /\ \A c \in Callers : /\ Recent(copy[c], Watched) /\ Recent(hand[c], Watched)
                          /\ Recent(caller[c].result, Watched)
    /\ \A e \in Entries : Recent(flight[e].result, Watched)

CacheInv == FlightInv /\ CacheTypeOK /\ ReaderFlies /\ ResetComes /\ AllRecent

LEMMA ValueSets == /\ Values = Numbers \cup {Error} /\ Error \notin Numbers
                   /\ None \notin Values /\ None # Error
BY CacheConstants, FlightConstants DEF Numbers

LEMMA NothingRecent == \A writes : Recent(None, writes) /\ Recent(Error, writes)
BY Zenon DEF Recent, Older

\* A step that lets no write become watched keeps what is recent so.
LEMMA RecentKept ==
    ASSUME NEW v, Recent(v, Watched), Watched' \subseteq Watched
    PROVE  Recent(v, Watched')
BY Zenon DEF Recent

\* The database is as it was.
SameWrites == UNCHANGED <<db, pending, raced>>

LEMMA SameWatched ==
    ASSUME SameWrites
    PROVE  Watched' = Watched /\ Invalidated' = Invalidated
BY Zenon DEF SameWrites, Watched, Invalidated

-----------------------------------------------------------------------------
(* In the loader *)

InLoader(c) == Check(c) \/ Load(c) \/ LoadFails(c) \/ Store(c) \/ StoreFails(c)

\* The reader takes a value in hand, or stores the one it has.
LEMMA LoaderEffect ==
    ASSUME CacheInv, NEW c \in Callers, InLoader(c)
    PROVE  /\ UNCHANGED <<flightVars, copy, before>> /\ SameWrites
           /\ reader[c] \in {"check", "store"}
           /\ \E to \in {"store", "back"} : \E v \in Values :
                 /\ reader' = [reader EXCEPT ![c] = to]
                 /\ hand' = [hand EXCEPT ![c] = v] /\ Recent(v, Watched)
                 /\ to = "store" => v \in Numbers
           /\ \/ UNCHANGED cache
              \/ /\ cache' \in [value: Numbers, fresh: BOOLEAN]
                 /\ Recent(cache'.value, Watched)
<1>0. /\ hand \in [Callers -> Values \cup {None}] /\ copy[c] \in Numbers \cup {None}
      /\ Recent(copy[c], Watched) /\ Recent(hand[c], Watched)
  BY Zenon DEF CacheInv, CacheTypeOK, AllRecent
<1>1. CASE Check(c)
  <2>1. cache.value \in Values /\ Recent(cache.value, Watched)
    BY <1>1, ValueSets, Zenon DEF Check, CacheInv, CacheTypeOK, AllRecent
  <2> QED
    BY <1>1, <2>1, Zenon DEF Check, Step, SameWrites
<1>2. CASE Load(c)
  <2>1. db \in Values /\ db \in Numbers
    BY ValueSets, Zenon DEF CacheInv, CacheTypeOK
  <2>2. Recent(db, Watched)
    BY <2>1 DEF Recent, Older, Watched, Invalidated, Numbers
  <2> QED
    BY <1>2, <2>1, <2>2, Zenon DEF Load, Step, SameWrites
<1>3. CASE LoadFails(c)
  <2>1. PICK v \in {Error, copy[c]} \ {None} : hand' = [hand EXCEPT ![c] = v]
    BY <1>3, Zenon DEF LoadFails
  <2>2. v \in Values /\ Recent(v, Watched)
    BY <1>0, <2>1, ValueSets, NothingRecent, Zenon
  <2> QED
    BY <1>3, <2>1, <2>2, Zenon DEF LoadFails, Step, SameWrites
<1>4. CASE Store(c)
  <2>1. hand[c] \in Numbers /\ hand[c] \in Values
    BY <1>4, ValueSets, Zenon DEF Store, Step, CacheInv, ReaderFlies
  <2>2. cache' = [value |-> hand[c], fresh |-> TRUE] /\ hand' = hand
    BY <1>4, Zenon DEF Store
  <2>3. cache' \in [value: Numbers, fresh: BOOLEAN] /\ cache'.value = hand[c]
    BY <2>1, <2>2, Zenon
  <2>4. hand' = [hand EXCEPT ![c] = hand[c]]
    BY <1>0, <2>2, Zenon
  <2> QED
    BY <1>0, <1>4, <2>1, <2>3, <2>4, Zenon DEF Store, Step, SameWrites
<1>5. CASE StoreFails(c)
  <2>1. Error \in Values /\ Recent(Error, Watched)
    BY ValueSets, NothingRecent, Zenon
  <2> QED
    BY <1>5, <2>1, Zenon DEF StoreFails, Step, SameWrites
<1> QED
  BY <1>1, <1>2, <1>3, <1>4, <1>5, Zenon DEF InLoader

LEMMA LoaderInv ==
    ASSUME CacheInv, NEW c \in Callers, InLoader(c), FlightInv'
    PROVE  CacheInv'
<1>1. /\ UNCHANGED <<flightVars, copy, before>> /\ SameWrites
      /\ reader[c] \in {"check", "store"}
      /\ \/ UNCHANGED cache
         \/ /\ cache' \in [value: Numbers, fresh: BOOLEAN]
            /\ Recent(cache'.value, Watched)
  BY LoaderEffect, Zenon
<1>2. PICK to \in {"store", "back"}, v \in Values :
         /\ reader' = [reader EXCEPT ![c] = to]
         /\ hand' = [hand EXCEPT ![c] = v] /\ Recent(v, Watched)
         /\ to = "store" => v \in Numbers
  BY LoaderEffect, Zenon
<1>3. Watched' = Watched /\ Invalidated' = Invalidated
  BY <1>1, SameWatched, Zenon
<1>4. CacheTypeOK'
  BY <1>1, <1>2, <1>3, Zenon DEF CacheInv, CacheTypeOK, SameWrites
<1>5. ReaderFlies'
  BY <1>1, <1>2, Zenon DEF CacheInv, CacheTypeOK, ReaderFlies, flightVars, At
<1>6. \A d \in Callers : Ending(d) => Ending(d)'
  BY <1>1, <1>2, Zenon DEF CacheInv, CacheTypeOK, Ending, flightVars
<1>7. ResetComes'
  BY <1>1, <1>6, Zenon DEF CacheInv, ResetComes, flightVars
<1>8. AllRecent'
  <2>1. \A d \in Callers : Recent(hand'[d], Watched)
    BY <1>2, Zenon DEF CacheInv, CacheTypeOK, AllRecent
  <2> QED
    BY <1>1, <1>3, <2>1, Zenon DEF CacheInv, AllRecent, flightVars
<1> QED
  BY <1>4, <1>5, <1>7, <1>8, Zenon DEF CacheInv

-----------------------------------------------------------------------------
(* Writers, and time *)

\* What stays as it is when a reader does nothing.
Readers == UNCHANGED <<flightVars, reader, copy, hand, before>>

LEMMA ReadersKept ==
    ASSUME CacheInv, Readers
    PROVE  ReaderFlies' /\ ResetComes'
<1>1. ReaderFlies'
  BY Zenon DEF CacheInv, Readers, ReaderFlies, flightVars, At
<1>2. \A d \in Callers : Ending(d) => Ending(d)'
  BY Zenon DEF Readers, Ending, flightVars
<1>3. ResetComes'
  BY <1>2, Zenon DEF CacheInv, Readers, ResetComes, flightVars
<1> QED
  BY <1>1, <1>3, Zenon

LEMMA AgeInv ==
    ASSUME CacheInv, Age, FlightInv'
    PROVE  CacheInv'
<1>1. Readers /\ SameWrites
  BY Zenon DEF Age, Readers, SameWrites
<1>2. Watched' = Watched /\ Invalidated' = Invalidated
  BY <1>1, SameWatched, Zenon
<1>3. cache' # None => /\ cache' \in [value: Numbers, fresh: BOOLEAN]
                       /\ cache # None /\ cache'.value = cache.value
  <2>1. CASE cache' = [cache EXCEPT !.fresh = FALSE]
    BY <2>1, Zenon DEF Age, CacheInv, CacheTypeOK
  <2> QED
    BY <2>1, Zenon DEF Age
<1>4. CacheTypeOK'
  BY <1>1, <1>2, <1>3, Zenon DEF CacheInv, CacheTypeOK, Readers, SameWrites
<1>5. AllRecent'
  BY <1>1, <1>2, <1>3, Zenon DEF CacheInv, AllRecent, Readers, flightVars
<1> QED
  BY <1>1, <1>4, <1>5, ReadersKept, Zenon DEF CacheInv

LEMMA WriteInv ==
    ASSUME CacheInv, Write, FlightInv'
    PROVE  CacheInv'
<1>1. Readers /\ UNCHANGED <<cache, raced>>
  BY Zenon DEF Write, Readers
<1>2. db' \in Numbers /\ pending' \in SUBSET (1..db') /\ Invalidated' = Invalidated
  BY CacheConstants DEF Write, CacheInv, CacheTypeOK, Numbers, Invalidated
<1>3. Watched' = Watched
  BY <1>1, <1>2, Zenon DEF Watched
<1>4. CacheTypeOK'
  BY <1>1, <1>2, Zenon DEF CacheInv, CacheTypeOK, Readers
<1>5. AllRecent'
  BY <1>1, <1>3, Zenon DEF CacheInv, AllRecent, Readers, flightVars
<1> QED
  BY <1>1, <1>4, <1>5, ReadersKept, Zenon DEF CacheInv

\* What is invalidated after a write was, or could not be.
LEMMA WritesDone ==
    ASSUME CacheInv, NEW w \in pending, pending' = pending \ {w}, UNCHANGED db
    PROVE  /\ w \in 1..db /\ pending' \in SUBSET (1..db')
           /\ Invalidated' = Invalidated \cup {w}
BY Zenon DEF CacheInv, CacheTypeOK, Invalidated

LEMMA InvalidateFailsInv ==
    ASSUME CacheInv, NEW w \in pending, InvalidateFails(w), FlightInv'
    PROVE  CacheInv'
<1>1. Readers /\ UNCHANGED <<db, cache>> /\ pending' = pending \ {w} /\ raced' = raced \cup {w}
  BY Zenon DEF InvalidateFails, Readers
<1>2. pending' \in SUBSET (1..db') /\ Invalidated' = Invalidated \cup {w}
  BY <1>1, WritesDone, Zenon
<1>3. Watched' \subseteq Watched
  BY <1>1, <1>2, Zenon DEF Watched
<1>4. CacheTypeOK'
  BY <1>1, <1>2, Zenon DEF CacheInv, CacheTypeOK, Readers
<1>5. AllRecent'
  BY <1>1, <1>3, RecentKept, Zenon DEF CacheInv, AllRecent, Readers, flightVars
<1> QED
  BY <1>1, <1>4, <1>5, ReadersKept, Zenon DEF CacheInv

\* What nobody has in hand is nowhere else either.
LEMMA NotInHand ==
    ASSUME CacheInv, NEW w, \A c \in Callers : ~InHand(c, w)
    PROVE  /\ \A c \in Callers : /\ ~Older(copy[c], w) /\ ~Older(hand[c], w)
                                 /\ ~Older(caller[c].result, w)
           /\ \A e \in Entries : ~Older(flight[e].result, w)
<1>1. \A c \in Callers : /\ ~Older(copy[c], w) /\ ~Older(hand[c], w)
                         /\ ~Older(caller[c].result, w)
  BY Zenon DEF InHand
<1>2. ASSUME NEW e \in Entries PROVE ~Older(flight[e].result, w)
  <2>1. e # None /\ None \notin Entries
    BY FlightConstants DEF Entries
  <2>2. CASE flight[e].result = None
    BY <2>2, Zenon DEF Older
  <2>3. ASSUME NEW c \in Callers, caller[c].entry = e PROVE ~Older(flight[e].result, w)
    <3>1. reader[c] \notin {"out", "reset"}
      BY <2>1, <2>3, Zenon DEF CacheInv, FlightInv, OneLoader, ReaderFlies
    <3> QED
      BY <2>1, <2>3, <3>1, Zenon DEF InHand
  <2>4. CASE e = entry /\ flight[e].result # None
    <3>1. PICK c \in Callers : Ending(c)
      BY <2>1, <2>4, Zenon DEF CacheInv, ResetComes
    <3>2. CASE reader[c] = "reset"
      BY <2>1, <2>4, <3>2, Zenon DEF InHand
    <3>3. CASE caller[c].entry = entry
      BY <2>3, <2>4, <3>3, Zenon
    <3> QED
      BY <3>1, <3>2, <3>3, Zenon DEF Ending
  <2> QED
    BY <2>2, <2>3, <2>4, Zenon DEF CacheInv, FlightInv, Forgotten
<1> QED
  BY <1>1, <1>2, Zenon

LEMMA InvalidateInv ==
    ASSUME CacheInv, NEW w \in pending, Invalidate(w), FlightInv'
    PROVE  CacheInv'
<1>1. Readers /\ UNCHANGED db /\ cache' = None /\ pending' = pending \ {w}
  BY Zenon DEF Invalidate, Readers
<1>2. pending' \in SUBSET (1..db') /\ Invalidated' = Invalidated \cup {w}
  BY <1>1, WritesDone, Zenon
<1>3. CacheTypeOK'
  BY <1>1, <1>2, Zenon DEF CacheInv, CacheTypeOK, Readers
<1>4. CASE \E c \in Callers : InHand(c, w)
  <2>1. Watched' \subseteq Watched
    BY <1>2, <1>4, Zenon DEF Watched, Invalidate
  <2> QED
    BY <1>1, <1>3, <2>1, RecentKept, ReadersKept, Zenon DEF CacheInv, AllRecent, Readers, flightVars
<1>5. CASE \A c \in Callers : ~InHand(c, w)
  <2>1. Watched' \subseteq Watched \cup {w}
    BY <1>2, <1>5, Zenon DEF Watched, Invalidate
  <2>2. ASSUME NEW v, Recent(v, Watched), ~Older(v, w) PROVE Recent(v, Watched')
    BY <2>1, <2>2, Zenon DEF Recent
  <2>3. AllRecent'
    BY <1>1, <1>5, <2>2, NotInHand, Zenon DEF CacheInv, AllRecent, Readers, flightVars
  <2> QED
    BY <1>1, <1>3, <2>3, ReadersKept, Zenon DEF CacheInv
<1> QED
  BY <1>4, <1>5, Zenon

-----------------------------------------------------------------------------
(* Into the flight, and out of it *)

LEMMA GetInv ==
    ASSUME CacheInv, NEW c \in Callers, Get(c), FlightInv'
    PROVE  CacheInv'
<1>1. /\ SameWrites /\ UNCHANGED <<cache, hand>>
      /\ reader[c] = "out" /\ reader' = [reader EXCEPT ![c] = "flight"]
      /\ copy' = [copy EXCEPT ![c] = IF cache = None THEN None ELSE cache.value]
      /\ before' = [before EXCEPT ![c] = Invalidated]
  BY Zenon DEF Get, Step, SameWrites
<1>2. /\ entry' \in Entries /\ UNCHANGED flight
      /\ Moves(c, "look", entry', caller[c].result)
  BY EnterEffect, Zenon DEF Get, CacheInv, FlightInv
<1>3. Watched' = Watched /\ Invalidated' = Invalidated
  BY <1>1, SameWatched, Zenon
<1>4. CacheTypeOK'
  BY <1>1, <1>3, Zenon DEF CacheInv, CacheTypeOK, SameWrites
<1>5. ReaderFlies'
  BY <1>1, <1>2 DEF CacheInv, CacheTypeOK, ReaderFlies, Moves, At
<1>6. ResetComes'
  BY <1>2, Zenon DEF ResetComes, Ending, Moves
<1>7. AllRecent'
  <2>1. \A d \in Callers : Recent(copy'[d], Watched)
    BY <1>1, NothingRecent, Zenon DEF CacheInv, CacheTypeOK, AllRecent
  <2>2. \A d \in Callers : caller'[d].result = caller[d].result
    BY <1>2, Zenon DEF Moves
  <2> QED
    BY <1>1, <1>2, <1>3, <2>1, <2>2, Zenon DEF CacheInv, AllRecent
<1> QED
  BY <1>4, <1>5, <1>6, <1>7, Zenon DEF CacheInv

LEMMA RegisterInv ==
    ASSUME CacheInv, NEW c \in Callers, Register(c), UNCHANGED cacheVars, FlightInv'
    PROVE  CacheInv'
<1>1. /\ SameWrites /\ UNCHANGED <<cache, hand, reader, copy, before>>
  BY Zenon DEF cacheVars, SameWrites
<1>2. /\ Moves(c, "wait", caller[c].entry, caller[c].result) /\ At(c, "decided")
      /\ UNCHANGED <<entry, flight>>
  BY MoveAt, Zenon DEF Register, Places, CacheInv
<1>3. Watched' = Watched /\ Invalidated' = Invalidated
  BY <1>1, SameWatched, Zenon
<1>4. CacheTypeOK'
  BY <1>1, <1>3, Zenon DEF CacheInv, CacheTypeOK, SameWrites
<1>5. ReaderFlies'
  BY <1>1, <1>2, Zenon DEF CacheInv, ReaderFlies, Moves, At
<1>6. \A d \in Callers : Ending(d) => Ending(d)'
  BY <1>1, <1>2, Zenon DEF Ending, Moves, At
<1>7. ResetComes'
  BY <1>2, <1>6, Zenon DEF CacheInv, ResetComes
<1>8. AllRecent'
  <2>1. \A d \in Callers : caller'[d].result = caller[d].result
    BY <1>2, Zenon DEF Moves
  <2> QED
    BY <1>1, <1>2, <1>3, <2>1, Zenon DEF CacheInv, AllRecent
<1> QED
  BY <1>4, <1>5, <1>7, <1>8, Zenon DEF CacheInv

LEMMA LookInv ==
    ASSUME CacheInv, NEW c \in Callers, Look(c), reader[c] = "flight",
           IF caller'[c].at = "load" THEN Step(c, "flight", "check") ELSE UNCHANGED reader,
           UNCHANGED <<kind, db, pending, cache, copy, hand, before, raced>>, FlightInv'
    PROVE  CacheInv'
<1> DEFINE e == caller[c].entry
<1>0. FlightInv
  BY Zenon DEF CacheInv
<1>1. SameWrites
  BY Zenon DEF SameWrites
<1>2. Watched' = Watched /\ Invalidated' = Invalidated
  BY <1>1, SameWatched, Zenon
<1>3. e \in Entries /\ At(c, "look") /\ UNCHANGED entry
  BY <1>0, LookEffect, Zenon
<1>4. reader' \in [Callers -> {"out", "flight", "check", "store", "back", "reset"}]
  BY Zenon DEF Step, CacheInv, CacheTypeOK
<1>5. CacheTypeOK'
  BY <1>2, <1>4, Zenon DEF CacheInv, CacheTypeOK
<1>6. CASE /\ flight[e].result # None
           /\ Moves(c, "done", e, flight[e].result) /\ UNCHANGED flight
  <2>1. UNCHANGED reader
    BY <1>6, Zenon DEF Moves
  <2>2. ReaderFlies'
    BY <1>3, <1>6, <2>1, Zenon DEF CacheInv, ReaderFlies, Moves, At
  <2>3. \A d \in Callers : Ending(d) => Ending(d)'
    BY <1>3, <1>6, <2>1, Zenon DEF Ending, Moves
  <2>4. ResetComes'
    BY <1>3, <1>6, <2>3, Zenon DEF CacheInv, ResetComes
  <2>5. \A d \in Callers : Recent(caller'[d].result, Watched)
    BY <1>3, <1>6, Zenon DEF CacheInv, AllRecent, Moves
  <2>6. AllRecent'
    BY <1>2, <1>6, <2>5, Zenon DEF CacheInv, AllRecent
  <2> QED
    BY <1>5, <2>2, <2>4, <2>6, Zenon DEF CacheInv
<1>7. CASE /\ flight[e].result = None /\ ~flight[e].running
           /\ Moves(c, "load", e, caller[c].result)
           /\ FlightIs(e, TRUE, None, flight[e].loads)
  <2>1. reader' = [reader EXCEPT ![c] = "check"]
    BY <1>7, Zenon DEF Moves, Step
  <2>2. ReaderFlies'
    BY <1>3, <1>7, <2>1 DEF CacheInv, CacheTypeOK, ReaderFlies, Moves, At
  <2>3. \A f \in Entries : flight'[f].result = flight[f].result
    BY <1>7, Zenon DEF FlightIs
  <2>4. \A d \in Callers : Ending(d) => Ending(d)' \/ entry = e
    BY <1>3, <1>7, <2>1, Zenon DEF Ending, Moves, CacheInv, CacheTypeOK
  <2>5. ResetComes'
    BY <1>3, <1>7, <2>3, <2>4, Zenon DEF CacheInv, ResetComes, FlightInv, FlightTypeOK
  <2>6. \A d \in Callers : caller'[d].result = caller[d].result
    BY <1>7, Zenon DEF Moves
  <2>7. AllRecent'
    BY <1>2, <2>3, <2>6, Zenon DEF CacheInv, AllRecent
  <2> QED
    BY <1>5, <2>2, <2>5, <2>7, Zenon DEF CacheInv
<1>8. CASE /\ flight[e].result = None
           /\ Moves(c, "decided", e, caller[c].result) /\ UNCHANGED flight
  <2>1. UNCHANGED reader
    BY <1>8, Zenon DEF Moves
  <2>2. ReaderFlies'
    BY <1>3, <1>8, <2>1, Zenon DEF CacheInv, ReaderFlies, Moves, At
  <2>3. \A d \in Callers : Ending(d) => Ending(d)' \/ entry = e
    BY <1>3, <1>8, <2>1, Zenon DEF Ending, Moves
  <2>4. ResetComes'
    BY <1>3, <1>8, <2>3, Zenon DEF CacheInv, ResetComes
  <2>5. \A d \in Callers : caller'[d].result = caller[d].result
    BY <1>8, Zenon DEF Moves
  <2>6. AllRecent'
    BY <1>2, <1>8, <2>5, Zenon DEF CacheInv, AllRecent
  <2> QED
    BY <1>5, <2>2, <2>4, <2>6, Zenon DEF CacheInv
<1> QED
  BY <1>0, <1>6, <1>7, <1>8, LookEffect, Zenon

LEMMA BackInv ==
    ASSUME CacheInv, NEW c \in Callers, Back(c), FlightInv'
    PROVE  CacheInv'
<1> DEFINE e == caller[c].entry
<1>1. /\ SameWrites /\ UNCHANGED <<cache, copy, before>>
      /\ reader[c] = "back" /\ reader' = [reader EXCEPT ![c] = "flight"]
      /\ hand' = [hand EXCEPT ![c] = None]
  BY Zenon DEF Back, Step, SameWrites
<1>2. hand[c] \in Values
  BY <1>1, Zenon DEF CacheInv, ReaderFlies
<1>3. /\ e \in Entries /\ At(c, "load") /\ UNCHANGED entry
      /\ FlightIs(e, FALSE, hand[c], flight[e].loads + 1)
      /\ caller'[c].at = "look"
      /\ \A d \in Callers :
            /\ caller'[d].entry = caller[d].entry
            /\ caller'[d].result = caller[d].result
            /\ \/ caller'[d].at = caller[d].at /\ d # c
               \/ caller'[d].at = "look" /\ (d = c \/ At(d, "wait"))
  BY <1>2, LoadedEffect, Zenon DEF Back, CacheInv
<1>4. Watched' = Watched /\ Invalidated' = Invalidated
  BY <1>1, SameWatched, Zenon
<1>5. CacheTypeOK'
  BY <1>1, <1>4, Zenon DEF CacheInv, CacheTypeOK, SameWrites
<1>6. ReaderFlies'
  BY <1>1, <1>3 DEF CacheInv, CacheTypeOK, ReaderFlies, At
<1>7. \A d \in Callers : Ending(d) => Ending(d)'
  BY <1>1, <1>3, Zenon DEF CacheInv, CacheTypeOK, Ending, At
<1>8. ResetComes'
  <2>1. CASE entry = e
    BY <1>3, <2>1, Zenon DEF ResetComes, Ending
  <2>2. CASE entry # e
    BY <1>3, <1>7, <2>2, Zenon DEF CacheInv, ResetComes, FlightIs, FlightInv, FlightTypeOK
  <2> QED
    BY <2>1, <2>2, Zenon
<1>9. AllRecent'
  <2>1. \A d \in Callers : Recent(hand'[d], Watched)
    BY <1>1, NothingRecent, Zenon DEF CacheInv, CacheTypeOK, AllRecent
  <2>2. \A f \in Entries : Recent(flight'[f].result, Watched)
    BY <1>3, Zenon DEF CacheInv, AllRecent, FlightIs
  <2> QED
    BY <1>1, <1>3, <1>4, <2>1, <2>2, Zenon DEF CacheInv, AllRecent
<1> QED
  BY <1>5, <1>6, <1>8, <1>9, Zenon DEF CacheInv

\* A result that outlives a departure was there before, or the entry is empty.
LEMMA FreedRecent ==
    ASSUME CacheInv, Freed, NEW e \in Entries
    PROVE  Recent(flight'[e].result, Watched)
<1>1. CASE flight'[e] = flight[e]
  BY <1>1, Zenon DEF CacheInv, AllRecent
<1>2. CASE flight'[e] = NewFlight
  BY <1>2, NothingRecent DEF NewFlight
<1> QED
  BY <1>1, <1>2, Zenon DEF Freed

\* A caller leaves: its reader returns, or is dropped.
LEMMA LeavesInv ==
    ASSUME CacheInv, NEW c \in Callers, Return(c) \/ Cancel(c), Leave(c),
           UNCHANGED <<kind, db, pending, cache, raced>>,
           NEW spot \in {"out", "reset"}, reader' = [reader EXCEPT ![c] = spot],
           before' \in [Callers -> SUBSET Invalidated],
           spot = "reset" \/ Cancel(c), FlightInv'
    PROVE  CacheInv'
<1>1. SameWrites
  BY Zenon DEF SameWrites
<1>2. Watched' = Watched /\ Invalidated' = Invalidated
  BY <1>1, SameWatched, Zenon
<1>3. /\ At(c, "done") \/ At(c, "load") \/ At(c, "wait")
      /\ UNCHANGED entry /\ Moves(c, "out", None, None) /\ Freed
  BY LeaveEffect, Zenon DEF CacheInv
<1>4. /\ copy' = [copy EXCEPT ![c] = None] /\ hand' = [hand EXCEPT ![c] = None]
  BY Zenon DEF Leave
<1>5. CacheTypeOK'
  BY <1>2, <1>4, Zenon DEF CacheInv, CacheTypeOK
<1>6. ReaderFlies'
  BY <1>3, <1>4 DEF CacheInv, CacheTypeOK, ReaderFlies, Moves, At
<1>7. ResetComes'
  <2>1. CASE spot = "reset"
    BY <2>1, Zenon DEF CacheInv, CacheTypeOK, ResetComes, Ending
  <2>2. CASE Cancel(c)
    <3>1. At(c, "load") \/ At(c, "wait")
      BY <2>2, Zenon DEF Cancel
    <3>2. ~Ending(c)
      BY <3>1, Zenon DEF Ending, CacheInv, ReaderFlies, At
    <3>3. \A d \in Callers : Ending(d) => Ending(d)'
      BY <1>3, <3>2, Zenon DEF Ending, Moves, CacheInv, CacheTypeOK
    <3>4. entry \in Entries => flight'[entry] = flight[entry]
      BY <1>3, Zenon DEF Freed
    <3> QED
      BY <1>3, <3>3, <3>4, Zenon DEF CacheInv, ResetComes, FlightInv, FlightTypeOK
  <2> QED
    BY <2>1, <2>2, Zenon
<1>8. AllRecent'
  <2>1. \A d \in Callers : Recent(copy'[d], Watched) /\ Recent(hand'[d], Watched)
    BY <1>4, NothingRecent, Zenon DEF CacheInv, CacheTypeOK, AllRecent
  <2>2. \A d \in Callers : Recent(caller'[d].result, Watched)
    BY <1>3, NothingRecent, Zenon DEF CacheInv, AllRecent, Moves
  <2>3. \A e \in Entries : Recent(flight'[e].result, Watched)
    BY <1>3, FreedRecent, Zenon
  <2> QED
    BY <1>2, <2>1, <2>2, <2>3, Zenon DEF CacheInv, AllRecent
<1> QED
  BY <1>5, <1>6, <1>7, <1>8, Zenon DEF CacheInv

LEMMA LandedInv ==
    ASSUME CacheInv, NEW c \in Callers, Landed(c), FlightInv'
    PROVE  CacheInv'
<1>1. /\ Return(c) /\ Leave(c) /\ reader' = [reader EXCEPT ![c] = "reset"]
      /\ UNCHANGED <<kind, db, pending, cache, before, raced>>
  BY Zenon DEF Landed, Step
<1>2. before' \in [Callers -> SUBSET Invalidated]
  BY <1>1, Zenon DEF CacheInv, CacheTypeOK
<1> QED
  BY <1>1, <1>2, LeavesInv, Zenon

LEMMA DropReaderInv ==
    ASSUME CacheInv, NEW c \in Callers, DropReader(c), FlightInv'
    PROVE  CacheInv'
<1>1. /\ Cancel(c) /\ Leave(c) /\ reader' = [reader EXCEPT ![c] = "out"]
      /\ before' = [before EXCEPT ![c] = {}]
      /\ UNCHANGED <<kind, db, pending, cache, raced>>
  BY Zenon DEF DropReader
<1>2. before' \in [Callers -> SUBSET Invalidated]
  BY <1>1, Zenon DEF CacheInv, CacheTypeOK
<1> QED
  BY <1>1, <1>2, LeavesInv, Zenon

LEMMA ResetFlightInv ==
    ASSUME CacheInv, NEW c \in Callers, ResetFlight(c), FlightInv'
    PROVE  CacheInv'
<1>1. /\ SameWrites /\ UNCHANGED <<cache, copy, hand, caller>>
      /\ reader[c] = "reset" /\ reader' = [reader EXCEPT ![c] = "out"]
      /\ before' = [before EXCEPT ![c] = {}] /\ entry' = None
  BY Zenon DEF ResetFlight, Step, Reset, SameWrites
<1>2. Watched' = Watched /\ Invalidated' = Invalidated
  BY <1>1, SameWatched, Zenon
<1>3. Freed
  BY <1>1, FreedBy, Zenon DEF ResetFlight, Reset, CacheInv, FlightInv
<1>4. CacheTypeOK'
  BY <1>1, <1>2, Zenon DEF CacheInv, CacheTypeOK, SameWrites
<1>5. ReaderFlies'
  BY <1>1, Zenon DEF CacheInv, CacheTypeOK, ReaderFlies, At
<1>6. ResetComes'
  BY <1>1, Zenon DEF ResetComes
<1>7. \A e \in Entries : Recent(flight'[e].result, Watched)
  BY <1>3, FreedRecent, Zenon
<1>8. AllRecent'
  BY <1>1, <1>2, <1>7, Zenon DEF CacheInv, AllRecent
<1> QED
  BY <1>4, <1>5, <1>6, <1>8, Zenon DEF CacheInv

-----------------------------------------------------------------------------
(* Every step *)

\* A step of the cache is a step of the single flight, or none: the loader brings
\* back one of the flight's values.
LEMMA CacheFlies ==
    ASSUME CacheInv, [CacheNext]_allVars
    PROVE  [FlightNext]_flightVars
<1>1. CASE UNCHANGED allVars \/ Write \/ Age
  BY <1>1, Zenon DEF allVars, Write, Age
<1>2. ASSUME NEW w \in pending, Invalidate(w) \/ InvalidateFails(w)
      PROVE  [FlightNext]_flightVars
  BY <1>2, Zenon DEF Invalidate, InvalidateFails
<1>3. ASSUME NEW c \in Callers, InLoader(c)
      PROVE  [FlightNext]_flightVars
  BY <1>3, Zenon DEF InLoader, Check, Load, LoadFails, Store, StoreFails
<1>4. ASSUME NEW c \in Callers, Get(c) \/ Fly(c) \/ Landed(c) \/ ResetFlight(c) \/ DropReader(c)
      PROVE  FlightNext
  BY <1>4, Zenon DEF Get, Fly, Landed, ResetFlight, DropReader, FlightNext, DoCall
<1>5. ASSUME NEW c \in Callers, Back(c)
      PROVE  FlightNext
  <2>1. hand[c] \in Values
    BY <1>5, Zenon DEF Back, Step, CacheInv, ReaderFlies
  <2> QED
    BY <1>5, <2>1, Zenon DEF Back, FlightNext, DoCall
<1> QED
  BY <1>1, <1>2, <1>3, <1>4, <1>5, Zenon DEF CacheNext, Read, InLoader

LEMMA FlyInv ==
    ASSUME CacheInv, NEW c \in Callers, Fly(c), FlightInv'
    PROVE  CacheInv'
<1>1. CASE Register(c) /\ UNCHANGED reader
  BY <1>1, RegisterInv, Zenon DEF Fly, cacheVars
<1>2. CASE Look(c) /\ IF caller'[c].at = "load" THEN Step(c, "flight", "check") ELSE UNCHANGED reader
  BY <1>2, LookInv, Zenon DEF Fly
<1> QED
  BY <1>1, <1>2, Zenon DEF Fly

LEMMA CacheStutters ==
    ASSUME CacheInv, UNCHANGED allVars
    PROVE  CacheInv'
<1>1. Readers /\ SameWrites /\ UNCHANGED cache
  BY Zenon DEF allVars, cacheVars, Readers, SameWrites
<1>2. Watched' = Watched /\ Invalidated' = Invalidated
  BY <1>1, SameWatched, Zenon
<1>3. CacheTypeOK'
  BY <1>1, <1>2, Zenon DEF CacheInv, CacheTypeOK, Readers, SameWrites
<1>4. AllRecent'
  BY <1>1, <1>2, Zenon DEF CacheInv, AllRecent, Readers, flightVars
<1>5. FlightInv'
  BY FlightStepInv, Zenon DEF CacheInv, allVars
<1> QED
  BY <1>1, <1>3, <1>4, <1>5, ReadersKept, Zenon DEF CacheInv

LEMMA CacheStepInv == CacheInv /\ [CacheNext]_allVars => CacheInv'
<1> SUFFICES ASSUME CacheInv, [CacheNext]_allVars PROVE CacheInv'
  BY Zenon
<1>1. FlightInv'
  BY CacheFlies, FlightStepInv, Zenon DEF CacheInv
<1>2. CASE UNCHANGED allVars
  BY <1>2, CacheStutters, Zenon
<1>3. CASE Write \/ Age
  BY <1>1, <1>3, WriteInv, AgeInv, Zenon
<1>4. ASSUME NEW w \in pending, Invalidate(w) \/ InvalidateFails(w) PROVE CacheInv'
  BY <1>1, <1>4, InvalidateInv, InvalidateFailsInv, Zenon
<1>5. ASSUME NEW c \in Callers, InLoader(c) PROVE CacheInv'
  BY <1>1, <1>5, LoaderInv, Zenon
<1>6. ASSUME NEW c \in Callers, Get(c) \/ Fly(c) \/ Back(c) PROVE CacheInv'
  BY <1>1, <1>6, GetInv, FlyInv, BackInv, Zenon
<1>7. ASSUME NEW c \in Callers, Landed(c) \/ ResetFlight(c) \/ DropReader(c) PROVE CacheInv'
  BY <1>1, <1>7, LandedInv, ResetFlightInv, DropReaderInv, Zenon
<1> QED
  BY <1>2, <1>3, <1>4, <1>5, <1>6, <1>7, Zenon DEF CacheNext, Read, InLoader

LEMMA CacheInitInv == CacheInit => CacheInv
<1> SUFFICES ASSUME CacheInit PROVE CacheInv
  BY Zenon
<1>1. FlightInv
  BY FlightInitInv, Zenon DEF CacheInit
<1>2. CacheTypeOK
  BY CacheConstants DEF CacheInit, CacheTypeOK, Numbers, Invalidated
<1>3. ReaderFlies /\ ResetComes
  BY Zenon DEF CacheInit, FlightInit, Away, ReaderFlies, ResetComes, At
<1>4. AllRecent
  BY NothingRecent, Zenon DEF CacheInit, FlightInit, Away, NewFlight, AllRecent
<1> QED
  BY <1>1, <1>2, <1>3, <1>4, Zenon DEF CacheInv

\* Whatever the readers, the writers and the times to live do, a value older than
\* an invalidated write has a cause: an invalidation that failed, or a reader
\* that had the older value in hand when it ran (get_or_set_json_option,
\* get_or_load_consistent_option).
THEOREM StaleOnlyWithCause == CacheSpec => []StaleHasCause
<1>1. CacheInv => StaleHasCause
  BY Zenon DEF CacheInv, AllRecent, CacheTypeOK, Recent, Watched, StaleHasCause
<1> QED
  BY <1>1, CacheInitInv, CacheStepInv, PTL DEF CacheSpec

\* The cache uses the single flight as it is meant to be used: a reader's steps
\* in it are steps of SingleFlight, reset and drop included.
THEOREM CacheIsAFlight == CacheSpec => FlightSpec
<1>1. CacheInit => FlightInit
  BY Zenon DEF CacheInit
<1>2. CacheInv /\ [CacheNext]_allVars => [FlightNext]_flightVars
  BY CacheFlies, Zenon
<1> QED
  BY <1>1, <1>2, CacheInitInv, CacheStepInv, PTL DEF CacheSpec, FlightSpec

\* So each entry is loaded at most once, by one reader, whatever the cache above
\* the flight does (get_or_load_consistent_option over SingleFlightGroup::do_call).
THEOREM CacheLoadsOnce == CacheSpec => []LoadedOnce
BY CacheIsAFlight, LoadsOnce, PTL

-----------------------------------------------------------------------------
(***************************************************************************)
(* NatsConsumer                                                            *)
(***************************************************************************)

(* NatsConsumer: only what a handler has finished is ever settled. *)

StreamEntries == [id: Messages, attempt: Nat, state: {"ready", "sent", "acked"}]

NatsTypeOK ==
    /\ stream \in Seq(StreamEntries)
    /\ channel \in Seq(Nat) /\ \A i \in DOMAIN channel : channel[i] \in DOMAIN stream
    /\ work # None => /\ work \in [e: Nat, at: {"run", "ack", "nak", "recover"}]
                      /\ work.e \in DOMAIN stream

SettledDone ==
    /\ \A e \in DOMAIN stream : stream[e].state = "acked" => stream[e].id \in done
    /\ WorkAt("ack") => stream[work.e].id \in done

NatsInv == NatsTypeOK /\ SettledDone

\* What every change of the stream keeps: entries stay where they are, and of a new
\* entry, or one that was not settled, at most the one named is settled.
Grows(settled) ==
    /\ stream' \in Seq(StreamEntries) /\ DOMAIN stream \subseteq DOMAIN stream'
    /\ \A e \in DOMAIN stream : stream'[e].id = stream[e].id
    /\ \A e \in DOMAIN stream' : stream'[e].state = "acked"
          => e \in DOMAIN stream /\ (stream[e].state = "acked" \/ e \in settled)

LEMMA PublishGrows ==
    ASSUME NatsTypeOK, NEW id \in Messages, NEW tries \in Nat, PublishNats(id, tries)
    PROVE  Grows({})
<1> DEFINE new == [id |-> id, attempt |-> tries, state |-> "ready"]
<1>1. new \in StreamEntries /\ new.state # "acked" /\ stream' = Append(stream, new)
  BY Zenon DEF StreamEntries, PublishNats
<1> HIDE DEF new
<1> QED
  BY <1>1 DEF Grows, NatsTypeOK

LEMMA StateGrows ==
    ASSUME NatsTypeOK, NEW e \in DOMAIN stream, NEW state \in {"ready", "sent", "acked"},
           stream' = [stream EXCEPT ![e].state = state]
    PROVE  Grows({e}) /\ (state # "acked" \/ stream[e].state = "acked" => Grows({}))
<1> DEFINE new == [stream[e] EXCEPT !.state = state]
<1>1. stream[e] \in StreamEntries
  BY DEF NatsTypeOK
<1>2. new \in StreamEntries /\ new.state = state /\ new.id = stream[e].id
  BY <1>1, Zenon DEF StreamEntries
<1>3. stream' = [stream EXCEPT ![e] = new]
  BY Zenon
<1> HIDE DEF new
<1>4. stream' \in Seq(StreamEntries) /\ DOMAIN stream' = DOMAIN stream
  BY <1>2, <1>3 DEF NatsTypeOK
<1>5. stream'[e] = new /\ \A f \in DOMAIN stream \ {e} : stream'[f] = stream[f]
  BY <1>3, Zenon DEF NatsTypeOK
<1> QED
  BY <1>2, <1>4, <1>5, Zenon DEF Grows

LEMMA SameGrows ==
    ASSUME NatsTypeOK, UNCHANGED stream
    PROVE  Grows({})
BY Zenon DEF Grows, NatsTypeOK

\* A step is sound when the stream grows and the delivery at hand is one of it.
LEMMA NatsKeeps ==
    ASSUME NatsInv, NEW settled \in SUBSET DOMAIN stream, Grows(settled),
           done \subseteq done', \A e \in settled : stream[e].id \in done',
           channel' \in Seq(Nat), \A i \in DOMAIN channel' : channel'[i] \in DOMAIN stream,
           work' # None => /\ work' \in [e: Nat, at: {"run", "ack", "nak", "recover"}]
                           /\ work'.e \in DOMAIN stream
                           /\ work'.at = "ack" => stream[work'.e].id \in done'
    PROVE  NatsInv'
<1>1. NatsTypeOK'
  BY Zenon DEF NatsTypeOK, NatsInv, Grows
<1>2. SettledDone'
  BY Zenon DEF NatsTypeOK, SettledDone, NatsInv, Grows, WorkAt
<1> QED
  BY <1>1, <1>2, Zenon DEF NatsInv

LEMMA NatsStepInv == NatsInv /\ [NatsNext]_natsVars => NatsInv'
<1> SUFFICES ASSUME NatsInv, [NatsNext]_natsVars PROVE NatsInv'
  BY Zenon
<1>0. /\ NatsTypeOK /\ {} \in SUBSET DOMAIN stream
      /\ channel \in Seq(Nat) /\ \A i \in DOMAIN channel : channel[i] \in DOMAIN stream
      /\ work # None => /\ work \in [e: Nat, at: {"run", "ack", "nak", "recover"}]
                        /\ work.e \in DOMAIN stream
                        /\ work.at = "ack" => stream[work.e].id \in done
  BY Zenon DEF NatsInv, NatsTypeOK, SettledDone, WorkAt
<1>1. ASSUME NEW id \in Messages, PublishMessage(id) \/ ReplayLetter(id) \/ PurgeLetter(id)
      PROVE  NatsInv'
  <2>1. Grows({}) /\ UNCHANGED <<channel, work, done>>
    BY <1>0, <1>1, PublishGrows, SameGrows, Zenon DEF PublishMessage, ReplayLetter, PurgeLetter
  <2> QED
    BY <1>0, <2>1, NatsKeeps, Zenon
<1>2. ASSUME NEW e \in DOMAIN stream, Forward(e) PROVE NatsInv'
  <2>1. Grows({})
    BY <1>0, <1>2, StateGrows, Zenon DEF Forward
  <2>2. channel' \in Seq(Nat) /\ \A i \in DOMAIN channel' : channel'[i] \in DOMAIN stream
    <3> DEFINE rest == IF Len(channel) = Capacity THEN Tail(channel) ELSE channel
    <3>1. rest \in Seq(Nat) /\ \A i \in DOMAIN rest : rest[i] \in DOMAIN stream
      BY <1>0, NatsConstants
    <3>2. channel' = Append(rest, e) /\ e \in Nat
      BY <1>0, <1>2 DEF Forward, NatsTypeOK
    <3> HIDE DEF rest
    <3> QED
      BY <1>2, <3>1, <3>2
  <2> QED
    BY <1>0, <1>2, <2>1, <2>2, NatsKeeps, Zenon DEF Forward
<1>3. ASSUME NEW e \in DOMAIN stream, AckWaitEnds(e) PROVE NatsInv'
  <2>1. Grows({})
    BY <1>0, <1>3, StateGrows, Zenon DEF AckWaitEnds
  <2> QED
    BY <1>0, <1>3, <2>1, NatsKeeps, Zenon DEF AckWaitEnds
<1>4. CASE Receive
  <2>1. Grows({})
    BY <1>0, <1>4, SameGrows, Zenon DEF Receive
  <2>2. /\ channel' \in Seq(Nat) /\ \A i \in DOMAIN channel' : channel'[i] \in DOMAIN stream
        /\ Head(channel) \in Nat /\ Head(channel) \in DOMAIN stream
    BY <1>0, <1>4 DEF Receive
  <2> QED
    BY <1>0, <1>4, <2>1, <2>2, NatsKeeps, Zenon DEF Receive
<1>5. ASSUME NEW ok \in BOOLEAN, HandlerReturns(ok) PROVE NatsInv'
  <2>1. Grows({})
    BY <1>0, <1>5, SameGrows, Zenon DEF HandlerReturns
  <2>2. /\ work' \in [e: Nat, at: {"run", "ack", "nak", "recover"}] /\ work'.e = work.e
        /\ work'.at = "ack" => stream[work.e].id \in done'
    BY <1>0, <1>5, Zenon DEF HandlerReturns, WorkAt
  <2> QED
    BY <1>0, <1>5, <2>1, <2>2, NatsKeeps, Zenon DEF HandlerReturns, WorkAt
<1>6. CASE AckMessage
  <2>1. Grows({work.e}) /\ {work.e} \in SUBSET DOMAIN stream
    BY <1>0, <1>6, StateGrows, Zenon DEF AckMessage, WorkAt
  <2> QED
    BY <1>0, <1>6, <2>1, NatsKeeps, Zenon DEF AckMessage, WorkAt
<1>7. CASE Nak
  <2> DEFINE state == IF stream[work.e].state = "acked" THEN "acked" ELSE "ready"
  <2>1. stream' = [stream EXCEPT ![work.e].state = state] /\ work.e \in DOMAIN stream
    BY <1>0, <1>7, Zenon DEF Nak, WorkAt
  <2>2. state \in {"ready", "sent", "acked"} /\ (state # "acked" \/ stream[work.e].state = "acked")
    BY Zenon
  <2> HIDE DEF state
  <2>3. Grows({})
    BY <1>0, <2>1, <2>2, StateGrows, Zenon
  <2>4. work' \in [e: Nat, at: {"run", "ack", "nak", "recover"}] /\ work'.e = work.e /\ work'.at = "recover"
    BY <1>0, <1>7, Zenon DEF Nak, WorkAt
  <2> QED
    BY <1>0, <1>7, <2>1, <2>3, <2>4, NatsKeeps, Zenon DEF Nak
<1>8. CASE RecoverMessage
  <2>1. work # None /\ work.e \in DOMAIN stream
    BY <1>0, <1>8, Zenon DEF RecoverMessage, WorkAt
  <2>2. stream[work.e].id \in Messages /\ stream[work.e].attempt + 1 \in Nat
    <3>1. stream[work.e] \in StreamEntries
      BY <1>0, <2>1 DEF NatsTypeOK
    <3> QED
      BY <3>1 DEF StreamEntries
  <2>3. Grows({})
    BY <1>0, <1>8, <2>2, PublishGrows, SameGrows, Zenon DEF RecoverMessage
  <2> QED
    BY <1>0, <1>8, <2>3, NatsKeeps, Zenon DEF RecoverMessage
<1>9. CASE CallFails \/ ConsumerDies \/ UNCHANGED natsVars
  <2>1. Grows({}) /\ <<>> \in Seq(Nat) /\ DOMAIN <<>> = {}
    BY <1>0, <1>9, SameGrows DEF CallFails, ConsumerDies, natsVars
  <2> QED
    BY <1>0, <1>9, <2>1, NatsKeeps, Zenon DEF CallFails, ConsumerDies, natsVars
<1> QED
  BY <1>1, <1>2, <1>3, <1>4, <1>5, <1>6, <1>7, <1>8, <1>9, Zenon DEF NatsNext

\* Whatever crashes, fails, lags, is dead-lettered, replayed or purged, a message
\* that no handler has finished is owed by the stream (forward_consumer,
\* recover_message).
THEOREM AlwaysOwed == NatsSpec => []OwedByStream
<1>1. NatsInit => NatsInv
  BY DEF NatsInit, NatsInv, NatsTypeOK, SettledDone, WorkAt
<1>2. NatsInv => OwedByStream
  BY Zenon DEF NatsInv, NatsTypeOK, SettledDone, OwedByStream, Published
<1> QED
  BY <1>1, <1>2, NatsStepInv, PTL DEF NatsSpec

-----------------------------------------------------------------------------
(***************************************************************************)
(* ConfigAdmin                                                             *)
(***************************************************************************)

Versions == [active: BOOLEAN, state: {"active", "staged", "retired", "rolled_back"}]

\* A list of versions that the store may hold, or may have saved.
Sound(records) ==
    /\ records \in Seq(Versions)
    /\ ExactlyOneActive(records)
    /\ \A i \in DOMAIN records : records[i].active <=> records[i].state = "active"

AdminInv == Sound(versions) /\ (file \in {NoFile, TornFile} \/ Sound(file))

LEMMA NewStoreSound == Sound(<<FirstVersion>>)
<1>1. <<FirstVersion>> \in Seq(Versions) /\ DOMAIN <<FirstVersion>> = {1}
  BY DEF FirstVersion, Versions
<1> QED
  BY <1>1 DEF Sound, ExactlyOneActive, FirstVersion

\* A list of the same length whose only active version is the one named.
LEMMA SoundByOne ==
    ASSUME NEW records, NEW only \in DOMAIN records, records \in Seq(Versions),
           records[only] = FirstVersion,
           \A i \in DOMAIN records \ {only} : ~records[i].active /\ records[i].state # "active"
    PROVE  Sound(records)
<1>1. \A i \in DOMAIN records : records[i].active <=> only = i
  BY DEF FirstVersion
<1> QED
  BY <1>1 DEF Sound, ExactlyOneActive, FirstVersion

\* A list over the versions of another one.
LEMMA SameLength ==
    ASSUME NEW records \in Seq(Versions), NEW other,
           other \in [DOMAIN records -> Versions]
    PROVE  other \in Seq(Versions) /\ DOMAIN other = DOMAIN records /\ Len(other) = Len(records)
OBVIOUS

LEMMA AppendSound ==
    ASSUME NEW records \in Seq(Versions), NEW last \in Versions
    PROVE  /\ Append(records, last) \in Seq(Versions)
           /\ DOMAIN Append(records, last) = DOMAIN records \cup {Len(records) + 1}
           /\ Append(records, last)[Len(records) + 1] = last
           /\ \A i \in DOMAIN records : Append(records, last)[i] = records[i]
           /\ Len(records) + 1 \notin DOMAIN records
OBVIOUS

LEMMA RetiredVersion ==
    ASSUME NEW record \in Versions
    PROVE  /\ Retired(record) \in Versions
           /\ ~Retired(record).active /\ Retired(record).state # "active"
BY Zenon DEF Retired, Versions

LEMMA AdminStepInv == AdminInv /\ [AdminNext]_adminVars => AdminInv'
<1> SUFFICES ASSUME AdminInv, [AdminNext]_adminVars PROVE AdminInv'
  BY Zenon
<1>1. versions \in Seq(Versions) /\ Sound(versions)
  BY Zenon DEF AdminInv, Sound
<1> DEFINE retired == [i \in DOMAIN versions |-> Retired(versions[i])]
<1>2. /\ retired \in Seq(Versions) /\ DOMAIN retired = DOMAIN versions
      /\ \A i \in DOMAIN retired : ~retired[i].active /\ retired[i].state # "active"
  <2>1. \A i \in DOMAIN versions : versions[i] \in Versions
    BY <1>1
  <2>2. retired \in [DOMAIN versions -> Versions]
    BY <2>1, RetiredVersion, Zenon
  <2> QED
    BY <1>1, <2>1, <2>2, SameLength, RetiredVersion, Zenon
<1>3. FirstVersion \in Versions
  BY Zenon DEF FirstVersion, Versions
<1>4. CASE Publish
  <2> DEFINE all == Append(retired, FirstVersion)
  <2>1. Sound(all)
    <3> HIDE DEF retired
    <3>1. /\ all \in Seq(Versions) /\ Len(retired) + 1 \in DOMAIN all
          /\ all[Len(retired) + 1] = FirstVersion
          /\ \A i \in DOMAIN all \ {Len(retired) + 1} : ~all[i].active /\ all[i].state # "active"
      BY <1>2, <1>3, AppendSound
    <3> QED
      BY <3>1, SoundByOne, Zenon
  <2> QED
    BY <1>4, <2>1, Zenon DEF AdminInv, Publish
<1>5. CASE Stage
  <2> DEFINE last == [active |-> FALSE, state |-> "staged"]
             all == Append(versions, last)
  <2>1. last \in Versions /\ ~last.active /\ last.state # "active"
    BY Zenon DEF Versions
  <2>2. Sound(all)
    <3> HIDE DEF last
    <3>1. /\ all \in Seq(Versions) /\ DOMAIN all = DOMAIN versions \cup {Len(versions) + 1}
          /\ all[Len(versions) + 1] = last /\ \A i \in DOMAIN versions : all[i] = versions[i]
      BY <1>1, <2>1, AppendSound, Zenon
    <3>2. Len(versions) + 1 \notin DOMAIN versions
      BY <1>1
    <3> HIDE DEF all
    <3>3. PICK i \in DOMAIN versions : \A j \in DOMAIN versions : versions[j].active <=> i = j
      BY <1>1, Zenon DEF Sound, ExactlyOneActive
    <3>4. \A j \in DOMAIN all : all[j].active <=> i = j
      BY <2>1, <3>1, <3>2, <3>3, Zenon
    <3> QED
      BY <1>1, <2>1, <3>1, <3>4 DEF Sound, ExactlyOneActive
  <2> QED
    BY <1>5, <2>2, Zenon DEF AdminInv, Stage
<1>6. ASSUME NEW version \in DOMAIN versions, Promote(version) PROVE AdminInv'
  <2>1. versions' \in [DOMAIN versions -> Versions]
    BY <1>1, <1>3, <1>6, RetiredVersion DEF Promote
  <2>2. versions' \in Seq(Versions) /\ DOMAIN versions' = DOMAIN versions
    BY <1>1, <2>1, SameLength, Zenon
  <2>3. versions'[version] = FirstVersion
    BY <1>6, Zenon DEF Promote
  <2>4. \A i \in DOMAIN versions' \ {version} : ~versions'[i].active /\ versions'[i].state # "active"
    BY <1>1, <1>6, <2>2, RetiredVersion DEF Promote
  <2>5. Sound(versions')
    BY <1>6, <2>2, <2>3, <2>4, SoundByOne, Zenon
  <2> QED
    BY <1>6, <2>5, Zenon DEF AdminInv, Promote
<1>7. ASSUME NEW version \in DOMAIN versions, RejectStaged(version) PROVE AdminInv'
  <2> DEFINE record == [active |-> FALSE, state |-> "rolled_back"]
  <2>1. record \in Versions /\ ~record.active /\ record.state # "active"
    BY Zenon DEF Versions
  <2>2. versions' = [versions EXCEPT ![version] = record] /\ ~versions[version].active
    BY <1>1, <1>7, Zenon DEF RejectStaged, Sound
  <2> HIDE DEF record
  <2>3. versions' \in Seq(Versions) /\ DOMAIN versions' = DOMAIN versions
    BY <1>1, <2>1, <2>2
  <2>4. \A j \in DOMAIN versions :
           /\ versions'[j].active <=> versions[j].active
           /\ versions'[j].active <=> versions'[j].state = "active"
    BY <1>1, <2>1, <2>2, Zenon DEF Sound
  <2>5. PICK i \in DOMAIN versions : \A j \in DOMAIN versions : versions[j].active <=> i = j
    BY <1>1, Zenon DEF Sound, ExactlyOneActive
  <2>6. i \in DOMAIN versions' /\ \A j \in DOMAIN versions' : versions'[j].active <=> i = j
    BY <2>3, <2>4, <2>5, Zenon
  <2>7. Sound(versions')
    <3>1. ExactlyOneActive(versions')
      BY <2>6, Zenon DEF ExactlyOneActive
    <3>2. \A j \in DOMAIN versions' : versions'[j].active <=> versions'[j].state = "active"
      BY <2>3, <2>4, Zenon
    <3> QED
      BY <2>3, <3>1, <3>2, Zenon DEF Sound
  <2> QED
    BY <1>7, <2>7, Zenon DEF AdminInv, RejectStaged
<1>8. ASSUME NEW version \in DOMAIN versions, RollbackTo(version) PROVE AdminInv'
  <2> DEFINE new(i) == [active |-> i = version,
                        state |-> IF i = version THEN "active"
                                  ELSE IF versions[i].active THEN "retired"
                                  ELSE versions[i].state]
  <2>1. \A i \in DOMAIN versions : versions[i] \in Versions
    BY <1>1
  <2>2. \A i \in DOMAIN versions : new(i) \in Versions
    BY <2>1, Zenon DEF Versions
  <2>3. new(version) = FirstVersion
    BY Zenon DEF FirstVersion
  <2>4. \A i \in DOMAIN versions \ {version} : ~new(i).active /\ new(i).state # "active"
    BY <1>1, Zenon DEF Sound
  <2>5. versions' = [i \in DOMAIN versions |-> new(i)]
    BY <1>8, Zenon DEF RollbackTo
  <2> HIDE DEF new
  <2>6. versions' \in Seq(Versions) /\ DOMAIN versions' = DOMAIN versions
    BY <1>1, <2>2, <2>5, SameLength, Zenon
  <2>7. Sound(versions')
    BY <1>8, <2>3, <2>4, <2>5, <2>6, SoundByOne, Zenon
  <2> QED
    BY <1>8, <2>7, Zenon DEF AdminInv, RollbackTo
<1>9. CASE Save \/ SaveFails \/ UNCHANGED adminVars
  BY <1>9, Zenon DEF AdminInv, Save, SaveFails, adminVars
<1>10. CASE Restore
  BY <1>10, NewStoreSound, Zenon DEF AdminInv, Restore
<1> QED
  BY <1>4, <1>5, <1>6, <1>7, <1>8, <1>9, <1>10, Zenon DEF AdminNext

\* However versions are published, staged, promoted, rejected, rolled back, saved
\* and restored, exactly one of them is active, and it is the one recorded as such
\* (ConfigCenterAdminStore).
THEOREM AlwaysOneActive == AdminSpec => []OneActive
<1>1. AdminInit => AdminInv
  BY NewStoreSound, Zenon DEF AdminInit, AdminInv
<1>2. AdminInv => OneActive
  BY Zenon DEF AdminInv, Sound, OneActive
<1> QED
  BY <1>1, <1>2, AdminStepInv, PTL DEF AdminSpec

-----------------------------------------------------------------------------
(***************************************************************************)
(* Saga                                                                    *)
(***************************************************************************)

(* Saga: the actions in effect are those before the one that is next.      *)

InEffect(ef, lf, k) == \A i \in Actions : ef[i] = lf[i] + (IF i <= k THEN 1 ELSE 0)

SagaInv ==
    /\ place \in {"apply", "undo", "sleep", "ok", "err", "dropped"}
    /\ next \in 0..(Steps + 1)
    /\ effects \in [Actions -> Nat] /\ left \in [Actions -> Nat]
    /\ place = "apply" => next >= 1
    /\ place = "undo" => next <= Steps
    /\ \E k \in 0..Steps :
          /\ InEffect(effects, left, k)
          /\ place = "apply" => k = next - 1
          /\ place = "undo" => k = next
          /\ place \in {"sleep", "err"} => k = 0
          /\ place = "ok" => k = Steps

LEMMA SagaInitInv == SagaInit => SagaInv
<1> SUFFICES ASSUME SagaInit PROVE SagaInv
  BY Zenon
<1>1. 0 \in 0..Steps /\ InEffect(effects, left, 0)
  BY SagaConstants DEF SagaInit, InEffect, Actions
<1> QED
  BY <1>1, SagaConstants DEF SagaInit, SagaInv

LEMMA SagaStepInv == SagaInv /\ [SagaNext]_sagaVars => SagaInv'
<1> SUFFICES ASSUME SagaInv, [SagaNext]_sagaVars PROVE SagaInv'
  BY Zenon
<1> USE SagaConstants
<1>1. PICK k \in 0..Steps :
          /\ InEffect(effects, left, k)
          /\ place = "apply" => k = next - 1
          /\ place = "undo" => k = next
          /\ place \in {"sleep", "err"} => k = 0
          /\ place = "ok" => k = Steps
  BY Zenon DEF SagaInv
<1>2. CASE Apply
  <2>1. next \in Actions /\ k = next - 1 /\ next \in 0..Steps
    BY <1>1, <1>2 DEF SagaInv, Apply, Actions
  <2>2. InEffect(effects', left', next)
    BY <1>1, <1>2, <2>1 DEF SagaInv, Apply, InEffect, Actions
  <2> QED
    BY <1>2, <2>1, <2>2 DEF SagaInv, Apply, InEffect
<1>3. CASE Succeed
  BY <1>1, <1>3 DEF SagaInv, Succeed, InEffect
<1>4. CASE ApplyFails
  BY <1>1, <1>4 DEF SagaInv, ApplyFails, InEffect
<1>5. CASE Rollback
  <2>1. next \in Actions /\ k = next /\ next - 1 \in 0..Steps
    BY <1>1, <1>5 DEF SagaInv, Rollback, Actions
  <2>2. InEffect(effects', left', next - 1)
    BY <1>1, <1>5, <2>1 DEF SagaInv, Rollback, InEffect, Actions
  <2>3. effects' \in [Actions -> Nat] /\ left' \in [Actions -> Nat]
    <3>1. effects[next] - 1 \in Nat /\ left[next] + 1 \in Nat
      BY <1>1, <2>1 DEF SagaInv, InEffect
    <3> QED
      BY <1>5, <2>1, <3>1, Zenon DEF SagaInv, Rollback
  <2> QED
    BY <1>5, <2>1, <2>2, <2>3 DEF SagaInv, Rollback, InEffect
<1>6. CASE RolledBack
  BY <1>1, <1>6, Zenon DEF SagaInv, RolledBack, InEffect
<1>7. CASE Retry
  BY <1>1, <1>7 DEF SagaInv, Retry, InEffect
<1>8. CASE Drop
  BY <1>1, <1>8, Zenon DEF SagaInv, Drop, InEffect
<1>9. CASE Stop \/ UNCHANGED sagaVars
  BY <1>1, <1>9, Zenon DEF SagaInv, Stop, sagaVars, InEffect
<1> QED
  BY <1>2, <1>3, <1>4, <1>5, <1>6, <1>7, <1>8, <1>9, Zenon DEF SagaNext

\* A plan of any length, run any number of times, whatever fails and whenever it is
\* dropped, has a prefix of its actions in effect beside what failed to roll back;
\* none when it returns an error and all of them when it succeeds (execute,
\* execute_with_retry).
THEOREM PrefixInEffect == SagaSpec => []AppliedIsPrefix
<1>1. SagaInv => AppliedIsPrefix
  BY Zenon DEF SagaInv, AppliedIsPrefix, InEffect
<1> QED
  BY <1>1, SagaInitInv, SagaStepInv, PTL DEF SagaSpec

=============================================================================
