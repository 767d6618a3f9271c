---------------------------- MODULE EventOutbox ----------------------------
(***************************************************************************)
(* What an outbox promises, whatever store and relays it is made of: only  *)
(* accepted events reach the broker, and an event is done only after the   *)
(* broker took it.  An event may be accepted again once it is done, and    *)
(* the broker may take an accepted event any number of times.              *)
(***************************************************************************)
EXTENDS Naturals

CONSTANT Ids

VARIABLES
    phase,     \* "none": never accepted; "waiting"; "done"
    delivered  \* times the broker took the event (0, 1, 2 or more)

vars == <<phase, delivered>>

Init ==
    /\ phase = [id \in Ids |-> "none"]
    /\ delivered = [id \in Ids |-> 0]

Accept(id) ==
    /\ phase[id] \in {"none", "done"}
    /\ phase' = [phase EXCEPT ![id] = "waiting"]
    /\ UNCHANGED delivered

Deliver(id) ==
    /\ phase[id] # "none"
    /\ delivered' = [delivered EXCEPT ![id] = IF @ < 2 THEN @ + 1 ELSE 2]
    /\ UNCHANGED phase

Finish(id) ==
    /\ phase[id] = "waiting"
    /\ delivered[id] > 0
    /\ phase' = [phase EXCEPT ![id] = "done"]
    /\ UNCHANGED delivered

Next == \E id \in Ids : Accept(id) \/ Deliver(id) \/ Finish(id)

Spec == Init /\ [][Next]_vars

=============================================================================
