------------------------------ MODULE MCCalls ------------------------------
(***************************************************************************)
(* Governed calls, the in-process broker whose deliveries are such calls,  *)
(* and the in-memory outbox that publishes to a broker, in one run: each   *)
(* behaviour is one of theirs, chosen in the first state, and leaves the   *)
(* others where they began.                                                *)
(***************************************************************************)
EXTENDS GovernedCall, MessageBroker, MemoryOutbox, TLC

VARIABLE part  \* the component whose behaviour it is

callsVars == <<part, vars, brokerVars, relayVars>>

-----------------------------------------------------------------------------
InitCalls ==
    /\ part \in {"call", "broker", "outbox"}
    /\ Init /\ (part # "call" => boundary = "rest")
    /\ BrokerInit /\ MemoryInit

CallStep   == part = "call" /\ Next /\ UNCHANGED <<part, brokerVars, relayVars>>
BrokerStep == part = "broker" /\ BrokerNext /\ UNCHANGED <<part, vars, relayVars>>
OutboxStep == part = "outbox" /\ MemoryNext /\ UNCHANGED <<part, vars, brokerVars>>

\* The broker rests when its messages are settled; calls and relays go on.
Rest == part = "broker" /\ UNCHANGED callsVars

NextCalls == CallStep \/ BrokerStep \/ OutboxStep \/ Rest

SpecCalls == InitCalls /\ [][NextCalls]_callsVars

Symmetry == Permutations(Calls) \cup Permutations(Consumers)

=============================================================================
