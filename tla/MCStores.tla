------------------------------ MODULE MCStores ------------------------------
(***************************************************************************)
(* The components that keep data, in one run: each behaviour is one of     *)
(* theirs, chosen in the first state, and leaves the others where they     *)
(* began.                                                                  *)
(***************************************************************************)
EXTENDS SqlOutbox, NatsConsumer, Saga, ConfigAdmin, CacheAside, TLC

VARIABLE part  \* the component whose behaviour it is

storesVars == <<part, vars, natsVars, sagaVars, adminVars, allVars>>

-----------------------------------------------------------------------------
InitStores ==
    /\ part \in {"sql", "nats", "saga", "admin", "cache"}
    /\ Init /\ SagaInit /\ AdminInit
    /\ NatsInit /\ (part # "nats" => ~retries)
    /\ CacheInit /\ (part # "cache" => kind = "plain")

SqlStep ==
    /\ part = "sql" /\ Next
    /\ UNCHANGED <<part, natsVars, sagaVars, adminVars, allVars>>

NatsStep ==
    /\ part = "nats" /\ NatsNext
    /\ UNCHANGED <<part, vars, sagaVars, adminVars, allVars>>

SagaStep ==
    /\ part = "saga" /\ SagaNext
    /\ UNCHANGED <<part, vars, natsVars, adminVars, allVars>>

AdminStep ==
    /\ part = "admin" /\ AdminNext
    /\ UNCHANGED <<part, vars, natsVars, sagaVars, allVars>>

CacheStep ==
    /\ part = "cache" /\ CacheNext
    /\ UNCHANGED <<part, vars, natsVars, sagaVars, adminVars>>

\* A plan ends, and a bounded history does; the relays of the SQL outbox go on.
Rest == part # "sql" /\ UNCHANGED storesVars

NextStores ==
    \/ SqlStep \/ NatsStep \/ SagaStep
    \/ AdminStep \/ CacheStep \/ Rest

SpecStores == InitStores /\ [][NextStores]_storesVars

Symmetry == Permutations(Relays)

=============================================================================
