----------------------------- MODULE MCProcess -----------------------------
(***************************************************************************)
(* The components that owe progress, in one run: calls of an RPC, the      *)
(* group of services of a process, the configuration center, and a Kafka   *)
(* consumer.  Each behaviour is one of theirs, chosen in the first state,  *)
(* and leaves the others where they began.                                 *)
(***************************************************************************)
EXTENDS RpcCall, ServiceGroup, ConfigCenter, KafkaConsumer

VARIABLE part  \* the component whose behaviour it is

processVars == <<part, vars, groupVars, centerVars, kafkaVars>>

-----------------------------------------------------------------------------
InitProcess ==
    /\ part \in {"rpc", "group", "center", "kafka"}
    /\ Init /\ (part # "rpc" => \A r \in Requests : ctx[r].budget = None)
    /\ GroupInit /\ (part # "group" => stopOnFirstError)
    /\ CenterInit /\ (part # "center" => mode = "poll" /\ puts = <<"a">>)
    /\ KafkaInit /\ (part # "kafka" => config = [auto |-> TRUE, topics |-> {}])

RpcStep ==
    /\ part = "rpc" /\ Next
    /\ UNCHANGED <<part, groupVars, centerVars, kafkaVars>>

GroupStep ==
    /\ part = "group" /\ GroupNext
    /\ UNCHANGED <<part, vars, centerVars, kafkaVars>>

CenterStep ==
    /\ part = "center" /\ CenterNext
    /\ UNCHANGED <<part, vars, groupVars, kafkaVars>>

KafkaStep ==
    /\ part = "kafka" /\ KafkaNext
    /\ UNCHANGED <<part, vars, groupVars, centerVars>>

NextProcess == RpcStep \/ GroupStep \/ CenterStep \/ KafkaStep

\* The fairness of each component, for the behaviours that are its own.
FairRpc ==
    /\ WF_vars(part = "rpc" /\ Tick)
    /\ \A c \in Calls : WF_vars(part = "rpc" /\ Proceed(c))

FairGroup ==
    /\ WF_progress(part = "group" /\ StartWithShutdown)
    /\ WF_progress(part = "group" /\ TriggerShutdown)
    /\ WF_progress(part = "group" /\ ServeShutdown /\ requested)

FairCenter ==
    /\ WF_centerVars(part = "center" /\ CenterTick)
    /\ WF_centerVars(part = "center" /\ Receive)
    /\ WF_centerVars(part = "center" /\ ListenerDone)
    /\ WF_centerVars(part = "center" /\ ListenerTimesOut)
    /\ WF_centerVars(part = "center" /\ Connect)
    /\ SF_centerVars(part = "center" /\ Event)
    /\ SF_centerVars(part = "center" /\ PollReads)

FairKafka ==
    /\ \A t \in Topics : WF_kafkaVars(part = "kafka" /\ Fetch(t))
    /\ WF_kafkaVars(part = "kafka" /\ Take)
    /\ WF_kafkaVars(part = "kafka" /\ SettleRecord)
    /\ WF_kafkaVars(part = "kafka" /\ (HandlerReturns("ack") \/ HandlerReturns("nack")))

SpecProcess ==
    /\ InitProcess /\ [][NextProcess]_processVars
    /\ FairRpc /\ FairGroup /\ FairCenter /\ FairKafka

=============================================================================
