--------------------------- MODULE KafkaConsumer ---------------------------
(***************************************************************************)
(* A consumer of roze-kafka over rdkafka: the task of RdkafkaSubscriber    *)
(* fetches records of its topics into a broadcast channel and commits the  *)
(* offsets that it is told to; the loop of spawn_consumer handles one      *)
(* delivery at a time, acknowledges it, or publishes it again on the retry *)
(* or the dead-letter topic.  One partition for each topic.                *)
(***************************************************************************)
EXTENDS Integers, Sequences, Option

CONSTANTS
    RetryLimit,    \* KafkaConfig::max_retries
    Capacity,      \* of the broadcast channel (256)
    RecordBound,   \* bound: records that producers publish
    RetryBound,    \* bound: records on the retry topic
    KillBound      \* bound: deaths of the process

Topics == {"events", "retry"}

VARIABLES
    config,     \* auto: librdkafka commits by itself; topics: those that recovery has
    log,        \* the records of each topic, from offset 1
    fetched,    \* the offset of each topic that was fetched last
    committed,  \* the offset of the group that was committed last
    channel,    \* deliveries that the loop has not taken yet: <<topic, offset>>
    work,       \* the delivery in the loop, and what is being done with it
    dead,       \* records that reached the dead-letter topic
    kills

kafkaVars == <<config, log, fetched, committed, channel, work, dead, kills>>

\* fate is history: what became of the last delivery of the record.
Record(id, attempt) == [id |-> id, attempt |-> attempt, fate |-> None]

Idle == [topic |-> None, offset |-> 0, at |-> "idle"]

KafkaInit ==
    /\ config \in [auto: BOOLEAN, topics: SUBSET {"retry", "dead"}]
    /\ log = [t \in Topics |-> <<>>]
    /\ fetched = [t \in Topics |-> 0] /\ committed = [t \in Topics |-> 0]
    /\ channel = <<>> /\ work = Idle
    /\ dead = {} /\ kills = 0

CurrentRecord == log[work.topic][work.offset]

End(fate) ==
    /\ log' = [log EXCEPT ![work.topic][work.offset].fate = fate]
    /\ work' = Idle

-----------------------------------------------------------------------------
(* The broker and the subscriber's task *)

Publish ==
    /\ Len(log["events"]) < RecordBound
    /\ log' = [log EXCEPT !["events"] = Append(@, Record(Len(@) + 1, 0))]
    /\ UNCHANGED <<config, fetched, committed, channel, work, dead, kills>>

\* consumer.recv(), and the send; a full channel overwrites its oldest delivery,
\* which the loop notices as Lagged and logs.
Fetch(t) ==
    /\ fetched[t] < Len(log[t])
    /\ fetched' = [fetched EXCEPT ![t] = @ + 1]
    /\ LET sent == Append(channel, <<t, fetched'[t]>>)
           full == Len(channel) = Capacity
       IN  /\ channel' = IF full THEN Tail(sent) ELSE sent
           /\ log' = IF full THEN [log EXCEPT ![sent[1][1]][sent[1][2]].fate = "lagged"] ELSE log
    /\ UNCHANGED <<config, committed, work, dead, kills>>

\* `kafka receive failed'.
ReceiveFails == UNCHANGED kafkaVars

\* librdkafka's own commit of what recv has returned.
AutoCommit ==
    /\ config.auto
    /\ committed' = fetched
    /\ UNCHANGED <<config, log, fetched, channel, work, dead, kills>>

-----------------------------------------------------------------------------
(* The loop of spawn_consumer_with_auto_ack *)

Take ==
    /\ work = Idle /\ channel # <<>>
    /\ work' = [topic |-> channel[1][1], offset |-> channel[1][2], at |-> "run"]
    /\ channel' = Tail(channel)
    /\ UNCHANGED <<config, log, fetched, committed, dead, kills>>

HandlerReturns(next) ==
    /\ work.at = "run"
    /\ work' = [work EXCEPT !.at = next]
    /\ UNCHANGED <<config, log, fetched, committed, channel, dead, kills>>

\* Mutant: the commit covers whatever was fetched.
CommitFetched ==
    /\ work.at = "ack"
    /\ committed' = [committed EXCEPT ![work.topic] = fetched[work.topic]]
    /\ End("handled")
    /\ UNCHANGED <<config, fetched, channel, dead, kills>>

\* The acknowledgement: RdkafkaAckCmd::Commit, with next_offset.
Commit ==
    /\ work.at = "ack"
    /\ committed' = [committed EXCEPT ![work.topic] = work.offset]
    /\ End("handled")
    /\ UNCHANGED <<config, fetched, channel, dead, kills>>

\* The delivery counts as acknowledged, so that a nack after it does nothing.
CommitFails ==
    /\ work.at = "ack"
    /\ End("handled")
    /\ UNCHANGED <<config, fetched, committed, channel, dead, kills>>

RecoverAction(attempt) ==
    LET to == IF attempt < RetryLimit THEN "retry" ELSE "dead"
    IN  IF to \in config.topics THEN to ELSE "drop"

\* publish_recover, when its publish succeeds.
PublishRecover(action) ==
    /\ action = "retry" => Len(log["retry"]) < RetryBound
    /\ LET copies == Append(log["retry"], Record(CurrentRecord.id, CurrentRecord.attempt + 1))
       IN  log' = [(IF action = "retry" THEN [log EXCEPT !["retry"] = copies] ELSE log)
                     EXCEPT ![work.topic][work.offset].fate = action]
    /\ dead' = IF action = "dead" THEN dead \cup {CurrentRecord.id} ELSE dead
    /\ work' = Idle
    /\ UNCHANGED <<config, fetched, committed, channel, kills>>

\* Mutant: a record whose topic is missing is held until there is one.
RecoverHolds ==
    /\ work.at = "nack" /\ RecoverAction(CurrentRecord.attempt) # "drop"
    /\ PublishRecover(RecoverAction(CurrentRecord.attempt))

\* The nack, which commits nothing.
Recover ==
    /\ work.at = "nack"
    /\ PublishRecover(RecoverAction(CurrentRecord.attempt))

\* The publish of the copy fails, and the loop drops the error.
RecoverFails ==
    /\ work.at = "nack" /\ RecoverAction(CurrentRecord.attempt) # "drop"
    /\ End("failed")
    /\ UNCHANGED <<config, fetched, committed, channel, dead, kills>>

\* The process dies; the next one starts at the committed offsets.
Kill ==
    /\ kills < KillBound
    /\ kills' = kills + 1
    /\ fetched' = committed /\ channel' = <<>> /\ work' = Idle
    /\ UNCHANGED <<config, log, committed, dead>>

SettleRecord == Commit \/ CommitFails \/ Recover \/ RecoverFails

KafkaNext ==
    \/ Publish \/ ReceiveFails \/ AutoCommit \/ Take \/ SettleRecord \/ Kill
    \/ HandlerReturns("ack") \/ HandlerReturns("nack")
    \/ \E t \in Topics : Fetch(t)

KafkaSpec == KafkaInit /\ [][KafkaNext]_kafkaVars

\* The subscriber's task and the loop run, handlers return, and a publish or a
\* commit ends, in success or failure.
KafkaFairness ==
    /\ \A t \in Topics : WF_kafkaVars(Fetch(t))
    /\ WF_kafkaVars(Take) /\ WF_kafkaVars(SettleRecord)
    /\ WF_kafkaVars(HandlerReturns("ack") \/ HandlerReturns("nack"))

KafkaFairSpec == KafkaSpec /\ KafkaFairness

-----------------------------------------------------------------------------
(* Properties. *)

Copied(record) ==
    \/ record.fate = "dead" /\ record.id \in dead
    \/ /\ record.fate = "retry"
       /\ \E i \in DOMAIN log["retry"] : /\ log["retry"][i].id = record.id
                                         /\ log["retry"][i].attempt = record.attempt + 1

\* With manual acknowledgement, an offset is committed past a record only if the
\* record was handled, has its copy on the retry or dead-letter topic, or was
\* given up in one of three ways that are only logged: the topic for its copy is
\* not configured, its copy could not be published, or the channel overwrote it.
\* (commit_with_consumer, publish_recover, spawn_consumer_with_auto_ack).
CommitAccounted ==
    ~config.auto =>
        \A t \in Topics : \A i \in 1..committed[t] :
           LET record == log[t][i]
           IN  \/ record.fate \in {"handled", "failed", "lagged"}
               \/ Copied(record)
               \/ record.fate = "drop" /\ config.topics # {"retry", "dead"}

\* Nothing is forgotten: with manual acknowledgement every record is handled,
\* dead-lettered or given up in one of those ways in the end, however often the
\* process dies, and after RetryLimit retries at the latest.
Given(id) ==
    \/ id \in dead
    \/ \E t \in Topics : \E i \in DOMAIN log[t] :
          /\ log[t][i].id = id
          /\ log[t][i].fate \in {"handled", "drop", "failed", "lagged"}

RecordsSettle ==
    ~config.auto => \A id \in 1..RecordBound : (id <= Len(log["events"])) ~> Given(id)

=============================================================================
