---------------------------- MODULE NatsConsumer ----------------------------
(***************************************************************************)
(* A durable JetStream consumer of roze-nats: forward_consumer pulls       *)
(* messages into a broadcast channel, the spawn_consumer loop of roze-mq   *)
(* runs the handler and acks or nacks, and a nack sends Nak and then       *)
(* publishes a retry copy or a dead letter.  The ack policy is Explicit,   *)
(* the default, and the retry subject has the same consumer.               *)
(***************************************************************************)
EXTENDS Naturals, Sequences, Option

CONSTANTS
    Messages,     \* messages that are published
    MaxRetries,   \* JetStreamConfig::max_retries
    Capacity,     \* JetStreamConfig::consumer_buffer
    StreamBound,  \* bound: entries of the stream
    RestartBound  \* bound: crashes of the process

ASSUME NatsConstants == MaxRetries \in Nat /\ Capacity \in Nat \ {0}

VARIABLES
    retries,  \* whether retry_subject is configured
    stream,   \* its entries in the order they were published
    channel,  \* entries forwarded and not yet received
    work,     \* the delivery that the consumer handles, or None
    letters,  \* dead_letters: ids
    done,     \* history: ids that a handler has finished
    restarts

natsVars == <<retries, stream, channel, work, letters, done, restarts>>

NatsInit ==
    /\ retries \in BOOLEAN
    /\ stream = <<>> /\ channel = <<>> /\ work = None
    /\ letters = {} /\ done = {} /\ restarts = 0

Published == {stream[e].id : e \in DOMAIN stream}
WorkAt(place) == work # None /\ work.at = place

\* publish_nats: the attempt travels in a header.
PublishNats(id, attempt) ==
    /\ Len(stream) < StreamBound
    /\ stream' = Append(stream, [id |-> id, attempt |-> attempt, state |-> "ready"])

PublishMessage(id) ==
    /\ id \notin Published
    /\ PublishNats(id, 0)
    /\ UNCHANGED <<retries, channel, work, letters, done, restarts>>

\* One turn of forward_consumer; a full channel overwrites its oldest (Lagged).
Forward(e) ==
    /\ stream[e].state = "ready"
    /\ stream' = [stream EXCEPT ![e].state = "sent"]
    /\ channel' = Append(IF Len(channel) = Capacity THEN Tail(channel) ELSE channel, e)
    /\ UNCHANGED <<retries, work, letters, done, restarts>>

\* The server's ack wait is over: the entry is delivered again, whoever has it.
AckWaitEnds(e) ==
    /\ stream[e].state = "sent"
    /\ stream' = [stream EXCEPT ![e].state = "ready"]
    /\ UNCHANGED <<retries, channel, work, letters, done, restarts>>

Receive ==
    /\ work = None /\ channel # <<>>
    /\ work' = [e |-> Head(channel), at |-> "run"]
    /\ channel' = Tail(channel)
    /\ UNCHANGED <<retries, stream, letters, done, restarts>>

HandlerReturns(ok) ==
    /\ WorkAt("run")
    /\ work' = [work EXCEPT !.at = IF ok THEN "ack" ELSE "nak"]
    /\ done' = IF ok THEN done \cup {stream[work.e].id} ELSE done
    /\ UNCHANGED <<retries, stream, channel, letters, restarts>>

-----------------------------------------------------------------------------
(* ack_fn and nack_fn *)

AckMessage ==
    /\ WorkAt("ack")
    /\ stream' = [stream EXCEPT ![work.e].state = "acked"]
    /\ work' = None
    /\ UNCHANGED <<retries, channel, letters, done, restarts>>

\* Mutant: the entry is settled before its copy is published.
NakSettles ==
    /\ WorkAt("nak")
    /\ stream' = [stream EXCEPT ![work.e].state = "acked"]
    /\ work' = [work EXCEPT !.at = "recover"]
    /\ UNCHANGED <<retries, channel, letters, done, restarts>>

\* Nak(None): delivered again at once, with the same attempt; without effect on
\* an entry that is acked.
Nak ==
    /\ WorkAt("nak")
    /\ stream' = [stream EXCEPT ![work.e].state = IF @ = "acked" THEN @ ELSE "ready"]
    /\ work' = [work EXCEPT !.at = "recover"]
    /\ UNCHANGED <<retries, channel, letters, done, restarts>>

\* recover_message.
RecoverMessage ==
    LET e == stream[work.e]
    IN  /\ WorkAt("recover")
        /\ IF e.attempt + 1 <= MaxRetries /\ retries
           THEN PublishNats(e.id, e.attempt + 1) /\ UNCHANGED letters
           ELSE letters' = letters \cup {e.id} /\ UNCHANGED stream
        /\ work' = None
        /\ UNCHANGED <<retries, channel, done, restarts>>

\* The server cannot be reached: the error is dropped with the delivery.
CallFails ==
    /\ \E place \in {"ack", "nak", "recover"} : WorkAt(place)
    /\ work' = None
    /\ UNCHANGED <<retries, stream, channel, letters, done, restarts>>

-----------------------------------------------------------------------------
\* The process starts again; dead_letters live in its memory.
ConsumerDies ==
    /\ restarts < RestartBound
    /\ restarts' = restarts + 1
    /\ channel' = <<>> /\ work' = None /\ letters' = {}
    /\ UNCHANGED <<retries, stream, done>>

\* replay_dead_letter keeps the record.
ReplayLetter(id) ==
    /\ id \in letters
    /\ PublishNats(id, 0)
    /\ UNCHANGED <<retries, channel, work, letters, done, restarts>>

PurgeLetter(id) ==
    /\ id \in letters
    /\ letters' = letters \ {id}
    /\ UNCHANGED <<retries, stream, channel, work, done, restarts>>

NatsNext ==
    \/ Receive \/ AckMessage \/ Nak \/ RecoverMessage \/ CallFails \/ ConsumerDies
    \/ \E ok \in BOOLEAN : HandlerReturns(ok)
    \/ \E id \in Messages : PublishMessage(id) \/ ReplayLetter(id) \/ PurgeLetter(id)
    \/ \E e \in DOMAIN stream : Forward(e) \/ AckWaitEnds(e)

NatsSpec == NatsInit /\ [][NatsNext]_natsVars

-----------------------------------------------------------------------------
(* Properties. *)

\* A message that no handler has finished is still owed by the stream: crashes,
\* lost calls, overwritten deliveries, exhausted retries and purged dead letters
\* leave an entry that will be delivered again, since a nack settles nothing
\* before its copy is out (forward_consumer, recover_message).
OwedByStream ==
    \A id \in Published \ done :
        \E e \in DOMAIN stream : stream[e].id = id /\ stream[e].state # "acked"

=============================================================================
