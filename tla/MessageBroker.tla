--------------------------- MODULE MessageBroker ---------------------------
(***************************************************************************)
(* InMemoryBroker of roze-mq with consumers that keep the inbox contract   *)
(* of roze-transaction (docs/contracts/queue.md, Inbox Pattern).  A topic  *)
(* is a broadcast channel: every consumer receives every delivery, and the *)
(* copies share one DeliveryState, which only the first of them settles.   *)
(* The consumers are spawn_consumer loops; a task may be aborted anywhere. *)
(***************************************************************************)
EXTENDS Naturals, Sequences, Option

CONSTANTS
    MessageIds,    \* messages, each with its idempotency key
    Consumers,     \* consumers of the topic
    MaxAttempts,   \* InMemoryBroker::max_attempts
    Capacity,      \* of the topic's channel (128)
    AbortBound,    \* bound: consumer tasks aborted
    ReplayBound    \* bound: dead letters replayed

\* A subscription is not a list of deliveries, nor an unknown message a status.
ASSUME BrokerConstants ==
    /\ Capacity \in Nat \ {0}
    /\ None \notin Seq(Nat) /\ None \notin {"processing", "processed", "failed"}

VARIABLES
    seen,        \* seen_idempotency_keys
    delayed,     \* messages whose delivery sleeps
    deliveries,  \* every Delivery so far, and its state
    channel,     \* what each consumer has not received; None: not subscribed
    work,        \* the delivery that each consumer handles
    letters,     \* dead_letters: records of each message
    inbox,       \* InMemoryInbox: status of each message
    effects,     \* history: executions of each message that succeeded
    excused,     \* history: messages lagged past, aborted, purged or sent to nobody
    aborts, replays

brokerVars == <<seen, delayed, deliveries, channel, work, letters, inbox, effects, excused,
                aborts, replays>>

Free == [n |-> 0, at |-> "idle"]

BrokerInit ==
    /\ seen = {} /\ delayed = {} /\ deliveries = <<>>
    /\ channel = [c \in Consumers |-> <<>>]
    /\ work = [c \in Consumers |-> Free]
    /\ letters = [id \in MessageIds |-> 0]
    /\ inbox = [id \in MessageIds |-> None]
    /\ effects = [id \in MessageIds |-> 0]
    /\ excused = {} /\ aborts = 0 /\ replays = 0

Subscribed == {c \in Consumers : channel[c] # None}
Message(c) == deliveries[work[c].n].id
At(c, place) == work[c].at = place

-----------------------------------------------------------------------------
(* The broker *)

\* A full channel overwrites its oldest delivery (Lagged).
Send(history, id, attempt) ==
    LET sent    == Append(history, [id |-> id, attempt |-> attempt, state |-> "pending"])
        behind  == {c \in Subscribed : Len(channel[c]) = Capacity}
        skipped == {deliveries[Head(channel[c])].id : c \in behind}
    IN  /\ deliveries' = sent
        /\ channel' = [c \in Consumers |->
                         IF c \notin Subscribed THEN None
                         ELSE Append(IF c \in behind THEN Tail(channel[c]) ELSE channel[c], Len(sent))]
        /\ excused' = excused \cup skipped \cup (IF Subscribed = {} THEN {id} ELSE {})

\* route_delivery: a key that was seen is dropped.
Publish(id) ==
    /\ seen' = seen \cup {id}
    /\ \/ /\ id \in seen
          /\ UNCHANGED <<delayed, deliveries, channel, excused>>
       \/ /\ id \notin seen
          /\ delayed' = delayed \cup {id}
          /\ UNCHANGED <<deliveries, channel, excused>>
       \/ /\ id \notin seen
          /\ Send(deliveries, id, 1)
          /\ UNCHANGED delayed
    /\ UNCHANGED <<work, letters, inbox, effects, aborts, replays>>

\* route_delivery_now, after the sleep.
Release(id) ==
    /\ id \in delayed
    /\ delayed' = delayed \ {id}
    /\ Send(deliveries, id, 1)
    /\ UNCHANGED <<seen, work, letters, inbox, effects, aborts, replays>>

\* replay_dead_letter: the record stays, and the key is not looked at.
Replay(id) ==
    /\ letters[id] > 0 /\ replays < ReplayBound
    /\ replays' = replays + 1
    /\ Send(deliveries, id, 1)
    /\ UNCHANGED <<seen, delayed, work, letters, inbox, effects, aborts>>

\* purge_dead_letter, clear_dead_letters.
Purge(ids) ==
    /\ ids # {} /\ \A id \in ids : letters[id] > 0
    /\ letters' = [id \in MessageIds |-> IF id \in ids THEN letters[id] - 1 ELSE letters[id]]
    /\ excused' = excused \cup ids
    /\ UNCHANGED <<seen, delayed, deliveries, channel, work, inbox, effects, aborts, replays>>

\* Delivery::ack and Delivery::nack: one compare_exchange decides.
Settled(n, state) == [deliveries EXCEPT ![n].state = state]

\* Mutant: the last attempt is dropped when it fails.
NackDropsLast(c) ==
    LET d == deliveries[work[c].n]
    IN  IF d.state # "pending"
        THEN UNCHANGED <<deliveries, channel, letters, excused>>
        ELSE /\ UNCHANGED letters
             /\ IF d.attempt + 1 > MaxAttempts
                THEN /\ deliveries' = Settled(work[c].n, "nacked")
                     /\ UNCHANGED <<channel, excused>>
                ELSE Send(Settled(work[c].n, "nacked"), d.id, d.attempt + 1)

\* requeue_or_dead_letter; nobody listens on the dead-letter topic here.
Nack(c) ==
    LET d == deliveries[work[c].n]
    IN  IF d.state # "pending"
        THEN UNCHANGED <<deliveries, channel, letters, excused>>
        ELSE IF d.attempt + 1 > MaxAttempts
             THEN /\ deliveries' = Settled(work[c].n, "nacked")
                  /\ letters' = [letters EXCEPT ![d.id] = @ + 1]
                  /\ UNCHANGED <<channel, excused>>
             ELSE /\ Send(Settled(work[c].n, "nacked"), d.id, d.attempt + 1)
                  /\ UNCHANGED letters

Ack(c) ==
    /\ deliveries' = IF deliveries[work[c].n].state = "pending"
                     THEN Settled(work[c].n, "acked") ELSE deliveries
    /\ UNCHANGED <<channel, letters, excused>>

-----------------------------------------------------------------------------
(* A consumer, and its handler *)

Receive(c) ==
    /\ At(c, "idle") /\ c \in Subscribed /\ channel[c] # <<>>
    /\ work' = [work EXCEPT ![c] = [n |-> Head(channel[c]), at |-> "begin"]]
    /\ channel' = [channel EXCEPT ![c] = Tail(@)]
    /\ UNCHANGED <<seen, delayed, deliveries, letters, inbox, effects, excused, aborts, replays>>

\* Mutant: a message that is being processed is started again.
BeginAgain(c) ==
    /\ At(c, "begin")
    /\ \/ /\ inbox[Message(c)] = "processed"
          /\ work' = [work EXCEPT ![c].at = "ack"]
          /\ UNCHANGED inbox
       \/ /\ inbox[Message(c)] # "processed"
          /\ inbox' = [inbox EXCEPT ![Message(c)] = "processing"]
          /\ work' = [work EXCEPT ![c].at = "run"]
    /\ UNCHANGED <<seen, delayed, deliveries, channel, letters, effects, excused, aborts, replays>>

\* InMemoryInbox::begin.  DuplicateProcessed is acknowledged, AlreadyProcessing is
\* an error; a failed message may still have to wait for its next attempt.
Begin(c) ==
    /\ At(c, "begin")
    /\ \/ /\ inbox[Message(c)] = "processed"
          /\ work' = [work EXCEPT ![c].at = "ack"]
          /\ UNCHANGED inbox
       \/ /\ inbox[Message(c)] \in {"processing", "failed"}
          /\ work' = [work EXCEPT ![c].at = "nack"]
          /\ UNCHANGED inbox
       \/ /\ inbox[Message(c)] \in {None, "failed"}
          /\ inbox' = [inbox EXCEPT ![Message(c)] = "processing"]
          /\ work' = [work EXCEPT ![c].at = "run"]
    /\ UNCHANGED <<seen, delayed, deliveries, channel, letters, effects, excused, aborts, replays>>

\* The business logic takes effect, or fails.
Execute(c) ==
    /\ At(c, "run")
    /\ \/ /\ effects' = [effects EXCEPT ![Message(c)] = @ + 1]
          /\ work' = [work EXCEPT ![c].at = "processed"]
       \/ /\ work' = [work EXCEPT ![c].at = "failed"]
          /\ UNCHANGED effects
    /\ UNCHANGED <<seen, delayed, deliveries, channel, letters, inbox, excused, aborts, replays>>

\* mark_processed, mark_failed.
Mark(c) ==
    /\ work[c].at \in {"processed", "failed"}
    /\ inbox' = [inbox EXCEPT ![Message(c)] = work[c].at]
    /\ work' = [work EXCEPT ![c].at = IF @ = "processed" THEN "ack" ELSE "nack"]
    /\ UNCHANGED <<seen, delayed, deliveries, channel, letters, effects, excused, aborts, replays>>

SettleDelivery(c) ==
    /\ \/ At(c, "ack") /\ Ack(c)
       \/ At(c, "nack") /\ Nack(c)
    /\ work' = [work EXCEPT ![c] = Free]
    /\ UNCHANGED <<seen, delayed, inbox, effects, aborts, replays>>

\* The task is aborted, and with it the receiver.
Abort(c) ==
    /\ c \in Subscribed /\ aborts < AbortBound
    /\ aborts' = aborts + 1
    /\ excused' = excused \cup {deliveries[n].id : n \in
                     {channel[c][i] : i \in DOMAIN channel[c]} \cup ({work[c].n} \ {0})}
    /\ channel' = [channel EXCEPT ![c] = None]
    /\ work' = [work EXCEPT ![c] = Free]
    /\ UNCHANGED <<seen, delayed, deliveries, letters, inbox, effects, replays>>

Subscribe(c) ==
    /\ c \notin Subscribed
    /\ channel' = [channel EXCEPT ![c] = <<>>]
    /\ UNCHANGED <<seen, delayed, deliveries, work, letters, inbox, effects, excused, aborts, replays>>

BrokerNext ==
    \/ \E id \in MessageIds : Publish(id) \/ Release(id) \/ Replay(id)
    \/ \E ids \in SUBSET MessageIds : Purge(ids)
    \/ \E c \in Consumers :
          \/ Receive(c) \/ Begin(c) \/ Execute(c) \/ Mark(c) \/ SettleDelivery(c)
          \/ Abort(c) \/ Subscribe(c)

BrokerSpec == BrokerInit /\ [][BrokerNext]_brokerVars

-----------------------------------------------------------------------------
(* Properties. *)

\* A message takes effect at most once, although every consumer receives it, it
\* is delivered again after a nack, and a dead letter is replayed; also when its
\* consumer is aborted between the effect and mark_processed
\* (docs/contracts/queue.md:193, idempotent consumption under at-least-once
\* delivery).
EffectOnce == \A id \in MessageIds : effects[id] <= 1

\* When nothing is under way, every message that the broker accepted has been
\* processed or has a dead letter, unless a consumer lagged past it, was aborted
\* with it, nobody was subscribed, or its record was purged: that the consumers'
\* copies of a delivery share one state never settles a message that failed.
NothingLost ==
    (/\ delayed = {}
     /\ \A c \in Consumers : At(c, "idle") /\ channel[c] \in {None, <<>>})
    => \A id \in seen : inbox[id] = "processed" \/ letters[id] > 0 \/ id \in excused

=============================================================================
