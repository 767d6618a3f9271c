-------------------------- MODULE MessagingProofs ---------------------------
(***************************************************************************)
(* Theorems about MessageBroker, for every set of messages and consumers,  *)
(* every bound of its channels and every retry policy: nothing is lost,    *)
(* and a handler that finished takes effect once; and about MemoryOutbox,  *)
(* for any messages, relays and crashes: what reopens a row, and that it   *)
(* implements EventOutbox.                                                 *)
(***************************************************************************)
EXTENDS MessageBroker, MemoryOutbox, OutboxRelayProofs

-----------------------------------------------------------------------------
(***************************************************************************)
(* MessageBroker                                                           *)
(***************************************************************************)

Deliveries == [id: MessageIds, attempt: Nat, state: {"pending", "acked", "nacked"}]

ProcessingStatuses == {"processing", "processed", "failed"}

BrokerTypeOK ==
    /\ seen \subseteq MessageIds /\ delayed \subseteq MessageIds
    /\ deliveries \in Seq(Deliveries)
    /\ channel \in [Consumers -> Seq(Nat) \cup {None}]
    /\ work \in [Consumers -> [n: Nat, at: {"idle", "begin", "run", "processed", "failed",
                                           "ack", "nack"}]]
    /\ letters \in [MessageIds -> Nat]
    /\ inbox \in [MessageIds -> ProcessingStatuses \cup {None}]
    /\ effects \in [MessageIds -> Nat]

Elements(s) == {s[i] : i \in DOMAIN s}

\* What is handled or waits was sent; who handles something is subscribed.
WorkIsSent ==
    /\ \A c \in Consumers : /\ At(c, "idle") => work[c].n = 0
                            /\ ~At(c, "idle") => /\ work[c].n \in DOMAIN deliveries
                                                 /\ c \in Subscribed
    /\ \A c \in Subscribed : Elements(channel[c]) \subseteq DOMAIN deliveries

Executes(c) == work[c].at \in {"run", "processed", "failed"}

\* Whoever has begun a message is alone with it until it is marked.
AloneWithIt ==
    /\ \A c \in Consumers : Executes(c) => inbox[Message(c)] = "processing"
    /\ \A c, d \in Consumers : Executes(c) /\ Executes(d) /\ Message(c) = Message(d) => c = d
    /\ \A c \in Consumers : work[c].at \in {"run", "failed"} => effects[Message(c)] = 0
    /\ \A c \in Consumers : At(c, "ack") => inbox[Message(c)] = "processed"
    /\ \A id \in MessageIds : inbox[id] \in {None, "failed"} => effects[id] = 0

\* A pending delivery that somebody has, or will receive.
Open(n) ==
    /\ n \in DOMAIN deliveries /\ deliveries[n].state = "pending"
    /\ \E c \in Consumers :
          \/ c \in Subscribed /\ n \in Elements(channel[c])
          \/ work[c].n = n

Safe(id) ==
    \/ inbox[id] = "processed" \/ letters[id] > 0 \/ id \in excused \/ id \in delayed
    \/ \E n \in DOMAIN deliveries : deliveries[n].id = id /\ Open(n)

AllSafe == \A id \in seen : Safe(id)

BrokerInv == BrokerTypeOK /\ WorkIsSent /\ AloneWithIt /\ EffectOnce /\ AllSafe

-----------------------------------------------------------------------------
(* What a send does *)

LEMMA SentLast ==
    ASSUME NEW S, NEW s \in Seq(S), NEW e \in S
    PROVE  /\ Append(s, e) \in Seq(S) /\ Len(s) \in Nat
           /\ DOMAIN Append(s, e) = 1..(Len(s) + 1) /\ DOMAIN s = 1..Len(s)
           /\ Append(s, e)[Len(s) + 1] = e
           /\ \A j \in DOMAIN s : Append(s, e)[j] = s[j]
           /\ Elements(Append(s, e)) = Elements(s) \cup {e}
<1>1. /\ Append(s, e) \in Seq(S) /\ Len(s) \in Nat
      /\ DOMAIN Append(s, e) = 1..(Len(s) + 1) /\ DOMAIN s = 1..Len(s)
      /\ Append(s, e)[Len(s) + 1] = e
      /\ \A j \in DOMAIN s : Append(s, e)[j] = s[j]
  OBVIOUS
<1>2. Elements(Append(s, e)) = Elements(s) \cup {e}
  BY <1>1 DEF Elements
<1> QED
  BY <1>1, <1>2, Zenon

LEMMA FirstLost ==
    ASSUME NEW S, NEW s \in Seq(S), s # <<>>
    PROVE  /\ Tail(s) \in Seq(S) /\ Head(s) \in Elements(s)
           /\ Elements(s) = Elements(Tail(s)) \cup {Head(s)}
<1>1. /\ Tail(s) \in Seq(S) /\ 1 \in DOMAIN s /\ Head(s) = s[1]
      /\ \A j \in DOMAIN Tail(s) : j + 1 \in DOMAIN s /\ Tail(s)[j] = s[j + 1]
      /\ \A j \in DOMAIN s : j = 1 \/ (j - 1 \in DOMAIN Tail(s) /\ Tail(s)[j - 1] = s[j])
  OBVIOUS
<1>2. ASSUME NEW n \in Elements(s) PROVE n \in Elements(Tail(s)) \cup {Head(s)}
  <2>1. PICK j \in DOMAIN s : s[j] = n
    BY Zenon DEF Elements
  <2> QED
    BY <1>1, <2>1, Zenon DEF Elements
<1>3. ASSUME NEW n \in Elements(Tail(s)) PROVE n \in Elements(s)
  <2>1. PICK j \in DOMAIN Tail(s) : Tail(s)[j] = n
    BY Zenon DEF Elements
  <2> QED
    BY <1>1, <2>1, Zenon DEF Elements
<1>4. Head(s) \in Elements(s)
  BY <1>1, Zenon DEF Elements
<1> QED
  BY <1>1, <1>2, <1>3, <1>4, Zenon

\* The number of the next delivery.
NextNumber == Len(deliveries) + 1

\* After a send of message id, on top of history, every subscriber will receive
\* it, and still receives what it would have, or the message is excused.
Sent(history, id) ==
    /\ deliveries' \in Seq(Deliveries) /\ DOMAIN deliveries' = 1..NextNumber
    /\ \A n \in DOMAIN deliveries : n \in DOMAIN deliveries' /\ deliveries'[n] = history[n]
    /\ deliveries'[NextNumber].id = id /\ deliveries'[NextNumber].state = "pending"
    /\ channel' \in [Consumers -> Seq(Nat) \cup {None}] /\ Subscribed' = Subscribed
    /\ excused \subseteq excused' /\ (Subscribed = {} => id \in excused')
    /\ \A c \in Subscribed :
          /\ Elements(channel'[c]) \subseteq DOMAIN deliveries' /\ NextNumber \in Elements(channel'[c])
          /\ \A n \in Elements(channel[c]) :
                deliveries[n].id \in excused' \/ n \in Elements(channel'[c])

\* What becomes of one subscriber's channel.
LEMMA ChannelSent ==
    ASSUME BrokerTypeOK, WorkIsSent, NEW c \in Subscribed, NEW kept,
           \/ kept = channel[c]
           \/ channel[c] # <<>> /\ kept = Tail(channel[c])
    PROVE  /\ Append(kept, NextNumber) \in Seq(Nat)
           /\ Elements(Append(kept, NextNumber)) \subseteq 1..NextNumber
           /\ NextNumber \in Elements(Append(kept, NextNumber))
           /\ \A n \in Elements(channel[c]) :
                 \/ kept # channel[c] /\ n = Head(channel[c])
                 \/ n \in Elements(Append(kept, NextNumber))
<1>1. /\ channel[c] \in Seq(Nat) /\ NextNumber \in Nat /\ DOMAIN deliveries \subseteq 1..NextNumber
      /\ NextNumber \in 1..NextNumber
  BY DEF BrokerTypeOK, Subscribed, NextNumber
<1>2. Elements(channel[c]) \subseteq 1..NextNumber
  BY <1>1, Zenon DEF WorkIsSent
<1>3. /\ kept \in Seq(Nat) /\ Elements(kept) \subseteq 1..NextNumber
      /\ \A n \in Elements(channel[c]) :
            (kept # channel[c] /\ n = Head(channel[c])) \/ n \in Elements(kept)
  <2>1. CASE kept = channel[c]
    BY <1>1, <1>2, <2>1, Zenon
  <2>2. CASE channel[c] # <<>> /\ kept = Tail(channel[c]) /\ kept # channel[c]
    <3>1. /\ Tail(channel[c]) \in Seq(Nat)
          /\ Elements(channel[c]) = Elements(Tail(channel[c])) \cup {Head(channel[c])}
      BY <1>1, <2>2, FirstLost, Zenon
    <3> QED
      BY <1>2, <2>2, <3>1, Zenon
  <2> QED
    BY <2>1, <2>2, Zenon
<1>4. /\ Append(kept, NextNumber) \in Seq(Nat)
      /\ Elements(Append(kept, NextNumber)) = Elements(kept) \cup {NextNumber}
  BY <1>1, <1>3, SentLast
<1> QED
  BY <1>1, <1>3, <1>4, Zenon

LEMMA SendEffect ==
    ASSUME BrokerTypeOK, WorkIsSent, NEW history \in Seq(Deliveries),
           Len(history) = Len(deliveries), NEW id \in MessageIds, NEW attempt \in Nat,
           Send(history, id, attempt)
    PROVE  Sent(history, id)
<1> DEFINE d == [id |-> id, attempt |-> attempt, state |-> "pending"]
           sent == Append(history, d)
           behind == {c \in Subscribed : Len(channel[c]) = Capacity}
           kept(c) == IF c \in behind THEN Tail(channel[c]) ELSE channel[c]
           skipped == {deliveries[Head(channel[c])].id : c \in behind}
<1>1. /\ deliveries' = sent
      /\ channel' = [c \in Consumers |-> IF c \notin Subscribed THEN None
                                         ELSE Append(kept(c), Len(sent))]
      /\ excused' = excused \cup skipped \cup (IF Subscribed = {} THEN {id} ELSE {})
  BY Zenon DEF Send
<1>2. /\ sent \in Seq(Deliveries) /\ Len(sent) = NextNumber /\ DOMAIN sent = 1..NextNumber
      /\ sent[NextNumber] = d /\ Len(deliveries) \in Nat
      /\ \A n \in DOMAIN deliveries : n \in DOMAIN sent /\ sent[n] = history[n]
  <2>1. d \in Deliveries
    BY Zenon DEF Deliveries
  <2> HIDE DEF d
  <2>2. /\ sent \in Seq(Deliveries) /\ Len(history) \in Nat
        /\ DOMAIN sent = 1..(Len(history) + 1) /\ DOMAIN history = 1..Len(history)
        /\ sent[Len(history) + 1] = d
        /\ \A j \in DOMAIN history : sent[j] = history[j]
    BY <2>1, SentLast
  <2> HIDE DEF sent
  <2>3. DOMAIN deliveries = 1..Len(deliveries)
    BY DEF BrokerTypeOK
  <2> QED
    BY <2>2, <2>3 DEF NextNumber
<1> HIDE DEF sent
<1>3. d.id = id /\ d.state = "pending"
  BY Zenon
<1> HIDE DEF d
<1>4. ASSUME NEW c \in Subscribed
      PROVE  /\ \/ kept(c) = channel[c]
                \/ channel[c] # <<>> /\ kept(c) = Tail(channel[c])
             /\ kept(c) # channel[c] => deliveries[Head(channel[c])].id \in skipped
  BY BrokerConstants, Zenon DEF BrokerTypeOK
<1> HIDE DEF kept, skipped
<1>5. ASSUME NEW c \in Subscribed
      PROVE  channel'[c] = Append(kept(c), NextNumber)
  BY <1>1, <1>2, Zenon DEF Subscribed
<1>6. ASSUME NEW c \in Subscribed
      PROVE  /\ channel'[c] \in Seq(Nat)
             /\ Elements(channel'[c]) \subseteq 1..NextNumber /\ NextNumber \in Elements(channel'[c])
             /\ \A n \in Elements(channel[c]) :
                   deliveries[n].id \in skipped \/ n \in Elements(channel'[c])
  <2>1. /\ Append(kept(c), NextNumber) \in Seq(Nat)
        /\ Elements(Append(kept(c), NextNumber)) \subseteq 1..NextNumber
        /\ NextNumber \in Elements(Append(kept(c), NextNumber))
        /\ \A n \in Elements(channel[c]) :
              \/ kept(c) # channel[c] /\ n = Head(channel[c])
              \/ n \in Elements(Append(kept(c), NextNumber))
    BY <1>4, ChannelSent, Zenon
  <2> QED
    BY <1>4, <1>5, <2>1, Zenon
<1>7. channel' \in [Consumers -> Seq(Nat) \cup {None}] /\ Subscribed' = Subscribed
  <2>1. \A c \in Consumers : c \notin Subscribed => channel'[c] = None
    BY <1>1, Zenon
  <2>2. \A c \in Consumers : channel'[c] \in Seq(Nat) \cup {None}
    BY <1>6, <2>1, Zenon
  <2>3. channel' \in [Consumers -> Seq(Nat) \cup {None}]
    BY <1>1, <2>2, Zenon
  <2>4. \A c \in Consumers : c \in Subscribed => channel'[c] # None
    BY <1>6, BrokerConstants, Zenon
  <2> QED
    BY <2>1, <2>3, <2>4, Zenon DEF Subscribed
<1>8. excused \subseteq excused' /\ skipped \subseteq excused' /\ (Subscribed = {} => id \in excused')
  BY <1>1, Zenon
<1> QED
  BY <1>1, <1>2, <1>3, <1>6, <1>7, <1>8, Zenon DEF Sent

-----------------------------------------------------------------------------
(* What the steps of the broker leave to the consumers *)

\* A delivery keeps its number and its message.
IdsStay ==
    \A n \in DOMAIN deliveries : n \in DOMAIN deliveries' /\ deliveries'[n].id = deliveries[n].id

LEMMA SameMessage ==
    ASSUME BrokerInv, IdsStay, NEW c \in Consumers, work'[c] = work[c], ~At(c, "idle")
    PROVE  Message(c)' = Message(c)
BY Zenon DEF BrokerInv, WorkIsSent, IdsStay, Message

\* A consumer is where it was, or has nothing begun.
LEMMA AloneStays ==
    ASSUME BrokerInv, IdsStay, UNCHANGED <<inbox, effects>>,
           \A c \in Consumers : work'[c] = work[c] \/ work'[c].at \in {"idle", "begin"}
    PROVE  AloneWithIt' /\ EffectOnce'
<1>1. ASSUME NEW c \in Consumers, Executes(c)' \/ At(c, "ack")'
      PROVE  work'[c] = work[c] /\ Message(c)' = Message(c)
  <2>1. work'[c] = work[c] /\ ~At(c, "idle")
    BY <1>1, Zenon DEF Executes, At
  <2> QED
    BY <2>1, SameMessage, Zenon
<1>2. \A c \in Consumers : Executes(c)' => Executes(c)
  BY <1>1, Zenon DEF Executes
<1>3. \A c \in Consumers : At(c, "ack")' => At(c, "ack")
  BY <1>1, Zenon DEF At
<1>4. \A c \in Consumers : work'[c].at \in {"run", "failed"} => Executes(c)'
  BY Zenon DEF Executes
<1>5. AloneWithIt'
  <2>1. \A c \in Consumers : Executes(c)' => inbox'[Message(c)'] = "processing"
    BY <1>1, <1>2, Zenon DEF BrokerInv, AloneWithIt
  <2>2. \A c, d \in Consumers : Executes(c)' /\ Executes(d)' /\ Message(c)' = Message(d)' => c = d
    BY <1>1, <1>2, ZenonT(30) DEF BrokerInv, AloneWithIt
  <2>3. \A c \in Consumers : work'[c].at \in {"run", "failed"} => effects'[Message(c)'] = 0
    BY <1>1, <1>4, Zenon DEF BrokerInv, AloneWithIt
  <2>4. \A c \in Consumers : At(c, "ack")' => inbox'[Message(c)'] = "processed"
    BY <1>1, <1>3, Zenon DEF BrokerInv, AloneWithIt
  <2>5. \A id \in MessageIds : inbox'[id] \in {None, "failed"} => effects'[id] = 0
    BY Zenon DEF BrokerInv, AloneWithIt
  <2> QED
    BY <2>1, <2>2, <2>3, <2>4, <2>5, Zenon DEF AloneWithIt
<1> QED
  BY <1>5, Zenon DEF BrokerInv, EffectOnce

\* Nothing is sent or received.
LEMMA QuietInv ==
    ASSUME BrokerInv, UNCHANGED <<deliveries, channel, work, inbox, effects>>,
           letters' \in [MessageIds -> Nat], excused \subseteq excused',
           \A id \in MessageIds : letters[id] > 0 => letters'[id] > 0 \/ id \in excused',
           delayed \subseteq delayed', delayed' \subseteq MessageIds, seen' \subseteq seen \cup delayed'
    PROVE  BrokerInv'
<1>1. BrokerTypeOK' /\ WorkIsSent'
  BY Zenon DEF BrokerInv, BrokerTypeOK, WorkIsSent, Subscribed, At
<1>2. AloneWithIt' /\ EffectOnce'
  BY AloneStays, Zenon DEF IdsStay
<1>3. \A n : Open(n)' <=> Open(n)
  BY Zenon DEF Open, Subscribed
<1>4. ASSUME NEW id \in seen, Safe(id) PROVE Safe(id)'
  <2>1. id \in MessageIds
    BY Zenon DEF BrokerInv, BrokerTypeOK
  <2> QED
    BY <1>3, <1>4, <2>1, Zenon DEF Safe
<1>5. \A id \in delayed' : Safe(id)'
  BY Zenon DEF Safe
<1>6. AllSafe'
  BY <1>4, <1>5, Zenon DEF BrokerInv, AllSafe
<1> QED
  BY <1>1, <1>2, <1>6, Zenon DEF BrokerInv

\* What is sent is safe: with the subscribers, or excused when there is none.
LEMMA SentSafe ==
    ASSUME BrokerTypeOK, NEW history, NEW id, Sent(history, id)
    PROVE  Safe(id)'
<1>1. CASE Subscribed = {}
  BY <1>1, Zenon DEF Sent, Safe
<1>2. ASSUME NEW c \in Subscribed PROVE Safe(id)'
  <2>1. /\ NextNumber \in DOMAIN deliveries' /\ deliveries'[NextNumber].state = "pending"
        /\ deliveries'[NextNumber].id = id
    BY Zenon DEF Sent, NextNumber, BrokerTypeOK
  <2>2. c \in Consumers /\ c \in Subscribed' /\ NextNumber \in Elements(channel'[c])
    BY <1>2, Zenon DEF Sent, Subscribed
  <2>3. \E n \in DOMAIN deliveries' :
           /\ deliveries'[n].id = id /\ deliveries'[n].state = "pending"
           /\ \E d \in Consumers : d \in Subscribed' /\ n \in Elements(channel'[d])
    BY <2>1, <2>2, Zenon
  <2> QED
    BY <2>3, Zenon DEF Safe, Open
<1> QED
  BY <1>1, <1>2, Zenon

\* A delivery that is open stays so, or its message is excused.
LEMMA OpenStays ==
    ASSUME BrokerInv, NEW history, NEW id, Sent(history, id), NEW n, Open(n),
           history[n] = deliveries[n],
           \A c \in Consumers : work[c].n = n => work'[c].n = n
    PROVE  Open(n)' \/ deliveries[n].id \in excused'
<1>1. n \in DOMAIN deliveries' /\ deliveries'[n].state = "pending"
  BY Zenon DEF Open, Sent
<1>2. PICK c \in Consumers : (c \in Subscribed /\ n \in Elements(channel[c])) \/ work[c].n = n
  BY Zenon DEF Open
<1>3. CASE c \in Subscribed /\ n \in Elements(channel[c])
  BY <1>1, <1>3, Zenon DEF Sent, Open
<1>4. CASE work[c].n = n
  BY <1>1, <1>4, Zenon DEF Open
<1> QED
  BY <1>2, <1>3, <1>4, Zenon

\* A message is sent, and a consumer may have let go of its delivery before.
LEMMA SentTypes ==
    ASSUME BrokerInv, NEW history, NEW id, Sent(history, id),
           \A c \in Consumers : work'[c] = work[c] \/ work'[c] = Free
    PROVE  WorkIsSent'
<1>1. ASSUME NEW c \in Consumers
      PROVE  /\ At(c, "idle")' => work'[c].n = 0
             /\ ~At(c, "idle")' => work'[c].n \in DOMAIN deliveries' /\ c \in Subscribed'
  <2>1. CASE work'[c] = work[c]
    BY <2>1, Zenon DEF BrokerInv, WorkIsSent, Sent, At
  <2>2. CASE work'[c] = Free
    BY <2>2 DEF Free, At
  <2> QED
    BY <2>1, <2>2, Zenon
<1>2. \A c \in Subscribed' : Elements(channel'[c]) \subseteq DOMAIN deliveries'
  BY Zenon DEF Sent
<1> QED
  BY <1>1, <1>2, Zenon DEF WorkIsSent

LEMMA SentInv ==
    ASSUME BrokerInv, NEW id \in MessageIds, Sent(deliveries, id),
           UNCHANGED <<work, inbox, effects, letters>>,
           seen' \subseteq seen \cup {id}, delayed' \subseteq MessageIds, delayed \subseteq delayed' \cup {id}
    PROVE  BrokerInv'
<1>1. BrokerTypeOK'
  BY Zenon DEF BrokerInv, BrokerTypeOK, Sent
<1>2. WorkIsSent'
  BY SentTypes, Zenon
<1>3. AloneWithIt' /\ EffectOnce'
  BY AloneStays, Zenon DEF IdsStay, Sent
<1>4. Safe(id)'
  BY SentSafe, Zenon DEF BrokerInv
<1>5. ASSUME NEW i \in seen, i # id PROVE Safe(i)'
  <2>1. Safe(i)
    BY Zenon DEF BrokerInv, AllSafe
  <2>2. CASE inbox[i] = "processed" \/ letters[i] > 0 \/ i \in excused \/ i \in delayed
    BY <1>5, <2>2, Zenon DEF Safe, Sent
  <2>3. ASSUME NEW n \in DOMAIN deliveries, deliveries[n].id = i, Open(n) PROVE Safe(i)'
    <3>1. Open(n)' \/ i \in excused'
      BY <2>3, OpenStays, Zenon
    <3>2. n \in DOMAIN deliveries' /\ deliveries'[n].id = i
      BY <2>3, Zenon DEF Sent
    <3> QED
      BY <3>1, <3>2, Zenon DEF Safe
  <2> QED
    BY <2>1, <2>2, <2>3, Zenon DEF Safe
<1>6. AllSafe'
  BY <1>4, <1>5, Zenon DEF AllSafe
<1> QED
  BY <1>1, <1>2, <1>3, <1>6, Zenon DEF BrokerInv

LEMMA BrokerSideInv ==
    ASSUME BrokerInv, NEW id \in MessageIds, Publish(id) \/ Release(id) \/ Replay(id)
    PROVE  BrokerInv'
<1>0. deliveries \in Seq(Deliveries) /\ letters \in [MessageIds -> Nat] /\ delayed \subseteq MessageIds
  BY Zenon DEF BrokerInv, BrokerTypeOK
<1>1. ASSUME Send(deliveries, id, 1) PROVE Sent(deliveries, id)
  BY <1>0, <1>1, SendEffect, Zenon DEF BrokerInv
<1>2. CASE Publish(id)
  <2>1. CASE id \in seen /\ UNCHANGED <<delayed, deliveries, channel, excused>>
    <3>1. seen' = seen /\ UNCHANGED <<work, letters, inbox, effects>>
      BY <1>2, <2>1, Zenon DEF Publish
    <3> QED
      BY <1>0, <2>1, <3>1, QuietInv, Zenon
  <2>2. CASE delayed' = delayed \cup {id} /\ UNCHANGED <<deliveries, channel, excused>>
    <3>1. seen' = seen \cup {id} /\ UNCHANGED <<work, letters, inbox, effects>>
      BY <1>2, Zenon DEF Publish
    <3> QED
      BY <1>0, <2>2, <3>1, QuietInv, Zenon
  <2>3. CASE Send(deliveries, id, 1) /\ UNCHANGED delayed
    <3>1. seen' = seen \cup {id} /\ UNCHANGED <<work, letters, inbox, effects>>
      BY <1>2, Zenon DEF Publish
    <3> QED
      BY <1>0, <1>1, <2>3, <3>1, SentInv, Zenon
  <2> QED
    BY <1>2, <2>1, <2>2, <2>3, Zenon DEF Publish
<1>3. CASE Release(id)
  BY <1>0, <1>1, <1>3, SentInv, Zenon DEF Release
<1>4. CASE Replay(id)
  BY <1>0, <1>1, <1>4, SentInv, Zenon DEF Replay
<1> QED
  BY <1>2, <1>3, <1>4, Zenon

LEMMA PurgeInv ==
    ASSUME BrokerInv, NEW ids \in SUBSET MessageIds, Purge(ids)
    PROVE  BrokerInv'
<1>1. /\ letters' \in [MessageIds -> Nat]
      /\ \A id \in MessageIds : letters[id] > 0 => letters'[id] > 0 \/ id \in excused'
  BY DEF BrokerInv, BrokerTypeOK, Purge
<1>2. /\ excused \subseteq excused' /\ UNCHANGED <<seen, delayed, deliveries, channel, work, inbox, effects>>
  BY Zenon DEF Purge
<1>3. delayed \subseteq MessageIds
  BY Zenon DEF BrokerInv, BrokerTypeOK
<1> QED
  BY <1>1, <1>2, <1>3, QuietInv, Zenon

LEMMA SubscribeInv ==
    ASSUME BrokerInv, NEW c \in Consumers, Subscribe(c)
    PROVE  BrokerInv'
<1>1. /\ channel[c] = None /\ channel' = [channel EXCEPT ![c] = <<>>]
      /\ UNCHANGED <<seen, delayed, deliveries, work, letters, inbox, effects, excused>>
  BY Zenon DEF Subscribe, Subscribed
<1>2. /\ channel' \in [Consumers -> Seq(Nat) \cup {None}] /\ channel'[c] = <<>>
      /\ \A d \in Consumers \ {c} : channel'[d] = channel[d]
  BY <1>1 DEF BrokerInv, BrokerTypeOK
<1>3. Subscribed \subseteq Subscribed' /\ Subscribed' \subseteq Subscribed \cup {c} /\ c \notin Subscribed
  BY <1>1, <1>2, Zenon DEF Subscribed
<1>4. Elements(<<>>) = {}
  BY DEF Elements
<1>5. BrokerTypeOK'
  BY <1>1, <1>2, Zenon DEF BrokerInv, BrokerTypeOK
<1>6. WorkIsSent'
  <2>1. \A d \in Subscribed' : Elements(channel'[d]) \subseteq DOMAIN deliveries
    BY <1>2, <1>3, <1>4, Zenon DEF BrokerInv, WorkIsSent, Subscribed
  <2> QED
    BY <1>1, <1>3, <2>1, Zenon DEF BrokerInv, WorkIsSent, At
<1>7. AloneWithIt' /\ EffectOnce'
  BY <1>1, AloneStays, Zenon DEF IdsStay
<1>8. \A n : Open(n) => Open(n)'
  BY <1>1, <1>2, <1>3, Zenon DEF Open
<1>9. AllSafe'
  BY <1>1, <1>8, Zenon DEF BrokerInv, AllSafe, Safe
<1> QED
  BY <1>5, <1>6, <1>7, <1>9, Zenon DEF BrokerInv

-----------------------------------------------------------------------------
(* The consumers *)

LEMMA ReceiveInv ==
    ASSUME BrokerInv, NEW c \in Consumers, Receive(c)
    PROVE  BrokerInv'
<1> DEFINE n == Head(channel[c])
<1>1. /\ At(c, "idle") /\ c \in Subscribed /\ channel[c] # <<>>
      /\ work' = [work EXCEPT ![c] = [n |-> n, at |-> "begin"]]
      /\ channel' = [channel EXCEPT ![c] = Tail(channel[c])]
      /\ UNCHANGED <<seen, delayed, deliveries, letters, inbox, effects, excused>>
  BY Zenon DEF Receive
<1>2. channel[c] \in Seq(Nat) /\ channel \in [Consumers -> Seq(Nat) \cup {None}]
  BY <1>1, Zenon DEF BrokerInv, BrokerTypeOK, Subscribed
<1>3. /\ Tail(channel[c]) \in Seq(Nat) /\ n \in Elements(channel[c])
      /\ Elements(channel[c]) = Elements(Tail(channel[c])) \cup {n}
  BY <1>1, <1>2, FirstLost, Zenon
<1>4. n \in DOMAIN deliveries /\ n \in Nat
  BY <1>1, <1>3 DEF BrokerInv, WorkIsSent, BrokerTypeOK
<1> HIDE DEF n
<1>5. /\ work'[c].n = n /\ work'[c].at = "begin" /\ BrokerTypeOK'
      /\ channel'[c] = Tail(channel[c])
      /\ \A d \in Consumers \ {c} : work'[d] = work[d] /\ channel'[d] = channel[d]
  BY <1>1, <1>2, <1>3, <1>4, Zenon DEF BrokerInv, BrokerTypeOK
<1>6. Subscribed' = Subscribed
  BY <1>1, <1>3, <1>5, BrokerConstants, Zenon DEF Subscribed
<1>7. WorkIsSent'
  <2>1. \A d \in Subscribed : Elements(channel'[d]) \subseteq DOMAIN deliveries
    BY <1>3, <1>5, Zenon DEF BrokerInv, WorkIsSent, Subscribed
  <2>2. ASSUME NEW d \in Consumers
        PROVE  /\ At(d, "idle")' => work'[d].n = 0
               /\ ~At(d, "idle")' => work'[d].n \in DOMAIN deliveries /\ d \in Subscribed
    BY <1>1, <1>4, <1>5, Zenon DEF BrokerInv, WorkIsSent, At
  <2> QED
    BY <1>1, <1>6, <2>1, <2>2, Zenon DEF WorkIsSent
<1>8. AloneWithIt' /\ EffectOnce'
  BY <1>1, <1>5, AloneStays, Zenon DEF IdsStay
<1>9. ASSUME NEW m, Open(m) PROVE Open(m)'
  <2>1. m \in DOMAIN deliveries /\ deliveries[m].state = "pending" /\ m # 0
    BY <1>9 DEF Open, BrokerInv, BrokerTypeOK
  <2>2. PICK d \in Consumers : (d \in Subscribed /\ m \in Elements(channel[d])) \/ work[d].n = m
    BY <1>9, Zenon DEF Open
  <2>3. work[c].n = 0
    BY <1>1, Zenon DEF BrokerInv, WorkIsSent
  <2>4. (d \in Subscribed /\ m \in Elements(channel'[d])) \/ work'[d].n = m
    BY <1>3, <1>5, <2>1, <2>2, <2>3, Zenon
  <2> QED
    BY <1>1, <1>6, <2>1, <2>4, Zenon DEF Open
<1>10. AllSafe'
  BY <1>1, <1>9, Zenon DEF BrokerInv, AllSafe, Safe
<1> QED
  BY <1>5, <1>7, <1>8, <1>10, Zenon DEF BrokerInv

LEMMA MessageKnown ==
    ASSUME BrokerInv, NEW c \in Consumers, ~At(c, "idle")
    PROVE  Message(c) \in MessageIds
<1>1. work[c].n \in DOMAIN deliveries
  BY Zenon DEF BrokerInv, WorkIsSent
<1>2. deliveries[work[c].n] \in Deliveries
  BY <1>1 DEF BrokerInv, BrokerTypeOK
<1> QED
  BY <1>2, Zenon DEF Deliveries, Message

\* A consumer goes on with its delivery.
GoesOn(c, place) ==
    /\ ~At(c, "idle") /\ work'[c].at = place
    /\ \A d \in Consumers : work'[d].n = work[d].n /\ Message(d)' = Message(d)
    /\ \A d \in Consumers \ {c} : work'[d] = work[d]
    /\ UNCHANGED <<seen, delayed, deliveries, channel, letters, excused>>

LEMMA GoesOnBy ==
    ASSUME BrokerInv, NEW c \in Consumers, ~At(c, "idle"),
           NEW place \in {"begin", "run", "processed", "failed", "ack", "nack"},
           work' = [work EXCEPT ![c].at = place],
           UNCHANGED <<seen, delayed, deliveries, channel, letters, excused>>
    PROVE  /\ GoesOn(c, place) /\ Message(c) \in MessageIds
           /\ work' \in [Consumers -> [n: Nat, at: {"idle", "begin", "run", "processed", "failed",
                                                   "ack", "nack"}]]
<1> DEFINE Work == [n: Nat, at: {"idle", "begin", "run", "processed", "failed", "ack", "nack"}]
           moved == [work[c] EXCEPT !.at = place]
<1>1. work \in [Consumers -> Work] /\ work[c] \in Work
  BY Zenon DEF BrokerInv, BrokerTypeOK
<1>2. moved \in Work /\ moved.n = work[c].n /\ moved.at = place
  BY <1>1, Zenon
<1>3. work' = [work EXCEPT ![c] = moved]
  BY Zenon
<1> HIDE DEF moved, Work
<1>4. /\ work' \in [Consumers -> Work] /\ work'[c] = moved
      /\ \A d \in Consumers \ {c} : work'[d] = work[d]
  BY <1>1, <1>2, <1>3, Zenon
<1>5. \A d \in Consumers : work'[d].n = work[d].n
  BY <1>2, <1>4, Zenon
<1>6. \A d \in Consumers : Message(d)' = Message(d)
  BY <1>5, Zenon DEF Message
<1>7. Message(c) \in MessageIds
  BY MessageKnown, Zenon
<1> QED
  BY <1>2, <1>4, <1>5, <1>6, <1>7, Zenon DEF GoesOn, Work

\* What is safe stays so while a consumer goes on, if what is processed stays so.
LEMMA GoesOnKeeps ==
    ASSUME BrokerInv, NEW c \in Consumers, NEW place, place # "idle", GoesOn(c, place),
           \A id \in MessageIds : inbox[id] = "processed" => inbox'[id] = "processed"
    PROVE  WorkIsSent' /\ AllSafe'
<1>1. Subscribed' = Subscribed
  BY Zenon DEF GoesOn, Subscribed
<1>2. \A d \in Consumers : At(d, "idle")' <=> At(d, "idle")
  BY Zenon DEF GoesOn, At
<1>3. WorkIsSent'
  BY <1>1, <1>2, Zenon DEF BrokerInv, WorkIsSent, GoesOn
<1>4. \A n : Open(n) => Open(n)'
  BY <1>1, Zenon DEF Open, GoesOn
<1>5. seen \subseteq MessageIds
  BY Zenon DEF BrokerInv, BrokerTypeOK
<1>6. AllSafe'
  BY <1>4, <1>5, Zenon DEF BrokerInv, AllSafe, Safe, GoesOn
<1> QED
  BY <1>3, <1>6, Zenon

LEMMA BeginInv ==
    ASSUME BrokerInv, NEW c \in Consumers, Begin(c)
    PROVE  BrokerInv'
<1> DEFINE m == Message(c)
<1>1. /\ At(c, "begin") /\ ~At(c, "idle")
      /\ UNCHANGED <<seen, delayed, deliveries, channel, letters, effects, excused>>
  BY Zenon DEF Begin, At
<1>2. PICK place \in {"ack", "nack", "run"} :
         /\ work' = [work EXCEPT ![c].at = place]
         /\ place = "ack" => inbox[m] = "processed"
         /\ \/ place # "run" /\ UNCHANGED inbox
            \/ /\ place = "run" /\ inbox[m] \in {None, "failed"}
               /\ inbox' = [inbox EXCEPT ![m] = "processing"]
  BY Zenon DEF Begin
<1>3. /\ GoesOn(c, place) /\ m \in MessageIds
      /\ work' \in [Consumers -> [n: Nat, at: {"idle", "begin", "run", "processed", "failed",
                                              "ack", "nack"}]]
  BY <1>1, <1>2, GoesOnBy, Zenon
<1>4. /\ \A d \in Consumers : Message(d)' = Message(d)
      /\ \A d \in Consumers \ {c} : work'[d] = work[d]
      /\ work'[c].at = place
  BY <1>3, Zenon DEF GoesOn
<1>5. BrokerTypeOK'
  BY <1>1, <1>2, <1>3, Zenon DEF BrokerInv, BrokerTypeOK, ProcessingStatuses
<1>6. inbox \in [MessageIds -> ProcessingStatuses \cup {None}] /\ ~Executes(c)
  BY <1>1, Zenon DEF BrokerInv, BrokerTypeOK, At, Executes
<1>7. \A id \in MessageIds : inbox[id] = "processed" => inbox'[id] = "processed"
  BY <1>2, <1>3, <1>6, BrokerConstants, Zenon
<1>8. WorkIsSent' /\ AllSafe'
  BY <1>2, <1>3, <1>7, GoesOnKeeps, Zenon
<1> HIDE DEF m
<1>9. CASE place # "run"
  <2>1. \A d \in Consumers : Executes(d)' => d # c /\ Executes(d)
    BY <1>2, <1>4, <1>9, Zenon DEF Executes
  <2>2. \A d \in Consumers : At(d, "ack")' => inbox[Message(d)] = "processed"
    BY <1>2, <1>4, <1>6, Zenon DEF At, BrokerInv, AloneWithIt, m
  <2>3. \A d \in Consumers : work'[d].at \in {"run", "failed"} => d # c /\ work[d].at \in {"run", "failed"}
    BY <1>2, <1>4, <1>9, Zenon
  <2>4. AloneWithIt'
    <3>1. \A d \in Consumers : Executes(d)' => inbox'[Message(d)'] = "processing"
      BY <1>2, <1>4, <1>9, <2>1, Zenon DEF BrokerInv, AloneWithIt
    <3>2. \A d, e \in Consumers : Executes(d)' /\ Executes(e)' /\ Message(d)' = Message(e)' => d = e
      BY <1>4, <2>1, ZenonT(30) DEF BrokerInv, AloneWithIt
    <3>3. \A d \in Consumers : work'[d].at \in {"run", "failed"} => effects'[Message(d)'] = 0
      BY <1>1, <1>4, <2>3, Zenon DEF BrokerInv, AloneWithIt
    <3>4. \A d \in Consumers : At(d, "ack")' => inbox'[Message(d)'] = "processed"
      BY <1>2, <1>4, <1>9, <2>2, Zenon
    <3>5. \A id \in MessageIds : inbox'[id] \in {None, "failed"} => effects'[id] = 0
      BY <1>1, <1>2, <1>9, Zenon DEF BrokerInv, AloneWithIt
    <3> QED
      BY <3>1, <3>2, <3>3, <3>4, <3>5, Zenon DEF AloneWithIt
  <2> QED
    BY <1>1, <1>5, <1>8, <2>4, Zenon DEF BrokerInv, EffectOnce
<1>10. CASE place = "run"
  <2>1. inbox[m] \in {None, "failed"} /\ inbox' = [inbox EXCEPT ![m] = "processing"]
    BY <1>2, <1>10, Zenon
  <2>2. \A d \in Consumers : Executes(d) => Message(d) # m
    BY <2>1, BrokerConstants, Zenon DEF BrokerInv, AloneWithIt
  <2>3. /\ inbox'[m] = "processing" /\ \A id \in MessageIds \ {m} : inbox'[id] = inbox[id]
    BY <1>3, <1>6, <2>1, Zenon
  <2>4. \A d \in Consumers : Executes(d)' => d = c \/ Executes(d)
    BY <1>4, Zenon DEF Executes
  <2>5. \A d \in Consumers : ~At(d, "idle") => Message(d) \in MessageIds
    BY MessageKnown, Zenon
  <2>6. \A d \in Consumers : Executes(d)' => inbox'[Message(d)] = "processing"
    <3>1. \A d \in Consumers : Executes(d) => Message(d) \in MessageIds
      BY <2>5, Zenon DEF Executes, At
    <3> QED
      BY <2>2, <2>3, <2>4, <3>1, Zenon DEF BrokerInv, AloneWithIt, m
  <2>7. \A d, e \in Consumers : Executes(d)' /\ Executes(e)' /\ Message(d) = Message(e) => d = e
    BY <2>2, <2>4, Zenon DEF BrokerInv, AloneWithIt, m
  <2>8. effects[m] = 0
    BY <1>3, <2>1, Zenon DEF BrokerInv, AloneWithIt
  <2>9. \A d \in Consumers : work'[d].at \in {"run", "failed"} => effects[Message(d)] = 0
    BY <1>4, <2>8, Zenon DEF BrokerInv, AloneWithIt, m
  <2>10. \A d \in Consumers : At(d, "ack")' => inbox'[Message(d)] = "processed"
    <3>1. \A d \in Consumers : At(d, "ack")' => At(d, "ack") /\ Message(d) \in MessageIds
      BY <1>4, <1>10, <2>5, Zenon DEF At
    <3> QED
      BY <1>7, <3>1, Zenon DEF BrokerInv, AloneWithIt
  <2>11. \A id \in MessageIds : inbox'[id] \in {None, "failed"} => effects[id] = 0
    BY <2>3, <2>8, Zenon DEF BrokerInv, AloneWithIt
  <2>12. AloneWithIt'
    BY <1>1, <1>4, <2>6, <2>7, <2>9, <2>10, <2>11, Zenon DEF AloneWithIt
  <2> QED
    BY <1>1, <1>5, <1>8, <2>12, Zenon DEF BrokerInv, EffectOnce
<1> QED
  BY <1>9, <1>10, Zenon

LEMMA ExecuteInv ==
    ASSUME BrokerInv, NEW c \in Consumers, Execute(c)
    PROVE  BrokerInv'
<1> DEFINE m == Message(c)
<1>1. /\ At(c, "run") /\ ~At(c, "idle") /\ Executes(c)
      /\ UNCHANGED <<seen, delayed, deliveries, channel, letters, inbox, excused>>
  BY Zenon DEF Execute, At, Executes
<1>2. PICK place \in {"processed", "failed"} :
         /\ work' = [work EXCEPT ![c].at = place]
         /\ \/ place = "processed" /\ effects' = [effects EXCEPT ![m] = effects[m] + 1]
            \/ place = "failed" /\ UNCHANGED effects
  BY Zenon DEF Execute
<1>3. /\ GoesOn(c, place) /\ m \in MessageIds
      /\ work' \in [Consumers -> [n: Nat, at: {"idle", "begin", "run", "processed", "failed",
                                              "ack", "nack"}]]
  BY <1>1, <1>2, GoesOnBy, Zenon
<1>4. /\ \A d \in Consumers : Message(d)' = Message(d)
      /\ \A d \in Consumers \ {c} : work'[d] = work[d]
      /\ work'[c].at = place
  BY <1>3, Zenon DEF GoesOn
<1>5. /\ inbox[m] = "processing" /\ effects[m] = 0 /\ effects \in [MessageIds -> Nat]
      /\ \A d \in Consumers \ {c} : Executes(d) => Message(d) # m
  BY <1>1, Zenon DEF BrokerInv, AloneWithIt, BrokerTypeOK, At
<1>6. WorkIsSent' /\ AllSafe'
  BY <1>1, <1>2, <1>3, GoesOnKeeps, Zenon
<1>7. \A d \in Consumers : ~At(d, "idle") => Message(d) \in MessageIds
  BY MessageKnown, Zenon
<1> HIDE DEF m
<1>8. /\ effects' \in [MessageIds -> Nat] /\ effects'[m] \in {0, 1} /\ (place = "failed" => effects'[m] = 0)
      /\ \A id \in MessageIds \ {m} : effects'[id] = effects[id]
  BY <1>2, <1>3, <1>5
<1>9. BrokerTypeOK'
  BY <1>1, <1>3, <1>8, Zenon DEF BrokerInv, BrokerTypeOK
<1>10. EffectOnce'
  BY <1>8 DEF BrokerInv, EffectOnce
<1>11. \A d \in Consumers : Executes(d)' => Executes(d)
  BY <1>1, <1>4, Zenon DEF Executes
<1>12. AloneWithIt'
  <2>1. \A d \in Consumers : Executes(d)' => inbox'[Message(d)'] = "processing"
    BY <1>1, <1>4, <1>11, Zenon DEF BrokerInv, AloneWithIt
  <2>2. \A d, e \in Consumers : Executes(d)' /\ Executes(e)' /\ Message(d)' = Message(e)' => d = e
    BY <1>4, <1>11, ZenonT(30) DEF BrokerInv, AloneWithIt
  <2>3. ASSUME NEW d \in Consumers, work'[d].at \in {"run", "failed"}
        PROVE  effects'[Message(d)'] = 0
    <3>1. CASE d = c
      BY <1>2, <1>4, <1>8, <2>3, <3>1, Zenon DEF m
    <3>2. CASE d # c
      <4>1. Executes(d) /\ ~At(d, "idle") /\ work[d].at \in {"run", "failed"}
        BY <1>4, <2>3, <3>2, Zenon DEF Executes, At
      <4>2. Message(d) \in MessageIds \ {m} /\ effects[Message(d)] = 0
        BY <1>5, <1>7, <3>2, <4>1, Zenon DEF BrokerInv, AloneWithIt
      <4> QED
        BY <1>4, <1>8, <4>2, Zenon
    <3> QED
      BY <3>1, <3>2, Zenon
  <2>4. \A d \in Consumers : At(d, "ack")' => inbox'[Message(d)'] = "processed"
    BY <1>1, <1>2, <1>4, Zenon DEF At, BrokerInv, AloneWithIt
  <2>5. \A id \in MessageIds : inbox'[id] \in {None, "failed"} => effects'[id] = 0
    BY <1>1, <1>5, <1>8, BrokerConstants, Zenon DEF BrokerInv, AloneWithIt
  <2> QED
    BY <2>1, <2>2, <2>3, <2>4, <2>5, Zenon DEF AloneWithIt
<1> QED
  BY <1>6, <1>9, <1>10, <1>12, Zenon DEF BrokerInv

LEMMA MarkInv ==
    ASSUME BrokerInv, NEW c \in Consumers, Mark(c)
    PROVE  BrokerInv'
<1> DEFINE m == Message(c)
           place == IF work[c].at = "processed" THEN "ack" ELSE "nack"
<1>1. /\ work[c].at \in {"processed", "failed"} /\ ~At(c, "idle") /\ Executes(c)
      /\ UNCHANGED <<seen, delayed, deliveries, channel, letters, effects, excused>>
  BY Zenon DEF Mark, At, Executes
<1>2. work' = [work EXCEPT ![c].at = place] /\ inbox' = [inbox EXCEPT ![m] = work[c].at]
  BY Zenon DEF Mark
<1>3. /\ GoesOn(c, place) /\ m \in MessageIds
      /\ work' \in [Consumers -> [n: Nat, at: {"idle", "begin", "run", "processed", "failed",
                                              "ack", "nack"}]]
  BY <1>1, <1>2, GoesOnBy, Zenon
<1>4. /\ \A d \in Consumers : Message(d)' = Message(d)
      /\ \A d \in Consumers \ {c} : work'[d] = work[d]
      /\ work'[c].at = place
  BY <1>3, Zenon DEF GoesOn
<1>5. /\ inbox[m] = "processing" /\ inbox \in [MessageIds -> ProcessingStatuses \cup {None}]
      /\ work[c].at = "failed" => effects[m] = 0
      /\ \A d \in Consumers \ {c} : Executes(d) => Message(d) # m
  BY <1>1, Zenon DEF BrokerInv, AloneWithIt, BrokerTypeOK
<1>6. \A d \in Consumers : ~At(d, "idle") => Message(d) \in MessageIds
  BY MessageKnown, Zenon
<1> HIDE DEF m
<1>7. /\ inbox' \in [MessageIds -> ProcessingStatuses \cup {None}] /\ inbox'[m] = work[c].at
      /\ \A id \in MessageIds \ {m} : inbox'[id] = inbox[id]
  BY <1>1, <1>2, <1>3, <1>5, Zenon DEF ProcessingStatuses
<1>8. WorkIsSent' /\ AllSafe'
  <2>1. \A id \in MessageIds : inbox[id] = "processed" => inbox'[id] = "processed"
    BY <1>5, <1>7, Zenon
  <2> QED
    BY <1>3, <2>1, GoesOnKeeps, Zenon
<1>9. BrokerTypeOK'
  BY <1>1, <1>3, <1>7, Zenon DEF BrokerInv, BrokerTypeOK
<1>10. \A d \in Consumers : Executes(d)' => d # c /\ Executes(d) /\ Message(d) \in MessageIds \ {m}
  <2>1. \A d \in Consumers : Executes(d)' => d # c /\ Executes(d)
    BY <1>4, Zenon DEF Executes
  <2>2. \A d \in Consumers : Executes(d) => ~At(d, "idle")
    BY Zenon DEF Executes, At
  <2> QED
    BY <1>5, <1>6, <2>1, <2>2, Zenon
<1>11. AloneWithIt'
  <2>1. \A d \in Consumers : Executes(d)' => inbox'[Message(d)'] = "processing"
    BY <1>4, <1>7, <1>10, Zenon DEF BrokerInv, AloneWithIt
  <2>2. \A d, e \in Consumers : Executes(d)' /\ Executes(e)' /\ Message(d)' = Message(e)' => d = e
    BY <1>4, <1>10, ZenonT(30) DEF BrokerInv, AloneWithIt
  <2>3. \A d \in Consumers : work'[d].at \in {"run", "failed"} => effects'[Message(d)'] = 0
    BY <1>1, <1>4, Zenon DEF BrokerInv, AloneWithIt
  <2>4. ASSUME NEW d \in Consumers, At(d, "ack")' PROVE inbox'[Message(d)'] = "processed"
    <3>1. CASE d = c
      BY <1>1, <1>4, <1>7, <2>4, <3>1, Zenon DEF At, m
    <3>2. CASE d # c
      <4>1. At(d, "ack") /\ ~At(d, "idle")
        BY <1>4, <2>4, <3>2, Zenon DEF At
      <4>2. inbox[Message(d)] = "processed" /\ Message(d) \in MessageIds \ {m}
        BY <1>5, <1>6, <4>1, Zenon DEF BrokerInv, AloneWithIt
      <4> QED
        BY <1>4, <1>7, <4>2, Zenon
    <3> QED
      BY <3>1, <3>2, Zenon
  <2>5. \A id \in MessageIds : inbox'[id] \in {None, "failed"} => effects'[id] = 0
    BY <1>1, <1>5, <1>7, BrokerConstants, Zenon DEF BrokerInv, AloneWithIt
  <2> QED
    BY <2>1, <2>2, <2>3, <2>4, <2>5, Zenon DEF AloneWithIt
<1> QED
  BY <1>1, <1>8, <1>9, <1>11, Zenon DEF BrokerInv, EffectOnce

-----------------------------------------------------------------------------
(* A consumer lets go of its delivery *)

LEMMA SettledIs ==
    ASSUME BrokerTypeOK, NEW n \in DOMAIN deliveries, NEW state \in {"acked", "nacked"}
    PROVE  /\ Settled(n, state) \in Seq(Deliveries) /\ Len(Settled(n, state)) = Len(deliveries)
           /\ DOMAIN Settled(n, state) = DOMAIN deliveries
           /\ Settled(n, state)[n].id = deliveries[n].id
           /\ \A m \in DOMAIN deliveries : m # n => Settled(n, state)[m] = deliveries[m]
<1> DEFINE d == [deliveries[n] EXCEPT !.state = state]
<1>1. deliveries \in Seq(Deliveries) /\ deliveries[n] \in Deliveries
  BY DEF BrokerTypeOK
<1>2. d \in Deliveries /\ d.id = deliveries[n].id
  BY <1>1, Zenon DEF Deliveries
<1> HIDE DEF d
<1>3. Settled(n, state) = [deliveries EXCEPT ![n] = d]
  BY Zenon DEF Settled, d
<1>4. /\ [deliveries EXCEPT ![n] = d] \in Seq(Deliveries)
      /\ Len([deliveries EXCEPT ![n] = d]) = Len(deliveries)
      /\ DOMAIN [deliveries EXCEPT ![n] = d] = DOMAIN deliveries
      /\ [deliveries EXCEPT ![n] = d][n] = d
      /\ \A m \in DOMAIN deliveries : m # n => [deliveries EXCEPT ![n] = d][m] = deliveries[m]
  BY <1>1, <1>2
<1> QED
  BY <1>2, <1>3, <1>4, Zenon

LEMMA SetFree ==
    ASSUME BrokerTypeOK, NEW c \in Consumers, work' = [work EXCEPT ![c] = Free]
    PROVE  /\ work' \in [Consumers -> [n: Nat, at: {"idle", "begin", "run", "processed", "failed",
                                                   "ack", "nack"}]]
           /\ work'[c] = Free /\ Free.n = 0 /\ Free.at = "idle"
           /\ \A d \in Consumers \ {c} : work'[d] = work[d]
<1>1. /\ Free \in [n: Nat, at: {"idle", "begin", "run", "processed", "failed", "ack", "nack"}]
      /\ Free.n = 0 /\ Free.at = "idle"
  BY Zenon DEF Free
<1> QED
  BY <1>1, Zenon DEF BrokerTypeOK

\* The delivery is settled, and nothing is sent.
LEMMA FreedInv ==
    ASSUME BrokerInv, NEW c \in Consumers, ~At(c, "idle"), work' = [work EXCEPT ![c] = Free],
           UNCHANGED <<seen, delayed, channel, inbox, effects, excused>>,
           deliveries' \in Seq(Deliveries), DOMAIN deliveries' = DOMAIN deliveries,
           deliveries'[work[c].n].id = Message(c),
           \A n \in DOMAIN deliveries : n # work[c].n => deliveries'[n] = deliveries[n],
           letters' \in [MessageIds -> Nat], \A id \in MessageIds : letters[id] > 0 => letters'[id] > 0,
           deliveries[work[c].n].state = "pending" => \A id \in MessageIds : id = Message(c) => Safe(id)'
    PROVE  BrokerInv'
<1>1. /\ work' \in [Consumers -> [n: Nat, at: {"idle", "begin", "run", "processed", "failed",
                                              "ack", "nack"}]]
      /\ work'[c] = Free /\ Free.n = 0 /\ Free.at = "idle"
      /\ \A d \in Consumers \ {c} : work'[d] = work[d]
  BY SetFree, Zenon DEF BrokerInv
<1>2. BrokerTypeOK'
  BY <1>1, Zenon DEF BrokerInv, BrokerTypeOK
<1>3. Subscribed' = Subscribed
  BY Zenon DEF Subscribed
<1>4. WorkIsSent'
  <2>1. ASSUME NEW d \in Consumers
        PROVE  /\ At(d, "idle")' => work'[d].n = 0
               /\ ~At(d, "idle")' => work'[d].n \in DOMAIN deliveries' /\ d \in Subscribed'
    BY <1>1, <1>3, Zenon DEF BrokerInv, WorkIsSent, At
  <2> QED
    BY <1>3, <2>1, Zenon DEF BrokerInv, WorkIsSent
<1>5. IdsStay
  BY Zenon DEF IdsStay, Message
<1>6. AloneWithIt' /\ EffectOnce'
  BY <1>1, <1>5, AloneStays, Zenon
<1>7. ASSUME NEW n \in DOMAIN deliveries, n # work[c].n, Open(n) PROVE Open(n)'
  BY <1>1, <1>3, <1>7, Zenon DEF Open
<1>8. ASSUME NEW id \in seen PROVE Safe(id)'
  <2>1. id \in MessageIds /\ Safe(id)
    BY Zenon DEF BrokerInv, BrokerTypeOK, AllSafe
  <2>2. CASE inbox[id] = "processed" \/ letters[id] > 0 \/ id \in excused \/ id \in delayed
    BY <2>1, <2>2, Zenon DEF Safe
  <2>3. ASSUME NEW n \in DOMAIN deliveries, deliveries[n].id = id, Open(n) PROVE Safe(id)'
    <3>1. CASE n = work[c].n
      BY <2>1, <2>3, <3>1, Zenon DEF Open, Message
    <3>2. CASE n # work[c].n
      BY <1>7, <2>3, <3>2, Zenon DEF Safe
    <3> QED
      BY <3>1, <3>2, Zenon
  <2> QED
    BY <2>1, <2>2, <2>3, Zenon DEF Safe
<1> QED
  BY <1>2, <1>4, <1>6, <1>8, Zenon DEF BrokerInv, AllSafe

\* The delivery is settled, and its message sent again.
LEMMA SentAgainInv ==
    ASSUME BrokerInv, NEW c \in Consumers, ~At(c, "idle"), work' = [work EXCEPT ![c] = Free],
           UNCHANGED <<seen, delayed, inbox, effects, letters>>,
           Sent(Settled(work[c].n, "nacked"), Message(c))
    PROVE  BrokerInv'
<1> DEFINE n0 == work[c].n
           h == Settled(n0, "nacked")
<1>1. /\ work' \in [Consumers -> [n: Nat, at: {"idle", "begin", "run", "processed", "failed",
                                              "ack", "nack"}]]
      /\ work'[c] = Free /\ Free.n = 0 /\ Free.at = "idle"
      /\ \A d \in Consumers \ {c} : work'[d] = work[d]
  BY SetFree, Zenon DEF BrokerInv
<1>2. n0 \in DOMAIN deliveries
  BY Zenon DEF BrokerInv, WorkIsSent
<1>3. /\ h[n0].id = deliveries[n0].id
      /\ \A m \in DOMAIN deliveries : m # n0 => h[m] = deliveries[m]
  BY <1>2, SettledIs, Zenon DEF BrokerInv
<1> HIDE DEF h
<1>4. Sent(h, Message(c))
  BY Zenon DEF h
<1>5. BrokerTypeOK'
  BY <1>1, <1>4, Zenon DEF BrokerInv, BrokerTypeOK, Sent
<1>6. WorkIsSent'
  BY <1>1, <1>4, SentTypes, Zenon
<1>7. IdsStay
  BY <1>3, <1>4, Zenon DEF IdsStay, Sent
<1>8. AloneWithIt' /\ EffectOnce'
  BY <1>1, <1>7, AloneStays, Zenon
<1>9. ASSUME NEW id, id = Message(c) PROVE Safe(id)'
  <2>1. Sent(h, id)
    BY <1>4, <1>9, Zenon
  <2> QED
    BY <2>1, SentSafe, Zenon DEF BrokerInv
<1>10. ASSUME NEW id \in seen, id # Message(c) PROVE Safe(id)'
  <2>1. Safe(id)
    BY Zenon DEF BrokerInv, AllSafe
  <2>2. CASE inbox[id] = "processed" \/ letters[id] > 0 \/ id \in excused \/ id \in delayed
    BY <1>4, <2>2, Zenon DEF Safe, Sent
  <2>3. ASSUME NEW n \in DOMAIN deliveries, deliveries[n].id = id, Open(n) PROVE Safe(id)'
    <3>1. n # n0 /\ h[n] = deliveries[n]
      BY <1>3, <1>10, <2>3, Zenon DEF Message
    <3>2. \A d \in Consumers : work[d].n = n => work'[d].n = n
      BY <1>1, <3>1, Zenon
    <3>3. Open(n)' \/ id \in excused'
      BY <1>4, <2>3, <3>1, <3>2, OpenStays, Zenon
    <3>4. n \in DOMAIN deliveries' /\ deliveries'[n].id = id
      BY <1>4, <2>3, <3>1, Zenon DEF Sent
    <3> QED
      BY <3>3, <3>4, Zenon DEF Safe
  <2> QED
    BY <2>1, <2>2, <2>3, Zenon DEF Safe
<1>11. AllSafe'
  BY <1>9, <1>10, Zenon DEF AllSafe
<1> QED
  BY <1>5, <1>6, <1>8, <1>11, Zenon DEF BrokerInv

LEMMA SettleInv ==
    ASSUME BrokerInv, NEW c \in Consumers, SettleDelivery(c)
    PROVE  BrokerInv'
<1> DEFINE n == work[c].n
           d == deliveries[n]
<1>1. /\ work' = [work EXCEPT ![c] = Free] /\ ~At(c, "idle")
      /\ UNCHANGED <<seen, delayed, inbox, effects>>
  BY Zenon DEF SettleDelivery, At
<1>2. n \in DOMAIN deliveries /\ deliveries \in Seq(Deliveries) /\ letters \in [MessageIds -> Nat]
  BY <1>1, Zenon DEF BrokerInv, WorkIsSent, BrokerTypeOK
<1>3. d \in Deliveries /\ Message(c) = d.id /\ d.id \in MessageIds /\ d.attempt \in Nat
  <2>1. d \in Deliveries
    BY <1>2
  <2> QED
    BY <2>1, Zenon DEF Deliveries, Message
<1>4. ASSUME NEW state \in {"acked", "nacked"}
      PROVE  LET h == Settled(n, state)
             IN  /\ h \in Seq(Deliveries) /\ Len(h) = Len(deliveries)
                 /\ DOMAIN h = DOMAIN deliveries /\ h[n].id = Message(c)
                 /\ \A m \in DOMAIN deliveries : m # n => h[m] = deliveries[m]
  BY <1>2, <1>3, SettledIs, Zenon DEF BrokerInv
<1>5. CASE d.state # "pending"
  <2>1. UNCHANGED <<deliveries, channel, letters, excused>>
    BY <1>5, Zenon DEF SettleDelivery, Ack, Nack
  <2> QED
    BY <1>1, <1>2, <1>3, <1>5, <2>1, FreedInv, Zenon
<1>6. CASE d.state = "pending" /\ At(c, "ack")
  <2>1. deliveries' = Settled(n, "acked") /\ UNCHANGED <<channel, letters, excused>>
    BY <1>6, Zenon DEF SettleDelivery, Ack, At
  <2>2. inbox[Message(c)] = "processed"
    BY <1>6, Zenon DEF BrokerInv, AloneWithIt
  <2>3. \A id \in MessageIds : id = Message(c) => Safe(id)'
    BY <1>1, <2>2, Zenon DEF Safe
  <2> QED
    BY <1>1, <1>2, <1>4, <2>1, <2>3, FreedInv, Zenon
<1>7. CASE d.state = "pending" /\ At(c, "nack") /\ d.attempt + 1 > MaxAttempts
  <2>1. /\ deliveries' = Settled(n, "nacked") /\ UNCHANGED <<channel, excused>>
        /\ letters' = [letters EXCEPT ![d.id] = letters[d.id] + 1]
    BY <1>7, Zenon DEF SettleDelivery, Nack, At
  <2>2. /\ letters' \in [MessageIds -> Nat] /\ letters'[d.id] > 0
        /\ \A id \in MessageIds : letters[id] > 0 => letters'[id] > 0
    BY <1>2, <1>3, <2>1
  <2>3. \A id \in MessageIds : id = Message(c) => Safe(id)'
    BY <1>3, <2>2, Zenon DEF Safe
  <2> QED
    BY <1>1, <1>2, <1>4, <2>1, <2>2, <2>3, FreedInv, Zenon
<1>8. CASE d.state = "pending" /\ At(c, "nack") /\ ~(d.attempt + 1 > MaxAttempts)
  <2>1. Send(Settled(n, "nacked"), d.id, d.attempt + 1) /\ UNCHANGED letters
    BY <1>8, Zenon DEF SettleDelivery, Nack, At
  <2>2. d.attempt + 1 \in Nat
    BY <1>3
  <2>3. Settled(n, "nacked") \in Seq(Deliveries) /\ Len(Settled(n, "nacked")) = Len(deliveries)
    BY <1>4, Zenon
  <2>4. Sent(Settled(n, "nacked"), Message(c))
    BY <1>3, <2>1, <2>2, <2>3, SendEffect, Zenon DEF BrokerInv
  <2> QED
    BY <1>1, <2>1, <2>4, SentAgainInv, Zenon
<1> QED
  BY <1>5, <1>6, <1>7, <1>8, Zenon DEF SettleDelivery

LEMMA AbortInv ==
    ASSUME BrokerInv, NEW c \in Consumers, Abort(c)
    PROVE  BrokerInv'
<1> DEFINE had == {channel[c][i] : i \in DOMAIN channel[c]} \cup ({work[c].n} \ {0})
<1>1. /\ c \in Subscribed /\ work' = [work EXCEPT ![c] = Free]
      /\ channel' = [channel EXCEPT ![c] = None]
      /\ excused' = excused \cup {deliveries[n].id : n \in had}
      /\ UNCHANGED <<seen, delayed, deliveries, letters, inbox, effects>>
  BY Zenon DEF Abort
<1>2. /\ work' \in [Consumers -> [n: Nat, at: {"idle", "begin", "run", "processed", "failed",
                                              "ack", "nack"}]]
      /\ work'[c] = Free /\ Free.n = 0 /\ Free.at = "idle"
      /\ \A d \in Consumers \ {c} : work'[d] = work[d]
  BY <1>1, SetFree, Zenon DEF BrokerInv
<1>3. /\ channel' \in [Consumers -> Seq(Nat) \cup {None}] /\ channel'[c] = None
      /\ \A d \in Consumers \ {c} : channel'[d] = channel[d]
  BY <1>1, Zenon DEF BrokerInv, BrokerTypeOK
<1>4. had = Elements(channel[c]) \cup ({work[c].n} \ {0})
  BY Zenon DEF Elements
<1> HIDE DEF had
<1>5. BrokerTypeOK'
  BY <1>1, <1>2, <1>3, Zenon DEF BrokerInv, BrokerTypeOK
<1>6. Subscribed' = Subscribed \ {c}
  BY <1>3, Zenon DEF Subscribed
<1>7. WorkIsSent'
  <2>1. ASSUME NEW d \in Consumers
        PROVE  /\ At(d, "idle")' => work'[d].n = 0
               /\ ~At(d, "idle")' => work'[d].n \in DOMAIN deliveries' /\ d \in Subscribed'
    BY <1>1, <1>2, <1>6, Zenon DEF BrokerInv, WorkIsSent, At
  <2>2. \A d \in Subscribed' : Elements(channel'[d]) \subseteq DOMAIN deliveries'
    BY <1>1, <1>3, <1>6, Zenon DEF BrokerInv, WorkIsSent, Subscribed
  <2> QED
    BY <2>1, <2>2, Zenon DEF WorkIsSent
<1>8. AloneWithIt' /\ EffectOnce'
  BY <1>1, <1>2, AloneStays, Zenon DEF IdsStay
<1>9. ASSUME NEW n \in DOMAIN deliveries, Open(n)
      PROVE  Open(n)' \/ deliveries[n].id \in excused'
  <2>1. PICK d \in Consumers : (d \in Subscribed /\ n \in Elements(channel[d])) \/ work[d].n = n
    BY <1>9, Zenon DEF Open
  <2>2. n # 0
    BY DEF BrokerInv, BrokerTypeOK
  <2>3. CASE d = c
    BY <1>1, <1>4, <2>1, <2>2, <2>3, Zenon
  <2>4. CASE d # c
    <3>1. (d \in Subscribed' /\ n \in Elements(channel'[d])) \/ work'[d].n = n
      BY <1>2, <1>3, <1>6, <2>1, <2>4, Zenon
    <3> QED
      BY <1>1, <1>9, <3>1, Zenon DEF Open
  <2> QED
    BY <2>3, <2>4, Zenon
<1>10. ASSUME NEW id \in seen PROVE Safe(id)'
  <2>1. Safe(id)
    BY Zenon DEF BrokerInv, AllSafe
  <2>2. CASE inbox[id] = "processed" \/ letters[id] > 0 \/ id \in excused \/ id \in delayed
    BY <1>1, <2>2, Zenon DEF Safe
  <2>3. ASSUME NEW n \in DOMAIN deliveries, deliveries[n].id = id, Open(n) PROVE Safe(id)'
    BY <1>1, <1>9, <2>3, Zenon DEF Safe
  <2> QED
    BY <2>1, <2>2, <2>3, Zenon DEF Safe
<1>11. AllSafe'
  BY <1>1, <1>10, Zenon DEF AllSafe
<1> QED
  BY <1>5, <1>7, <1>8, <1>11, Zenon DEF BrokerInv

-----------------------------------------------------------------------------
LEMMA BrokerInitInv == BrokerInit => BrokerInv
<1> SUFFICES ASSUME BrokerInit PROVE BrokerInv
  BY Zenon
<1>1. BrokerTypeOK
  BY DEF BrokerInit, BrokerTypeOK, Free, ProcessingStatuses
<1>2. WorkIsSent
  BY DEF BrokerInit, WorkIsSent, Free, At, Elements, Subscribed
<1>3. AloneWithIt /\ EffectOnce /\ AllSafe
  BY DEF BrokerInit, AloneWithIt, EffectOnce, AllSafe, Free, At, Executes
<1> QED
  BY <1>1, <1>2, <1>3, Zenon DEF BrokerInv

LEMMA BrokerStepInv == BrokerInv /\ [BrokerNext]_brokerVars => BrokerInv'
<1> SUFFICES ASSUME BrokerInv, [BrokerNext]_brokerVars PROVE BrokerInv'
  BY Zenon
<1>1. CASE UNCHANGED brokerVars
  <2>1. letters \in [MessageIds -> Nat] /\ delayed \subseteq MessageIds
    BY Zenon DEF BrokerInv, BrokerTypeOK
  <2> QED
    BY <1>1, <2>1, QuietInv, Zenon DEF brokerVars
<1>2. CASE \E id \in MessageIds : Publish(id) \/ Release(id) \/ Replay(id)
  BY <1>2, BrokerSideInv, Zenon
<1>3. CASE \E ids \in SUBSET MessageIds : Purge(ids)
  BY <1>3, PurgeInv, Zenon
<1>4. ASSUME NEW c \in Consumers,
             \/ Receive(c) \/ Begin(c) \/ Execute(c) \/ Mark(c) \/ SettleDelivery(c)
             \/ Abort(c) \/ Subscribe(c)
      PROVE  BrokerInv'
  BY <1>4, ReceiveInv, BeginInv, ExecuteInv, MarkInv, SettleInv, AbortInv, SubscribeInv, Zenon
<1> QED
  BY <1>1, <1>2, <1>3, <1>4, Zenon DEF BrokerNext

\* However many consumers share a message, and however often it is delivered,
\* nacked and replayed, it takes effect at most once: begin lets one consumer in,
\* and nobody after the effect (InMemoryInbox::begin, mark_processed).
THEOREM EffectsHappenOnce == BrokerSpec => []EffectOnce
<1>1. BrokerInv => EffectOnce
  BY Zenon DEF BrokerInv
<1> QED
  BY <1>1, BrokerInitInv, BrokerStepInv, PTL DEF BrokerSpec

\* For any capacity of the channels and any number of attempts, a message that the
\* broker accepted is processed, dead-lettered or excused when nothing is under
\* way: a pending delivery of it is on its way or in a consumer until then
\* (route_delivery_now, requeue_or_dead_letter).
THEOREM MessagesNeverLost == BrokerSpec => []NothingLost
<1>1. BrokerInv => NothingLost
  <2> SUFFICES ASSUME BrokerInv, delayed = {},
                      \A c \in Consumers : At(c, "idle") /\ channel[c] \in {None, <<>>},
                      NEW id \in seen
               PROVE  inbox[id] = "processed" \/ letters[id] > 0 \/ id \in excused
    BY Zenon DEF NothingLost
  <2>1. Safe(id)
    BY Zenon DEF BrokerInv, AllSafe
  <2>2. \A c \in Consumers : work[c].n = 0
    BY Zenon DEF BrokerInv, WorkIsSent
  <2>3. \A c \in Subscribed : Elements(channel[c]) = {}
    BY DEF Subscribed, Elements
  <2>4. \A n \in DOMAIN deliveries : n # 0
    BY DEF BrokerInv, BrokerTypeOK
  <2>5. \A n \in DOMAIN deliveries : ~Open(n)
    BY <2>2, <2>3, <2>4, Zenon DEF Open
  <2> QED
    BY <2>1, <2>5, Zenon DEF Safe
<1> QED
  BY <1>1, BrokerInitInv, BrokerStepInv, PTL DEF BrokerSpec

-----------------------------------------------------------------------------
(***************************************************************************)
(* MemoryOutbox                                                            *)
(***************************************************************************)

(* The in-memory outbox.  A relay at work has messages, all of them in the   *)
(* map, which never loses a row; one about to mark its message published has *)
(* seen the broker take it; and as long as nothing gave cause to publish a   *)
(* message twice, whoever holds it holds it alone, under a running lease.    *)

MapTypeOK ==
    /\ table \in [Ids -> Rows \cup {None}]
    /\ pc \in [Relays -> RelayPlaces]
    /\ batch \in [Relays -> SUBSET Ids]
    /\ claimed \in [Relays -> [Ids -> 0..AttemptCap]]
    /\ age \in [Relays -> 0..AgeCap]
    /\ delivered \in [Ids -> 0..2]
    /\ cause \in [Ids -> SUBSET {"late", "again"}]

StoredBatches ==
    \A r \in Relays : pc[r] \in Working =>
        batch[r] # {} /\ \A id \in batch[r] : table[id] # None

TakenBeforeAck == \A r \in Relays : pc[r] = "ack" => delivered[CurrentId(r)] > 0

UnderLease(r, id) ==
    /\ table[id].status = "publishing"
    /\ table[id].lease \in Nat \ {0}
    /\ table[id].lease + age[r] = Lease

HeldUnderLease ==
    \A r \in Relays, id \in Ids : Holds(r, id) /\ cause[id] = {} => UnderLease(r, id)

HeldByOne ==
    \A r, q \in Relays, id \in Ids : Holds(r, id) /\ Holds(q, id) /\ r # q => cause[id] # {}

MapInv == MapTypeOK /\ StoredBatches /\ TakenBeforeAck /\ HeldUnderLease /\ HeldByOne

-----------------------------------------------------------------------------
(* What the steps do to the map and to the relays, in five shapes. *)

\* The other relays stay where they are.
RestStay(r) ==
    \A q \in Relays : q # r => pc'[q] = pc[q] /\ batch'[q] = batch[q] /\ age'[q] = age[q]

\* Deliveries and causes only grow.
GhostsGrow ==
    \A id \in Ids : /\ delivered[id] > 0 => delivered'[id] > 0
                    /\ cause[id] # {} => cause'[id] # {}

\* A relay leaves its batch, or goes on with the same message.
Walks(r) ==
    /\ RestStay(r) /\ GhostsGrow /\ table' = table
    /\ delivered' = delivered \/ (pc[r] \in Working /\ delivered' = MoreDelivered(CurrentId(r)))
    /\ \/ pc'[r] \notin Working
       \/ /\ pc[r] \in Working /\ pc'[r] \in Working
          /\ batch'[r] = batch[r] /\ age'[r] = age[r]
          /\ pc'[r] = "ack" => delivered'[CurrentId(r)] > 0

\* A client puts a new row into the map.
Replaces(id) ==
    /\ \A r \in Relays : pc'[r] = pc[r] /\ batch'[r] = batch[r] /\ age'[r] = age[r]
    /\ GhostsGrow /\ delivered' = delivered
    /\ table'[id] = NewRow /\ \A i \in Ids : i # id => table'[i] = table[i]
    /\ table[id] # None /\ table[id].status # "pending" => cause'[id] # {}

\* A relay takes a batch of claimable rows.
Takes(r, rows) ==
    /\ RestStay(r) /\ delivered' = delivered /\ cause' = cause
    /\ rows # {} /\ rows \subseteq Ids
    /\ pc'[r] = "publish" /\ batch'[r] = rows /\ age'[r] = 0
    /\ \A id \in Ids \ rows : table'[id] = table[id]
    /\ \A id \in rows : /\ table[id] # None /\ Claimable(table[id])
                        /\ table'[id] # None
                        /\ table'[id].status = "publishing"
                        /\ table'[id].lease = Lease

\* A relay writes the outcome of its message and goes to the next one.
Settles(r, id) ==
    /\ RestStay(r) /\ delivered' = delivered /\ cause' = cause
    /\ Holds(r, id) /\ id \in Ids /\ table'[id] # None
    /\ \A i \in Ids : i # id => table'[i] = table[i]
    /\ batch'[r] = batch[r] \ {id}
    /\ \/ pc'[r] = "yield"
       \/ pc'[r] = "publish" /\ batch'[r] # {} /\ age'[r] = age[r]
    /\ \/ pc[r] = "ack" /\ delivered[id] > 0 /\ table'[id].status = "published"
       \/ pc[r] = "nack" /\ table'[id].status = "failed"

\* Time passes.
Ages ==
    /\ pc' = pc /\ batch' = batch /\ delivered' = delivered
    /\ \A id \in Ids :
         /\ cause[id] \subseteq cause'[id]
         /\ table[id] = None => table'[id] = None
         /\ table[id] # None => /\ table'[id] # None
                                /\ table'[id].status = table[id].status
                                /\ table'[id].lease = OneLess(table[id].lease)
    /\ \A r \in Relays, id \in Ids : Holds(r, id) =>
         /\ age[r] < AgeCap => age'[r] = age[r] + 1
         /\ age'[r] >= Lease => cause'[id] # {}

-----------------------------------------------------------------------------
(* Each shape keeps the invariant. *)

LEMMA AtWork ==
    ASSUME MapInv, NEW r \in Relays, pc[r] \in Working
    PROVE  CurrentId(r) \in batch[r] /\ CurrentId(r) \in Ids /\ Holds(r, CurrentId(r))
BY CurrentInBatch, Zenon DEF MapInv, MapTypeOK, StoredBatches, Holds

\* A relay that holds a message has it in a batch of its own, and it is stored.
LEMMA HeldStored ==
    ASSUME MapInv, NEW r \in Relays, NEW id, Holds(r, id)
    PROVE  pc[r] \in Working /\ id \in batch[r] /\ id \in Ids /\ table[id] # None /\ table[id] \in Rows
BY NoneIsNoRow, Zenon DEF MapInv, MapTypeOK, StoredBatches, Holds

\* A row whose lease runs cannot be claimed.
LEMMA UnderLeaseKept ==
    ASSUME NEW r, NEW id, UnderLease(r, id)
    PROVE  ~Claimable(table[id])
<1>1. table[id].lease # None /\ table[id].lease # 0
  BY OutboxConstants, Zenon DEF UnderLease
<1> QED
  BY <1>1, Zenon DEF UnderLease, Claimable, Due

LEMMA WalksInv ==
    ASSUME MapInv, MapTypeOK', NEW r \in Relays, Walks(r)
    PROVE  MapInv'
<1>1. \A q \in Relays : pc'[q] \in Working =>
        pc[q] \in Working /\ batch'[q] = batch[q] /\ age'[q] = age[q]
  BY Zenon DEF Walks, RestStay
<1>2. StoredBatches'
  BY <1>1, Zenon DEF MapInv, StoredBatches, Walks
<1>3. TakenBeforeAck'
  <2> SUFFICES ASSUME NEW q \in Relays, pc'[q] = "ack"
               PROVE  delivered'[LeastOf(batch'[q])] > 0
    BY Zenon DEF TakenBeforeAck, CurrentId
  <2>1. batch'[q] = batch[q] /\ pc[q] \in Working
    BY <1>1, Zenon DEF Working
  <2>2. CASE q = r
    BY <2>1, <2>2, Zenon DEF Walks, Working, CurrentId
  <2>3. CASE q # r
    <3>1. pc[q] = "ack"
      BY <2>3, Zenon DEF Walks, RestStay
    <3>2. delivered[CurrentId(q)] > 0 /\ CurrentId(q) \in Ids
      BY <2>1, <3>1, AtWork, Zenon DEF MapInv, TakenBeforeAck
    <3> QED
      BY <2>1, <3>2, Zenon DEF Walks, GhostsGrow, CurrentId
  <2> QED
    BY <2>2, <2>3, Zenon
<1>4. \A q \in Relays, id \in Ids : Holds(q, id)' => Holds(q, id) /\ age'[q] = age[q]
  BY <1>1, Zenon DEF Holds
<1>5. \A id \in Ids : cause'[id] = {} => cause[id] = {}
  BY Zenon DEF Walks, GhostsGrow
<1>6. HeldUnderLease'
  BY <1>4, <1>5, ZenonT(30) DEF MapInv, HeldUnderLease, UnderLease, Walks
<1>7. HeldByOne'
  BY <1>4, <1>5, Zenon DEF MapInv, HeldByOne
<1> QED
  BY <1>2, <1>3, <1>6, <1>7, Zenon DEF MapInv

\* A relay that holds a message under its lease loses it to no client unnoticed.
LEMMA ReplacesInv ==
    ASSUME MapInv, MapTypeOK', NEW id \in Ids, Replaces(id)
    PROVE  MapInv'
<1>1. NewRow # None /\ NewRow.status = "pending"
  BY RowTypes, NoneIsNoRow, Zenon DEF NewRow
<1>2. StoredBatches'
  BY <1>1, Zenon DEF MapInv, MapTypeOK, StoredBatches, Replaces
<1>3. TakenBeforeAck'
  <2> SUFFICES ASSUME NEW q \in Relays, pc'[q] = "ack"
               PROVE  delivered'[LeastOf(batch'[q])] > 0
    BY Zenon DEF TakenBeforeAck, CurrentId
  <2>1. pc[q] = "ack" /\ batch'[q] = batch[q]
    BY Zenon DEF Replaces
  <2>2. delivered[CurrentId(q)] > 0 /\ CurrentId(q) \in Ids
    BY <2>1, AtWork, Zenon DEF MapInv, TakenBeforeAck, Working
  <2> QED
    BY <2>1, <2>2, Zenon DEF Replaces, GhostsGrow, CurrentId
<1>4. \A q \in Relays, i \in Ids : Holds(q, i)' => Holds(q, i) /\ age'[q] = age[q]
  BY Zenon DEF Holds, Replaces
<1>5. \A i \in Ids : cause'[i] = {} => cause[i] = {}
  BY Zenon DEF Replaces, GhostsGrow
<1>6. HeldUnderLease'
  <2> SUFFICES ASSUME NEW q \in Relays, NEW i \in Ids, Holds(q, i)', cause'[i] = {}
               PROVE  UnderLease(q, i)'
    BY Zenon DEF HeldUnderLease
  <2>1. Holds(q, i) /\ UnderLease(q, i) /\ age'[q] = age[q] /\ table[i] # None
    BY <1>4, <1>5, HeldStored, Zenon DEF MapInv, HeldUnderLease
  <2>2. i # id
    BY <2>1, Zenon DEF Replaces, UnderLease
  <2> QED
    BY <2>1, <2>2, Zenon DEF Replaces, UnderLease
<1>7. HeldByOne'
  BY <1>4, <1>5, Zenon DEF MapInv, HeldByOne
<1> QED
  BY <1>2, <1>3, <1>6, <1>7, Zenon DEF MapInv

\* Nobody holds a row that can be claimed, unless there is cause to publish it
\* twice; the relay that takes it has the whole lease before it.
LEMMA TakesInv ==
    ASSUME MapInv, MapTypeOK', NEW r \in Relays, NEW rows, Takes(r, rows)
    PROVE  MapInv'
<1>1. \A q \in Relays, id \in Ids : id \in rows /\ Holds(q, id) => cause[id] # {}
  BY UnderLeaseKept, Zenon DEF MapInv, HeldUnderLease, Takes
<1>2. StoredBatches'
  <2> SUFFICES ASSUME NEW q \in Relays, pc'[q] \in Working
               PROVE  batch'[q] # {} /\ \A id \in batch'[q] : table'[id] # None
    BY Zenon DEF StoredBatches
  <2>1. CASE q = r
    BY <2>1, Zenon DEF Takes
  <2>2. CASE q # r
    <3>1. pc[q] \in Working /\ batch'[q] = batch[q]
      BY <2>2, Zenon DEF Takes, RestStay
    <3>2. batch[q] # {} /\ \A id \in batch[q] : id \in Ids /\ table[id] # None
      BY <3>1, Zenon DEF MapInv, StoredBatches, MapTypeOK
    <3> QED
      BY <3>1, <3>2, Zenon DEF Takes
  <2> QED
    BY <2>1, <2>2, Zenon
<1>3. TakenBeforeAck'
  <2> SUFFICES ASSUME NEW q \in Relays, pc'[q] = "ack"
               PROVE  delivered'[LeastOf(batch'[q])] > 0
    BY Zenon DEF TakenBeforeAck, CurrentId
  <2>1. pc[q] = "ack" /\ batch'[q] = batch[q]
    BY Zenon DEF Takes, RestStay
  <2> QED
    BY <2>1, Zenon DEF Takes, MapInv, TakenBeforeAck, CurrentId
<1>4. \A q \in Relays, id \in Ids : Holds(q, id)' =>
        \/ q = r /\ id \in rows
        \/ q # r /\ Holds(q, id) /\ age'[q] = age[q]
  BY Zenon DEF Holds, Takes, RestStay
<1>5. HeldUnderLease'
  <2> SUFFICES ASSUME NEW q \in Relays, NEW id \in Ids, Holds(q, id)', cause'[id] = {}
               PROVE  UnderLease(q, id)'
    BY Zenon DEF HeldUnderLease
  <2>1. cause[id] = {}
    BY Zenon DEF Takes
  <2>2. CASE q = r /\ id \in rows
    <3>1. table'[id].status = "publishing" /\ table'[id].lease = Lease /\ age'[q] = 0
      BY <2>2, Zenon DEF Takes
    <3>2. Lease \in Nat \ {0} /\ Lease + 0 = Lease
      BY OutboxConstants
    <3> QED
      BY <3>1, <3>2, Zenon DEF UnderLease
  <2>3. CASE q # r /\ Holds(q, id) /\ age'[q] = age[q]
    <3>1. UnderLease(q, id) /\ id \notin rows
      BY <1>1, <2>1, <2>3, Zenon DEF MapInv, HeldUnderLease
    <3>2. table'[id] = table[id]
      BY <3>1, Zenon DEF Takes
    <3> QED
      BY <2>3, <3>1, <3>2, Zenon DEF UnderLease
  <2> QED
    BY <1>4, <2>2, <2>3, Zenon
<1>6. HeldByOne'
  <2> SUFFICES ASSUME NEW p \in Relays, NEW q \in Relays, NEW id \in Ids,
                      Holds(p, id)', Holds(q, id)', p # q
               PROVE  cause[id] # {}
    BY Zenon DEF HeldByOne, Takes
  <2> QED
    BY <1>1, <1>4, Zenon DEF MapInv, HeldByOne
<1> QED
  BY <1>2, <1>3, <1>5, <1>6, Zenon DEF MapInv

\* Settling a message that only this relay holds disturbs nobody.
LEMMA SettlesInv ==
    ASSUME MapInv, MapTypeOK', NEW r \in Relays, NEW id, Settles(r, id)
    PROVE  MapInv'
<1>1. \A q \in Relays, i \in Ids : Holds(q, i)' =>
        Holds(q, i) /\ age'[q] = age[q] /\ (q = r => i # id)
  BY Zenon DEF Holds, Settles, RestStay, Working
<1>2. \A q \in Relays, i \in Ids : Holds(q, i)' /\ cause[i] = {} => i # id
  <2>1. Holds(r, id) /\ id \in Ids
    BY Zenon DEF Settles
  <2> QED
    BY <1>1, <2>1, Zenon DEF MapInv, HeldByOne
<1>3. StoredBatches'
  <2> SUFFICES ASSUME NEW q \in Relays, pc'[q] \in Working
               PROVE  batch'[q] # {} /\ \A i \in batch'[q] : table'[i] # None
    BY Zenon DEF StoredBatches
  <2>1. pc[q] \in Working /\ batch'[q] # {} /\ batch'[q] \subseteq batch[q]
    <3>1. CASE q = r
      BY <3>1, Zenon DEF Settles, Holds, Working
    <3>2. CASE q # r
      BY <3>2, Zenon DEF Settles, RestStay, MapInv, StoredBatches
    <3> QED
      BY <3>1, <3>2, Zenon
  <2>2. \A i \in batch[q] : i \in Ids /\ table[i] # None
    BY <2>1, Zenon DEF MapInv, StoredBatches, MapTypeOK
  <2> QED
    BY <2>1, <2>2, Zenon DEF Settles
<1>4. TakenBeforeAck'
  <2> SUFFICES ASSUME NEW q \in Relays, pc'[q] = "ack"
               PROVE  delivered'[LeastOf(batch'[q])] > 0
    BY Zenon DEF TakenBeforeAck, CurrentId
  <2>1. pc[q] = "ack" /\ batch'[q] = batch[q]
    BY Zenon DEF Settles, RestStay
  <2> QED
    BY <2>1, Zenon DEF Settles, MapInv, TakenBeforeAck, CurrentId
<1>5. HeldUnderLease'
  <2> SUFFICES ASSUME NEW q \in Relays, NEW i \in Ids, Holds(q, i)', cause'[i] = {}
               PROVE  UnderLease(q, i)'
    BY Zenon DEF HeldUnderLease
  <2>1. cause[i] = {} /\ (i # id => table'[i] = table[i])
    BY Zenon DEF Settles
  <2>2. UnderLease(q, i) /\ age'[q] = age[q] /\ i # id
    BY <1>1, <1>2, <2>1, Zenon DEF MapInv, HeldUnderLease
  <2> QED
    BY <2>1, <2>2, Zenon DEF UnderLease
<1>6. HeldByOne'
  <2>1. cause' = cause
    BY Zenon DEF Settles
  <2> QED
    BY <1>1, <2>1, Zenon DEF MapInv, HeldByOne
<1> QED
  BY <1>3, <1>4, <1>5, <1>6, Zenon DEF MapInv

\* A lease and the age of the batch go down and up together; the relay that is
\* still at work when the lease has run out is late.
LEMMA AgesInv ==
    ASSUME MapInv, MapTypeOK', Ages
    PROVE  MapInv'
<1>1. StoredBatches'
  BY Zenon DEF MapInv, MapTypeOK, StoredBatches, Ages
<1>2. TakenBeforeAck'
  BY Zenon DEF MapInv, TakenBeforeAck, CurrentId, Ages
<1>3. \A q \in Relays, i \in Ids : Holds(q, i)' => Holds(q, i)
  BY Zenon DEF Holds, Ages
<1>4. \A i \in Ids : cause'[i] = {} => cause[i] = {}
  BY Zenon DEF Ages
<1>5. HeldUnderLease'
  <2> SUFFICES ASSUME NEW q \in Relays, NEW id \in Ids, Holds(q, id)', cause'[id] = {}
               PROVE  UnderLease(q, id)'
    BY Zenon DEF HeldUnderLease
  <2>1. Holds(q, id) /\ UnderLease(q, id) /\ table[id] # None
    BY <1>3, <1>4, HeldStored, Zenon DEF MapInv, HeldUnderLease
  <2>2. /\ age[q] < AgeCap => age'[q] = age[q] + 1
        /\ ~(age'[q] >= Lease)
        /\ table'[id].status = "publishing"
        /\ table'[id].lease = OneLess(table[id].lease)
    BY <2>1, Zenon DEF Ages, UnderLease
  <2>3. age[q] \in 0..AgeCap /\ table[id].lease \in Nat \ {0} /\ table[id].lease + age[q] = Lease
    BY <2>1, Zenon DEF MapInv, MapTypeOK, UnderLease
  <2>4. age[q] < AgeCap
    BY <2>3, OutboxConstants DEF AgeCap
  <2>5. OneLess(table[id].lease) = table[id].lease - 1
    BY <2>3, OutboxConstants DEF OneLess, Left
  <2>6. table'[id].lease \in Nat \ {0} /\ table'[id].lease + age'[q] = Lease
    BY <2>2, <2>3, <2>4, <2>5, OutboxConstants
  <2> QED
    BY <2>2, <2>6, Zenon DEF UnderLease
<1>6. HeldByOne'
  BY <1>3, <1>4, Zenon DEF MapInv, HeldByOne
<1> QED
  BY <1>1, <1>2, <1>5, <1>6, Zenon DEF MapInv

-----------------------------------------------------------------------------
(* Which shape each action has. *)

\* The relay's own steps: shutdown, restart, wake-up, yield, publishing, a crash.
OwnStep(r) == RequestShutdown(r) \/ Crash(r) \/ Restart(r) \/ RelayStep(r)

LEMMA AgainGrows ==
    ASSUME cause \in [Ids -> SUBSET {"late", "again"}], NEW id,
           cause' = cause \/ cause' = [cause EXCEPT ![id] = @ \cup {"again"}]
    PROVE  /\ cause' \in [Ids -> SUBSET {"late", "again"}]
           /\ \A i \in Ids : cause[i] # {} => cause'[i] # {}
<1>1. CASE cause' = cause
  BY <1>1, Zenon
<1>2. CASE cause' = [cause EXCEPT ![id] = @ \cup {"again"}]
  <2>1. cause' \in [Ids -> SUBSET {"late", "again"}]
    BY <1>2, Zenon
  <2>2. \A i \in Ids : cause'[i] = IF i = id THEN cause[i] \cup {"again"} ELSE cause[i]
    BY <1>2, Zenon
  <2> QED
    BY <2>1, <2>2, Zenon
<1> QED
  BY <1>1, <1>2, Zenon

LEMMA OwnStepWalks ==
    ASSUME MapInv, NEW r \in Relays, OwnStep(r)
    PROVE  MapTypeOK' /\ Walks(r)
<1> USE DEF storeVars, loopVars, ghostVars
<1>0. /\ pc \in [Relays -> RelayPlaces] /\ batch \in [Relays -> SUBSET Ids]
      /\ claimed \in [Relays -> [Ids -> 0..AttemptCap]] /\ age \in [Relays -> 0..AgeCap]
      /\ delivered \in [Ids -> 0..2] /\ cause \in [Ids -> SUBSET {"late", "again"}]
      /\ table \in [Ids -> Rows \cup {None}]
  BY Zenon DEF MapInv, MapTypeOK
<1>1. CASE RequestShutdown(r)
  <2>1. UNCHANGED <<table, pc, batch, claimed, age, delivered, cause>>
    BY <1>1, Zenon DEF RequestShutdown
  <2>2. pc'[r] = "ack" => delivered'[CurrentId(r)] > 0
    BY <2>1, Zenon DEF MapInv, TakenBeforeAck
  <2> QED
    BY <1>0, <2>1, <2>2, Zenon DEF MapTypeOK, Walks, RestStay, GhostsGrow
<1>2. CASE Restart(r) \/ WakeUp(r) \/ Yield(r)
  <2>1. UNCHANGED <<table, batch, claimed, age, delivered, cause>>
    BY <1>2, Zenon DEF Restart, WakeUp, Yield
  <2>2. \E place \in {"poll", "stopped"} : pc' = [pc EXCEPT ![r] = place]
    BY <1>2, Zenon DEF Restart, WakeUp, Yield
  <2>3. /\ pc' \in [Relays -> RelayPlaces] /\ pc'[r] \notin Working
        /\ \A q \in Relays : q # r => pc'[q] = pc[q]
    BY <1>0, <2>2, Zenon DEF RelayPlaces, Working
  <2> QED
    BY <1>0, <2>1, <2>3, Zenon DEF MapTypeOK, Walks, RestStay, GhostsGrow
<1>3. CASE Crash(r)
  <2>1. 0 \in 0..AttemptCap /\ 0 \in 0..AgeCap
    BY OutboxConstants, AgeCapType
  <2>2. /\ pc' = [pc EXCEPT ![r] = "down"] /\ batch' = [batch EXCEPT ![r] = {}]
        /\ claimed' = [claimed EXCEPT ![r] = [id \in Ids |-> 0]]
        /\ age' = [age EXCEPT ![r] = 0] /\ UNCHANGED <<table, delivered>>
        /\ cause' = cause \/ cause' = [cause EXCEPT ![CurrentId(r)] = @ \cup {"again"}]
    BY <1>3, Zenon DEF Crash
  <2>3. /\ cause' \in [Ids -> SUBSET {"late", "again"}]
        /\ \A id \in Ids : cause[id] # {} => cause'[id] # {}
    BY <1>0, <2>2, AgainGrows, Zenon
  <2>4. MapTypeOK'
    BY <1>0, <2>1, <2>2, <2>3, Zenon DEF MapTypeOK, RelayPlaces
  <2>5. RestStay(r) /\ pc'[r] = "down"
    BY <1>0, <2>2, Zenon DEF RestStay
  <2> QED
    BY <2>2, <2>3, <2>4, <2>5, Zenon DEF Walks, GhostsGrow, Working
<1>4. CASE PublishOk(r) \/ PublishErr(r)
  <2>1. CurrentId(r) \in Ids /\ pc[r] \in Working
    BY <1>4, AtWork, Zenon DEF PublishOk, PublishErr, Working
  <2>2. /\ UNCHANGED <<table, batch, claimed, age>>
        /\ delivered' = delivered \/ delivered' = MoreDelivered(CurrentId(r))
        /\ cause' = cause \/ cause' = [cause EXCEPT ![CurrentId(r)] = @ \cup {"again"}]
        /\ \/ pc' = [pc EXCEPT ![r] = "ack"] /\ delivered' = MoreDelivered(CurrentId(r))
           \/ pc' = [pc EXCEPT ![r] = "nack"]
    BY <1>4, Zenon DEF PublishOk, PublishErr
  <2>3. /\ cause' \in [Ids -> SUBSET {"late", "again"}]
        /\ \A id \in Ids : cause[id] # {} => cause'[id] # {}
    BY <1>0, <2>2, AgainGrows, Zenon
  <2>4. /\ delivered' \in [Ids -> 0..2]
        /\ \A id \in Ids : delivered[id] > 0 => delivered'[id] > 0
        /\ delivered' = MoreDelivered(CurrentId(r)) => delivered'[CurrentId(r)] > 0
    BY <1>0, <2>1, <2>2, MoreDeliveredType, ZenonT(30)
  <2>5. /\ pc' \in [Relays -> RelayPlaces] /\ pc'[r] \in Working
        /\ \A q \in Relays : q # r => pc'[q] = pc[q]
        /\ pc'[r] = "ack" => delivered'[CurrentId(r)] > 0
    <3>1. CASE pc' = [pc EXCEPT ![r] = "ack"] /\ delivered' = MoreDelivered(CurrentId(r))
      BY <1>0, <2>4, <3>1, Zenon DEF RelayPlaces, Working
    <3>2. CASE pc' = [pc EXCEPT ![r] = "nack"]
      BY <1>0, <3>2, Zenon DEF RelayPlaces, Working
    <3> QED
      BY <2>2, <3>1, <3>2, Zenon
  <2>6. MapTypeOK'
    BY <1>0, <2>2, <2>3, <2>4, <2>5, Zenon DEF MapTypeOK
  <2> QED
    BY <2>1, <2>2, <2>3, <2>4, <2>5, <2>6, Zenon DEF Walks, RestStay, GhostsGrow
<1> QED
  BY <1>1, <1>2, <1>3, <1>4, Zenon DEF OwnStep, RelayStep

LEMMA EnqueueReplaces ==
    ASSUME MapInv, NEW id \in Ids, Enqueue(id)
    PROVE  MapTypeOK' /\ Replaces(id)
<1> USE DEF storeVars, loopVars
<1>1. /\ table \in [Ids -> Rows \cup {None}] /\ cause \in [Ids -> SUBSET {"late", "again"}]
  BY Zenon DEF MapInv, MapTypeOK
<1>2. /\ table' = [table EXCEPT ![id] = NewRow]
      /\ UNCHANGED <<pc, batch, claimed, age, delivered>>
      /\ \/ cause' = cause /\ (table[id] = None \/ table[id] = NewRow)
         \/ cause' = [cause EXCEPT ![id] = @ \cup {"again"}]
  BY Zenon DEF Enqueue
<1>3. NewRow \in Rows /\ NewRow.status = "pending"
  BY RowTypes, Zenon DEF NewRow
<1>4. /\ table' \in [Ids -> Rows \cup {None}]
      /\ table'[id] = NewRow /\ \A i \in Ids : i # id => table'[i] = table[i]
  BY <1>1, <1>2, <1>3, Zenon
<1>5. /\ cause' \in [Ids -> SUBSET {"late", "again"}]
      /\ \A i \in Ids : cause[i] # {} => cause'[i] # {}
      /\ table[id] # None /\ table[id].status # "pending" => cause'[id] # {}
  <2>1. CASE cause' = cause /\ (table[id] = None \/ table[id] = NewRow)
    BY <1>1, <1>3, <2>1, Zenon
  <2>2. CASE cause' = [cause EXCEPT ![id] = @ \cup {"again"}]
    BY <1>1, <2>2, Zenon
  <2> QED
    BY <1>2, <2>1, <2>2, Zenon
<1> QED
  BY <1>2, <1>4, <1>5, Zenon DEF MapInv, MapTypeOK, Replaces, GhostsGrow

\* claim_pending finds nothing, or takes the rows it found.
LEMMA ClaimTakes ==
    ASSUME MapInv, NEW r \in Relays, ClaimPending(r)
    PROVE  MapTypeOK' /\ (Walks(r) \/ \E rows \in SUBSET Ids : Takes(r, rows))
<1> DEFINE rows == FirstOf({id \in Present : Claimable(table[id])}, Limit)
<1>0. /\ pc \in [Relays -> RelayPlaces] /\ batch \in [Relays -> SUBSET Ids]
      /\ claimed \in [Relays -> [Ids -> 0..AttemptCap]] /\ age \in [Relays -> 0..AgeCap]
      /\ delivered \in [Ids -> 0..2] /\ cause \in [Ids -> SUBSET {"late", "again"}]
      /\ table \in [Ids -> Rows \cup {None}]
  BY Zenon DEF MapInv, MapTypeOK
<1>1. \A id \in rows : id \in Ids /\ table[id] # None /\ Claimable(table[id])
  BY Zenon DEF FirstOf, Present
<1>2. /\ \/ /\ pc' = [pc EXCEPT ![r] = "idle"]
            /\ UNCHANGED <<table, batch, claimed>>
         \/ /\ rows # {}
            /\ pc' = [pc EXCEPT ![r] = "publish"]
            /\ table' = [id \in Ids |-> IF id \in rows THEN MarkPublishing(table[id], Lease)
                                        ELSE table[id]]
            /\ batch' = [batch EXCEPT ![r] = rows]
            /\ claimed' = [claimed EXCEPT ![r] =
                             [id \in Ids |-> IF id \in rows THEN table[id].attempts ELSE 0]]
      /\ age' = [age EXCEPT ![r] = 0]
      /\ delivered' = delivered /\ cause' = cause
  BY Zenon DEF ClaimPending, BeginIdle, ghostVars
<1> HIDE DEF rows
<1>3. 0 \in 0..AttemptCap /\ 0 \in 0..AgeCap /\ Lease \in Times
  BY OutboxConstants, AgeCapType DEF Times
<1>4. age' \in [Relays -> 0..AgeCap] /\ age'[r] = 0 /\ \A q \in Relays : q # r => age'[q] = age[q]
  BY <1>0, <1>2, <1>3, Zenon
<1>5. CASE pc' = [pc EXCEPT ![r] = "idle"] /\ UNCHANGED <<table, batch, claimed>>
  <2>1. /\ pc' \in [Relays -> RelayPlaces] /\ pc'[r] \notin Working
        /\ \A q \in Relays : q # r => pc'[q] = pc[q]
    BY <1>0, <1>5, Zenon DEF RelayPlaces, Working
  <2> QED
    BY <1>0, <1>2, <1>4, <1>5, <2>1, Zenon DEF MapTypeOK, Walks, RestStay, GhostsGrow
<1>6. CASE /\ rows # {}
           /\ pc' = [pc EXCEPT ![r] = "publish"]
           /\ table' = [id \in Ids |-> IF id \in rows THEN MarkPublishing(table[id], Lease)
                                       ELSE table[id]]
           /\ batch' = [batch EXCEPT ![r] = rows]
           /\ claimed' = [claimed EXCEPT ![r] =
                            [id \in Ids |-> IF id \in rows THEN table[id].attempts ELSE 0]]
  <2>1. /\ pc' \in [Relays -> RelayPlaces] /\ pc'[r] = "publish"
        /\ batch' \in [Relays -> SUBSET Ids] /\ batch'[r] = rows
        /\ \A q \in Relays : q # r => pc'[q] = pc[q] /\ batch'[q] = batch[q]
    BY <1>0, <1>1, <1>6, Zenon DEF RelayPlaces, Working
  <2>2. \A id \in rows : table[id] \in Rows /\ table[id].attempts \in 0..AttemptCap
    BY <1>0, <1>1, Zenon DEF Rows
  <2>3. [id \in Ids |-> IF id \in rows THEN table[id].attempts ELSE 0] \in [Ids -> 0..AttemptCap]
    BY <1>3, <2>2, Zenon
  <2>4. claimed' \in [Relays -> [Ids -> 0..AttemptCap]]
    BY <1>0, <1>6, <2>3, Zenon
  <2>5. \A id \in rows : /\ table'[id] \in Rows /\ table'[id] # None
                         /\ table'[id].status = "publishing" /\ table'[id].lease = Lease
    <3> SUFFICES ASSUME NEW id \in rows
                 PROVE  /\ table'[id] \in Rows /\ table'[id] # None
                        /\ table'[id].status = "publishing" /\ table'[id].lease = Lease
      BY Zenon
    <3>1. table'[id] = MarkPublishing(table[id], Lease) /\ table[id] \in Rows
      BY <1>1, <1>6, <2>2, Zenon
    <3>2. table'[id] \in Rows /\ table'[id] # None
      BY <1>3, <3>1, RowTypes, NoneIsNoRow, Zenon
    <3> QED
      BY <3>1, <3>2, Zenon DEF MarkPublishing, Rows
  <2>6. \A id \in Ids \ rows : table'[id] = table[id]
    BY <1>6, Zenon
  <2>7. table' \in [Ids -> Rows \cup {None}]
    <3>1. table' = [id \in Ids |-> table'[id]] /\ \A id \in Ids : table'[id] \in Rows \cup {None}
      BY <1>0, <1>6, <2>5, <2>6, Zenon
    <3> QED
      BY <3>1, Zenon
  <2>8. MapTypeOK'
    BY <1>0, <1>2, <1>4, <2>1, <2>4, <2>7, Zenon DEF MapTypeOK
  <2>9. rows \in SUBSET Ids
    BY <1>1, Zenon
  <2>10. Takes(r, rows)
    BY <1>1, <1>2, <1>4, <1>6, <2>1, <2>5, <2>6, <2>9, Zenon DEF Takes, RestStay
  <2> QED
    BY <2>8, <2>9, <2>10, Zenon
<1> QED
  BY <1>2, <1>5, <1>6, Zenon

\* mark_published and mark_failed write over the row, whatever its status.
LEMMA SettlementSettles ==
    ASSUME MapInv, NEW r \in Relays, SettlePublished(r) \/ SettleFailed(r)
    PROVE  MapTypeOK' /\ Settles(r, CurrentId(r))
<1> DEFINE id == CurrentId(r)
           attempts == Saturated(table[id].attempts + 1)
           next == NextAttempt(claimed[r][id], age[r])
           row == IF pc[r] = "ack" THEN MarkPublished(table[id])
                  ELSE MarkFailed(table[id], attempts, next)
<1>0. /\ pc \in [Relays -> RelayPlaces] /\ batch \in [Relays -> SUBSET Ids]
      /\ claimed \in [Relays -> [Ids -> 0..AttemptCap]] /\ age \in [Relays -> 0..AgeCap]
      /\ table \in [Ids -> Rows \cup {None}]
  BY Zenon DEF MapInv, MapTypeOK
<1>1. /\ delivered' = delivered /\ cause' = cause
      /\ pc[r] \in {"ack", "nack"} /\ SettleCurrent(r)
      /\ table' = IF table[id] = None THEN table ELSE [table EXCEPT ![id] = row]
  BY Zenon DEF SettlePublished, SettleFailed, Update, ghostVars
<1>2. Holds(r, id) /\ id \in batch[r] /\ id \in Ids /\ table[id] # None /\ table[id] \in Rows
  BY <1>1, AtWork, HeldStored, Zenon DEF Working
<1>3. row \in Rows /\ row.status = IF pc[r] = "ack" THEN "published" ELSE "failed"
  <2>1. None \in Times
    BY Zenon DEF Times
  <2>2. attempts \in 0..AttemptCap
    <3>1. table[id].attempts \in 0..AttemptCap
      BY <1>2, Zenon DEF Rows
    <3> QED
      BY <3>1, OutboxConstants DEF Saturated
  <2>3. next \in Times
    <3>1. claimed[r][id] \in 0..AttemptCap
      BY <1>0, <1>2, Zenon
    <3>2. age[r] \in Nat
      BY <1>0, AgeCapType
    <3> QED
      BY <3>1, <3>2, NextAttemptType, Zenon DEF Times
  <2> HIDE DEF attempts, next
  <2>4. MarkPublished(table[id]) \in Rows /\ MarkFailed(table[id], attempts, next) \in Rows
    BY <1>2, <2>1, <2>2, <2>3, RowTypes, Zenon
  <2>5. /\ MarkPublished(table[id]).status = "published"
        /\ MarkFailed(table[id], attempts, next).status = "failed"
    BY <1>2, Zenon DEF MarkPublished, MarkFailed, Rows
  <2> QED
    BY <2>4, <2>5, Zenon
<1> HIDE DEF row
<1>4. /\ table' \in [Ids -> Rows \cup {None}] /\ table'[id] = row
      /\ \A i \in Ids : i # id => table'[i] = table[i]
  BY <1>0, <1>1, <1>2, <1>3, Zenon
<1>5. pc[r] = "ack" => delivered[id] > 0
  BY Zenon DEF MapInv, TakenBeforeAck
<1>6. 0 \in 0..AttemptCap /\ 0 \in 0..AgeCap
  BY OutboxConstants, AgeCapType
<1>7. /\ batch' = [batch EXCEPT ![r] = @ \ {id}]
      /\ claimed' = [claimed EXCEPT ![r][id] = 0]
      /\ pc' = [pc EXCEPT ![r] = IF batch[r] = {id} THEN "yield" ELSE "publish"]
      /\ age' = [age EXCEPT ![r] = IF batch[r] = {id} THEN 0 ELSE @]
  BY <1>1, Zenon DEF SettleCurrent
<1> HIDE DEF id
<1>8. /\ batch' \in [Relays -> SUBSET Ids] /\ pc' \in [Relays -> RelayPlaces]
      /\ age' \in [Relays -> 0..AgeCap] /\ claimed' \in [Relays -> [Ids -> 0..AttemptCap]]
  BY <1>0, <1>6, <1>7, Zenon DEF RelayPlaces, Working
<1>9. /\ RestStay(r) /\ batch'[r] = batch[r] \ {id}
      /\ \/ pc'[r] = "yield"
         \/ pc'[r] = "publish" /\ batch[r] # {id} /\ age'[r] = age[r]
  BY <1>0, <1>7, Zenon DEF RestStay
<1>10. pc'[r] = "yield" \/ (pc'[r] = "publish" /\ batch'[r] # {} /\ age'[r] = age[r])
  BY <1>2, <1>9, Zenon
<1>11. MapTypeOK'
  BY <1>1, <1>4, <1>8, Zenon DEF MapInv, MapTypeOK
<1>12. table'[id] # None /\ table'[id].status = IF pc[r] = "ack" THEN "published" ELSE "failed"
  BY <1>3, <1>4, NoneIsNoRow, Zenon
<1>13. \/ pc[r] = "ack" /\ delivered[id] > 0 /\ table'[id].status = "published"
       \/ pc[r] = "nack" /\ table'[id].status = "failed"
  BY <1>1, <1>5, <1>12, Zenon
<1>14. Settles(r, id)
  BY <1>1, <1>2, <1>4, <1>9, <1>10, <1>12, <1>13, Zenon DEF Settles
<1> QED
  BY <1>11, <1>14, Zenon DEF id

LEMMA TickAges ==
    ASSUME MapInv, RelayTick
    PROVE  MapTypeOK' /\ Ages
<1> DEFINE older(r) == IF pc[r] \in Working \cup {"locked"} /\ age[r] < AgeCap
                       THEN age[r] + 1 ELSE age[r]
           late(id) == \E r \in Relays : Holds(r, id) /\ older(r) >= Lease
<1>0. /\ age \in [Relays -> 0..AgeCap] /\ cause \in [Ids -> SUBSET {"late", "again"}]
      /\ table \in [Ids -> Rows \cup {None}]
  BY Zenon DEF MapInv, MapTypeOK
<1>1. /\ table' = [id \in Ids |->
                     IF table[id] = None THEN None
                     ELSE [table[id] EXCEPT !.next = OneLess(@), !.lease = OneLess(@)]]
      /\ age' = [r \in Relays |-> older(r)]
      /\ cause' = [id \in Ids |-> IF late(id) THEN cause[id] \cup {"late"} ELSE cause[id]]
      /\ UNCHANGED <<pc, batch, claimed, delivered>>
  BY Zenon DEF RelayTick
<1>2. \A id \in Ids :
        /\ table[id] = None => table'[id] = None
        /\ table[id] # None => /\ table'[id] # None /\ table'[id] \in Rows
                               /\ table'[id].status = table[id].status
                               /\ table'[id].lease = OneLess(table[id].lease)
  <2> SUFFICES ASSUME NEW id \in Ids, table[id] # None
               PROVE  /\ table'[id] # None /\ table'[id] \in Rows
                      /\ table'[id].status = table[id].status
                      /\ table'[id].lease = OneLess(table[id].lease)
    BY <1>1, Zenon
  <2>1. table[id] \in Rows
    BY <1>0, Zenon
  <2>2. OneLess(table[id].next) \in Times /\ OneLess(table[id].lease) \in Times
    BY <2>1, OneLessType, Zenon DEF Rows
  <2>3. table'[id] = [table[id] EXCEPT !.next = OneLess(@), !.lease = OneLess(@)]
    BY <1>1, Zenon
  <2>4. /\ table'[id] \in Rows /\ table'[id].status = table[id].status
        /\ table'[id].lease = OneLess(table[id].lease)
    BY <2>1, <2>2, <2>3, Zenon DEF Rows
  <2> QED
    BY <2>4, NoneIsNoRow, Zenon
<1>3. table' \in [Ids -> Rows \cup {None}]
  <2>1. table' = [id \in Ids |-> table'[id]] /\ \A id \in Ids : table'[id] \in Rows \cup {None}
    BY <1>1, <1>2, Zenon
  <2> QED
    BY <2>1, Zenon
<1>4. \A r \in Relays : /\ older(r) \in 0..AgeCap
                        /\ pc[r] \in Working /\ age[r] < AgeCap => older(r) = age[r] + 1
  <2> SUFFICES ASSUME NEW r \in Relays
               PROVE  /\ older(r) \in 0..AgeCap
                      /\ pc[r] \in Working /\ age[r] < AgeCap => older(r) = age[r] + 1
    BY Zenon
  <2>1. age[r] \in 0..AgeCap
    BY <1>0, Zenon
  <2>2. age[r] < AgeCap => age[r] + 1 \in 0..AgeCap
    BY <2>1, AgeCapType
  <2> QED
    BY <2>1, <2>2, Zenon
<1> HIDE DEF older
<1>5. age' \in [Relays -> 0..AgeCap] /\ \A r \in Relays : age'[r] = older(r)
  BY <1>1, <1>4, Zenon
<1>6. \A id \in Ids : cause'[id] = IF late(id) THEN cause[id] \cup {"late"} ELSE cause[id]
  BY <1>1, Zenon
<1>7. cause' \in [Ids -> SUBSET {"late", "again"}]
  <2>1. \A id \in Ids : cause'[id] \in SUBSET {"late", "again"}
    BY <1>0, <1>6, Zenon
  <2>2. cause' = [id \in Ids |-> cause'[id]]
    BY <1>1, Zenon
  <2> QED
    BY <2>1, <2>2, Zenon
<1>8. \A r \in Relays, id \in Ids : Holds(r, id) =>
        /\ age[r] < AgeCap => age'[r] = age[r] + 1
        /\ age'[r] >= Lease => cause'[id] # {}
  BY <1>4, <1>5, <1>6, Zenon DEF Holds
<1>9. MapTypeOK'
  BY <1>1, <1>3, <1>5, <1>7, Zenon DEF MapInv, MapTypeOK
<1>10. \A id \in Ids : cause[id] \subseteq cause'[id]
  BY <1>6, Zenon
<1> QED
  BY <1>1, <1>2, <1>8, <1>9, <1>10, Zenon DEF Ages

LEMMA MemorySteps ==
    ASSUME MapInv, [MemoryNext]_relayVars
    PROVE  /\ MapTypeOK'
           /\ \/ \E r \in Relays : Walks(r) \/ (\E rows \in SUBSET Ids : Takes(r, rows))
                                            \/ (\E id \in Ids : Settles(r, id))
              \/ \E id \in Ids : Replaces(id)
              \/ Ages
              \/ UNCHANGED <<table, pc, batch, age, delivered, cause>>
<1>1. CASE RelayTick
  BY <1>1, TickAges, Zenon
<1>2. ASSUME NEW r \in Relays, RelayStep(r) \/ FaultStep(r)
      PROVE  MapTypeOK' /\ Walks(r)
  BY <1>2, OwnStepWalks, Zenon DEF OwnStep, FaultStep
<1>3. ASSUME NEW r \in Relays, ClaimPending(r)
      PROVE  MapTypeOK' /\ (Walks(r) \/ \E rows \in SUBSET Ids : Takes(r, rows))
  BY <1>3, ClaimTakes, Zenon
<1>4. ASSUME NEW r \in Relays, SettlePublished(r) \/ SettleFailed(r)
      PROVE  MapTypeOK' /\ \E id \in Ids : Settles(r, id)
  BY <1>4, SettlementSettles, Zenon DEF Settles
<1>5. ASSUME NEW id \in Ids, Enqueue(id)
      PROVE  MapTypeOK' /\ Replaces(id)
  BY <1>5, EnqueueReplaces, Zenon
<1>6. CASE UNCHANGED relayVars
  BY <1>6, Zenon DEF relayVars, storeVars, loopVars, ghostVars, MapInv, MapTypeOK
<1> QED
  BY <1>1, <1>2, <1>3, <1>4, <1>5, <1>6, Zenon DEF MemoryNext, StoreStep

LEMMA MapInvInit == MemoryInit => MapInv
<1> SUFFICES ASSUME MemoryInit PROVE MapInv
  BY Zenon
<1>1. 0 \in 0..AttemptCap /\ 0 \in 0..AgeCap /\ 0 \in 0..2
  BY OutboxConstants, AgeCapType
<1>2. MapTypeOK
  BY <1>1, Zenon DEF MemoryInit, InitRelay, MapTypeOK, RelayPlaces
<1>3. \A r \in Relays : pc[r] = "poll"
  BY Zenon DEF MemoryInit, InitRelay
<1> QED
  BY <1>2, <1>3, Zenon DEF MapInv, StoredBatches, TakenBeforeAck, HeldUnderLease, HeldByOne, Holds,
     Working

LEMMA MapInvStep == MapInv /\ [MemoryNext]_relayVars => MapInv'
<1> SUFFICES ASSUME MapInv, [MemoryNext]_relayVars PROVE MapInv'
  BY Zenon
<1>1. CASE UNCHANGED <<table, pc, batch, age, delivered, cause>>
  BY <1>1, MemorySteps, Zenon DEF MapInv, StoredBatches, TakenBeforeAck, HeldUnderLease, HeldByOne,
     UnderLease, Holds, CurrentId
<1> QED
  BY <1>1, MemorySteps, WalksInv, TakesInv, SettlesInv, ReplacesInv, AgesInv, Zenon

LEMMA MapInvariance == MemorySpec => []MapInv
<1> QED
  BY MapInvInit, MapInvStep, PTL DEF MemorySpec

\* In the in-memory store a published message is opened again only by a client,
\* or by the failure of a relay that lost its lease (mark_failed), for any
\* number of relays, messages and crashes.
THEOREM ReopensHaveCause == MemorySpec => PublishedReopens
<1>1. ASSUME MapInv, [MemoryNext]_relayVars, NEW id \in Present,
             table[id].status = "published", table'[id].status # "published"
      PROVE  table'[id] = NewRow \/ cause[id] # {}
  <2>0. id \in Ids /\ table[id] # None
    BY Zenon DEF Present
  <2>1. ASSUME NEW r \in Relays, Walks(r) PROVE FALSE
    BY <1>1, <2>1, Zenon DEF Walks
  <2>2. ASSUME NEW r \in Relays, NEW rows \in SUBSET Ids, Takes(r, rows) PROVE FALSE
    BY <1>1, <2>0, <2>2, Zenon DEF Takes, Claimable
  <2>3. ASSUME NEW r \in Relays, NEW i \in Ids, Settles(r, i) PROVE cause[id] # {}
    <3>1. i = id /\ Holds(r, id)
      BY <1>1, <2>0, <2>3, Zenon DEF Settles
    <3> QED
      BY <1>1, <2>0, <3>1, Zenon DEF MapInv, HeldUnderLease, UnderLease
  <2>4. ASSUME NEW i \in Ids, Replaces(i) PROVE table'[id] = NewRow
    BY <1>1, <2>0, <2>4, Zenon DEF Replaces
  <2>5. CASE Ages
    BY <1>1, <2>0, <2>5, Zenon DEF Ages
  <2>6. CASE UNCHANGED <<table, pc, batch, age, delivered, cause>>
    BY <1>1, <2>6, Zenon
  <2> QED
    BY <1>1, <2>1, <2>2, <2>3, <2>4, <2>5, <2>6, MemorySteps, Zenon
<1>2. MapInv /\ [MemoryNext]_relayVars =>
        [\A id \in Present :
           table[id].status = "published" /\ table'[id].status # "published"
             => table'[id] = NewRow \/ cause[id] # {}]_relayVars
  BY <1>1, Zenon
<1> QED
  BY <1>2, MapInvariance, PTL DEF MemorySpec, PublishedReopens

-----------------------------------------------------------------------------
(* The in-memory outbox implements EventOutbox. *)

Stage(id) ==
    IF table[id] = None THEN "none"
    ELSE IF table[id].status = "published" THEN "done" ELSE "waiting"

\* A step that moves at most one message, as the promise allows it.
LEMMA StageStep ==
    ASSUME NEW id \in Ids, \A i \in Ids : i # id => Stage(i)' = Stage(i),
           \/ delivered' = delivered /\ Stage(id)' = Stage(id)
           \/ delivered' = delivered /\ Stage(id) # "waiting" /\ Stage(id)' = "waiting"
           \/ delivered' = delivered /\ Stage(id) = "waiting" /\ Stage(id)' = "done" /\ delivered[id] > 0
           \/ delivered' = MoreDelivered(id) /\ Stage(id) # "none" /\ Stage(id)' = Stage(id)
    PROVE  MemoryPromise!Next \/ UNCHANGED MemoryPromise!vars
<1> DEFINE phase == [i \in Ids |-> Stage(i)]
<1>0. Stage(id) \in {"none", "waiting", "done"}
  BY Zenon DEF Stage
<1>1. CASE delivered' = delivered /\ Stage(id)' = Stage(id)
  <2>1. phase' = phase
    BY <1>1, Zenon
  <2> QED
    BY <1>1, <2>1, Zenon DEF MemoryPromise!vars, Stage
<1>2. CASE delivered' = delivered /\ Stage(id) # "waiting" /\ Stage(id)' = "waiting"
  <2>1. phase' = [phase EXCEPT ![id] = "waiting"] /\ phase[id] \in {"none", "done"}
    BY <1>0, <1>2, Zenon
  <2> QED
    BY <1>2, <2>1, Zenon DEF MemoryPromise!Next, MemoryPromise!Accept, Stage
<1>3. CASE /\ delivered' = delivered /\ delivered[id] > 0
           /\ Stage(id) = "waiting" /\ Stage(id)' = "done"
  <2>1. phase' = [phase EXCEPT ![id] = "done"] /\ phase[id] = "waiting"
    BY <1>3, Zenon
  <2> QED
    BY <1>3, <2>1, Zenon DEF MemoryPromise!Next, MemoryPromise!Finish, Stage
<1>4. CASE delivered' = MoreDelivered(id) /\ Stage(id) # "none" /\ Stage(id)' = Stage(id)
  <2>1. phase' = phase /\ phase[id] # "none"
    BY <1>4, Zenon
  <2> QED
    BY <1>4, <2>1, Zenon DEF MemoryPromise!Next, MemoryPromise!Deliver, MoreDelivered, Stage
<1> QED
  BY <1>1, <1>2, <1>3, <1>4, Zenon

\* A step that leaves every message where it is.
LEMMA StagesStay ==
    ASSUME \A i \in Ids : Stage(i)' = Stage(i), delivered' = delivered
    PROVE  UNCHANGED MemoryPromise!vars
<1>1. [i \in Ids |-> Stage(i)]' = [i \in Ids |-> Stage(i)]
  BY Zenon
<1> QED
  BY <1>1, Zenon DEF MemoryPromise!vars, Stage

LEMMA PromiseStep ==
    MapInv /\ [MemoryNext]_relayVars => [MemoryPromise!Next]_(MemoryPromise!vars)
<1> SUFFICES ASSUME MapInv, [MemoryNext]_relayVars
             PROVE  MemoryPromise!Next \/ UNCHANGED MemoryPromise!vars
  BY Zenon
<1>1. ASSUME NEW r \in Relays, Walks(r)
      PROVE  MemoryPromise!Next \/ UNCHANGED MemoryPromise!vars
  <2>1. \A i \in Ids : Stage(i)' = Stage(i)
    BY <1>1, Zenon DEF Walks, Stage
  <2>2. CASE delivered' = delivered
    BY <2>1, <2>2, StagesStay, Zenon
  <2>3. CASE pc[r] \in Working /\ delivered' = MoreDelivered(CurrentId(r))
    <3>1. CurrentId(r) \in Ids /\ table[CurrentId(r)] # None
      BY <2>3, AtWork, HeldStored, Zenon
    <3>2. Stage(CurrentId(r)) # "none"
      BY <3>1, Zenon DEF Stage
    <3> QED
      BY <2>1, <2>3, <3>1, <3>2, StageStep, Zenon
  <2> QED
    BY <1>1, <2>2, <2>3, Zenon DEF Walks
<1>2. ASSUME NEW r \in Relays, NEW rows \in SUBSET Ids, Takes(r, rows)
      PROVE  UNCHANGED MemoryPromise!vars
  <2>1. \A i \in Ids : Stage(i)' = Stage(i)
    BY <1>2, Zenon DEF Takes, Stage, Claimable
  <2> QED
    BY <1>2, <2>1, StagesStay, Zenon DEF Takes
<1>3. ASSUME NEW r \in Relays, NEW id \in Ids, Settles(r, id)
      PROVE  MemoryPromise!Next \/ UNCHANGED MemoryPromise!vars
  <2>1. \A i \in Ids : i # id => Stage(i)' = Stage(i)
    BY <1>3, Zenon DEF Settles, Stage
  <2>2. table[id] # None /\ table'[id] # None /\ delivered' = delivered
    BY <1>3, HeldStored, Zenon DEF Settles
  <2>3. Stage(id) \in {"waiting", "done"}
    BY <2>2, Zenon DEF Stage
  <2>4. \/ Stage(id)' = "done" /\ delivered[id] > 0
        \/ Stage(id)' = "waiting"
    BY <1>3, <2>2, Zenon DEF Settles, Stage
  <2> QED
    BY <2>1, <2>2, <2>3, <2>4, StageStep, Zenon
<1>4. ASSUME NEW id \in Ids, Replaces(id)
      PROVE  MemoryPromise!Next \/ UNCHANGED MemoryPromise!vars
  <2>1. NewRow # None /\ NewRow.status = "pending"
    BY RowTypes, NoneIsNoRow, Zenon DEF NewRow
  <2>2. Stage(id)' = "waiting" /\ \A i \in Ids : i # id => Stage(i)' = Stage(i)
    BY <1>4, <2>1, Zenon DEF Replaces, Stage
  <2>3. delivered' = delivered
    BY <1>4, Zenon DEF Replaces
  <2> QED
    BY <2>2, <2>3, StageStep, Zenon
<1>5. CASE Ages
  <2>1. \A i \in Ids : Stage(i)' = Stage(i)
    BY <1>5, Zenon DEF Ages, Stage
  <2> QED
    BY <1>5, <2>1, StagesStay, Zenon DEF Ages
<1>6. CASE UNCHANGED <<table, pc, batch, age, delivered, cause>>
  <2>1. \A i \in Ids : Stage(i)' = Stage(i)
    BY <1>6, Zenon DEF Stage
  <2> QED
    BY <1>6, <2>1, StagesStay, Zenon
<1> QED
  BY <1>1, <1>2, <1>3, <1>4, <1>5, <1>6, MemorySteps, Zenon

\* The in-memory outbox, with any number of relays and crashes, implements the
\* promise of EventOutbox although enqueue replaces rows and a settlement looks
\* at no status: only accepted events are delivered, done means delivered.
THEOREM MemoryImplements == MemorySpec => MemoryKeepsPromise
<1>1. MemoryInit => MemoryPromise!Init
  BY Zenon DEF MemoryInit, InitRelay, MemoryPromise!Init
<1> QED
  BY <1>1, PromiseStep, MapInvariance, PTL DEF MemorySpec, MemoryKeepsPromise, MemoryPromise!Spec

=============================================================================
