--------------------------- MODULE DeliveryProofs ---------------------------
(***************************************************************************)
(* Theorems about KafkaConsumer (what a commit stands for), Idempotency    *)
(* (one execution of a key, for every time to live that is not shorter     *)
(* than the lease) and ConfigCenter (in which order listeners hear of a    *)
(* change), for every value of their other constants.                      *)
(***************************************************************************)
EXTENDS KafkaConsumer, Idempotency, ConfigCenter, TLAPS

-----------------------------------------------------------------------------
(***************************************************************************)
(* KafkaConsumer                                                           *)
(***************************************************************************)

Fates == {None, "handled", "retry", "dead", "drop", "failed", "lagged"}

LogRecords == [id: Nat, attempt: Nat, fate: Fates]

KafkaTypeOK ==
    /\ config \in [auto: BOOLEAN, topics: SUBSET {"retry", "dead"}]
    /\ log \in [Topics -> Seq(LogRecords)]
    /\ fetched \in [Topics -> Nat] /\ committed \in [Topics -> Nat]
    /\ channel \in Seq(Topics \X Nat)
    /\ \/ work = Idle
       \/ work \in [topic: Topics, offset: Nat, at: {"run", "ack", "nack"}]

\* What the consumer knows of was fetched, and was published before.
InTheLog ==
    /\ \A t \in Topics : committed[t] <= fetched[t] /\ fetched[t] <= Len(log[t])
    /\ \A j \in DOMAIN channel : 1 <= channel[j][2] /\ channel[j][2] <= fetched[channel[j][1]]
    /\ work # Idle => 1 <= work.offset /\ work.offset <= fetched[work.topic]

\* Deliveries of a topic are taken in the order of their offsets.
InOrder ==
    /\ \A j, k \in DOMAIN channel :
          j < k /\ channel[j][1] = channel[k][1] => channel[j][2] < channel[k][2]
    /\ \A j \in DOMAIN channel :
          work # Idle /\ channel[j][1] = work.topic => work.offset < channel[j][2]

\* What CommitAccounted grants to a record that was committed, given the records
\* of the retry topic, those of the dead-letter topic, and the topics there are.
Accounted(r, copies, deads, topics) ==
    \/ r.fate \in {"handled", "failed", "lagged"}
    \/ r.fate = "dead" /\ r.id \in deads
    \/ /\ r.fate = "retry"
       /\ \E i \in DOMAIN copies : /\ copies[i].id = r.id
                                   /\ copies[i].attempt = r.attempt + 1
    \/ r.fate = "drop" /\ topics # {"retry", "dead"}

Waits(t, i) == \E j \in DOMAIN channel : channel[j] = <<t, i>>

Handles(t, i) == work # Idle /\ work.topic = t /\ work.offset = i

\* A record that was fetched is accounted for, in the channel, or in the loop.
FetchedKept ==
    \A t \in Topics : \A i \in 1..fetched[t] :
       Accounted(log[t][i], log["retry"], dead, config.topics) \/ Waits(t, i) \/ Handles(t, i)

CommittedKept ==
    \A t \in Topics : \A i \in 1..committed[t] :
       Accounted(log[t][i], log["retry"], dead, config.topics)

\* The records are followed only where the loop alone commits.
KafkaInv ==
    /\ KafkaTypeOK /\ InTheLog /\ InOrder
    /\ ~config.auto => FetchedKept /\ CommittedKept

-----------------------------------------------------------------------------
(* What a step does to the log *)

\* Records are only added; one that gets a new fate is accounted for by it.
LogGrows ==
    /\ log' \in [Topics -> Seq(LogRecords)] /\ dead \subseteq dead' /\ UNCHANGED config
    /\ \A u \in Topics :
          /\ Len(log[u]) <= Len(log'[u])
          /\ \A j \in 1..Len(log[u]) :
                /\ log'[u][j].id = log[u][j].id /\ log'[u][j].attempt = log[u][j].attempt
                /\ \/ log'[u][j].fate = log[u][j].fate
                   \/ Accounted(log'[u][j], log'["retry"], dead', config.topics)

LEMMA AccountedStays ==
    ASSUME KafkaTypeOK, LogGrows, NEW u \in Topics, NEW j \in 1..Len(log[u]),
           Accounted(log[u][j], log["retry"], dead, config.topics)
    PROVE  Accounted(log'[u][j], log'["retry"], dead', config.topics)
<1>1. /\ log'[u][j].id = log[u][j].id /\ log'[u][j].attempt = log[u][j].attempt
      /\ \/ log'[u][j].fate = log[u][j].fate
         \/ Accounted(log'[u][j], log'["retry"], dead', config.topics)
  BY Zenon DEF LogGrows
<1>2. CASE log'[u][j].fate = log[u][j].fate
  <2>1. CASE log[u][j].fate = "dead" /\ log[u][j].id \in dead
    BY <1>1, <1>2, <2>1, Zenon DEF LogGrows, Accounted
  <2>2. CASE log[u][j].fate = "retry"
    <3>1. PICK i \in DOMAIN log["retry"] : /\ log["retry"][i].id = log[u][j].id
                                           /\ log["retry"][i].attempt = log[u][j].attempt + 1
      BY <2>2, Zenon DEF Accounted
    <3>2. i \in 1..Len(log["retry"]) /\ "retry" \in Topics
      BY <3>1 DEF KafkaTypeOK, Topics
    <3>3. /\ i \in DOMAIN log'["retry"]
          /\ log'["retry"][i].id = log["retry"][i].id
          /\ log'["retry"][i].attempt = log["retry"][i].attempt
      BY <3>2 DEF KafkaTypeOK, LogGrows
    <3> QED
      BY <1>1, <1>2, <2>2, <3>1, <3>3, Zenon DEF Accounted
  <2> QED
    BY <1>2, <2>1, <2>2, Zenon DEF Accounted
<1> QED
  BY <1>1, <1>2, Zenon

\* Log M is log L but for the fate of one record.
FateIs(M, L, t, i, f) ==
    /\ M \in [Topics -> Seq(LogRecords)]
    /\ \A u \in Topics : Len(M[u]) = Len(L[u])
    /\ \A u \in Topics : \A j \in 1..Len(L[u]) :
          M[u][j].id = L[u][j].id /\ M[u][j].attempt = L[u][j].attempt
    /\ M[t][i].fate = f
    /\ \A u \in Topics : \A j \in 1..Len(L[u]) :
          ~(u = t /\ j = i) => M[u][j].fate = L[u][j].fate

LEMMA SetFate ==
    ASSUME NEW L \in [Topics -> Seq(LogRecords)], NEW t \in Topics, NEW i \in 1..Len(L[t]),
           NEW f \in Fates
    PROVE  FateIs([L EXCEPT ![t][i].fate = f], L, t, i, f)
<1> DEFINE M == [L EXCEPT ![t][i].fate = f]
<1> DEFINE r == [L[t][i] EXCEPT !.fate = f]
<1>1. L[t] \in Seq(LogRecords) /\ L[t][i] \in LogRecords
  OBVIOUS
<1>2. r \in LogRecords /\ r.id = L[t][i].id /\ r.attempt = L[t][i].attempt /\ r.fate = f
  BY <1>1, Zenon DEF LogRecords
<1> HIDE DEF r
<1>3. M = [L EXCEPT ![t] = [L[t] EXCEPT ![i] = r]]
  BY Zenon DEF r
<1> DEFINE s == [L[t] EXCEPT ![i] = r]
<1>4. s \in Seq(LogRecords) /\ Len(s) = Len(L[t]) /\ s[i] = r
      /\ \A j \in 1..Len(L[t]) : j # i => s[j] = L[t][j]
  BY <1>1, <1>2
<1> HIDE DEF s
<1>5. M \in [Topics -> Seq(LogRecords)] /\ M[t] = s /\ \A u \in Topics : u # t => M[u] = L[u]
  BY <1>3, <1>4, Zenon DEF s
<1> HIDE DEF M
<1>6. FateIs(M, L, t, i, f)
  BY <1>2, <1>4, <1>5, Zenon DEF FateIs
<1> QED
  BY <1>6, Zenon DEF M

LEMMA WorkAtRecord ==
    ASSUME KafkaInv, work # Idle
    PROVE  /\ work \in [topic: Topics, offset: Nat, at: {"run", "ack", "nack"}]
           /\ work.topic \in Topics /\ work.offset \in 1..Len(log[work.topic])
           /\ CurrentRecord \in LogRecords
<1>1. work \in [topic: Topics, offset: Nat, at: {"run", "ack", "nack"}]
  BY Zenon DEF KafkaInv, KafkaTypeOK
<1>2. work.topic \in Topics /\ work.offset \in 1..Len(log[work.topic])
  BY <1>1 DEF KafkaInv, KafkaTypeOK, InTheLog
<1> QED
  BY <1>1, <1>2 DEF KafkaInv, KafkaTypeOK, CurrentRecord

\* What was accounted for still is, after a step that only adds to the log.
LEMMA CommittedStays ==
    ASSUME KafkaInv, LogGrows, UNCHANGED committed, ~config.auto
    PROVE  CommittedKept'
<1>1. \A t \in Topics : \A i \in 1..committed[t] : i \in 1..Len(log[t])
  BY DEF KafkaInv, KafkaTypeOK, InTheLog
<1>2. config' = config
  BY Zenon DEF LogGrows
<1> QED
  BY <1>1, <1>2, AccountedStays, Zenon DEF KafkaInv, CommittedKept

LEMMA FetchedStays ==
    ASSUME KafkaInv, LogGrows, ~config.auto, NEW t \in Topics, NEW i \in 1..fetched[t]
    PROVE  \/ Accounted(log'[t][i], log'["retry"], dead', config.topics)
           \/ Waits(t, i) \/ Handles(t, i)
<1>1. i \in 1..Len(log[t])
  BY DEF KafkaInv, KafkaTypeOK, InTheLog
<1> QED
  BY <1>1, AccountedStays, Zenon DEF KafkaInv, FetchedKept

\* The loop is done with its record.
LEMMA LoopDone ==
    ASSUME KafkaInv, work # Idle, LogGrows, work' = Idle, UNCHANGED <<fetched, channel>>,
           committed' \in {committed, [committed EXCEPT ![work.topic] = work.offset]},
           Accounted(log'[work.topic][work.offset], log'["retry"], dead', config.topics)
    PROVE  KafkaInv'
<1>0. /\ work.topic \in Topics /\ work.offset \in Nat
      /\ config' = config
  BY WorkAtRecord, Zenon DEF LogGrows
<1>1. KafkaTypeOK'
  BY <1>0, Zenon DEF KafkaInv, KafkaTypeOK, LogGrows
<1>2. InTheLog'
  <2>1. \A t \in Topics : committed'[t] <= fetched[t]
    BY <1>0, Zenon DEF KafkaInv, KafkaTypeOK, InTheLog
  <2>2. \A t \in Topics : fetched[t] <= Len(log'[t])
    BY DEF KafkaInv, KafkaTypeOK, InTheLog, LogGrows
  <2> QED
    BY <2>1, <2>2, Zenon DEF KafkaInv, InTheLog
<1>3. InOrder'
  BY Zenon DEF KafkaInv, InOrder
<1>4. ASSUME ~config.auto PROVE FetchedKept'
  <2>1. ASSUME NEW t \in Topics, NEW i \in 1..fetched[t]
        PROVE  Accounted(log'[t][i], log'["retry"], dead', config.topics) \/ Waits(t, i)
    BY <1>4, <2>1, FetchedStays, Zenon DEF Handles
  <2>2. \A t, i : Waits(t, i)' <=> Waits(t, i)
    BY Zenon DEF Waits
  <2> QED
    BY <1>0, <2>1, <2>2, Zenon DEF FetchedKept
<1>5. ASSUME ~config.auto PROVE CommittedKept'
  <2>1. CASE committed' = committed
    BY <1>5, <2>1, CommittedStays, Zenon
  <2>2. CASE committed' = [committed EXCEPT ![work.topic] = work.offset]
    <3>1. ASSUME NEW i \in 1..work.offset
          PROVE  Accounted(log'[work.topic][i], log'["retry"], dead', config.topics)
      <4>1. i \in 1..fetched[work.topic]
        BY <1>0 DEF KafkaInv, KafkaTypeOK, InTheLog
      <4>2. ASSUME NEW j \in DOMAIN channel, channel[j] = <<work.topic, i>> PROVE FALSE
        <5>1. channel[j][1] = work.topic /\ channel[j][2] = i
          BY <4>2
        <5>2. work.offset < channel[j][2]
          BY <5>1, Zenon DEF KafkaInv, InOrder
        <5> QED
          BY <1>0, <5>1, <5>2
      <4> QED
        BY <1>0, <1>5, <4>1, <4>2, FetchedStays, Zenon DEF Handles, Waits
    <3>2. ASSUME NEW t \in Topics, t # work.topic, NEW i \in 1..committed[t]
          PROVE  Accounted(log'[t][i], log'["retry"], dead', config.topics)
      <4>1. i \in 1..Len(log[t])
        BY DEF KafkaInv, KafkaTypeOK, InTheLog
      <4> QED
        BY <1>5, <4>1, AccountedStays, Zenon DEF KafkaInv, CommittedKept
    <3>3. committed'[work.topic] = work.offset
          /\ \A t \in Topics : t # work.topic => committed'[t] = committed[t]
      BY <1>0, <2>2, Zenon DEF KafkaInv, KafkaTypeOK
    <3> QED
      BY <1>0, <3>1, <3>2, <3>3, Zenon DEF CommittedKept
  <2> QED
    BY <2>1, <2>2, Zenon
<1> QED
  BY <1>0, <1>1, <1>2, <1>3, <1>4, <1>5, Zenon DEF KafkaInv

\* The record's fate is written, on top of a log that only has more records.
LEMMA FateGrows ==
    ASSUME KafkaInv, NEW L \in [Topics -> Seq(LogRecords)], UNCHANGED config, dead \subseteq dead',
           \A u \in Topics : /\ Len(log[u]) <= Len(L[u])
                             /\ \A j \in 1..Len(log[u]) : L[u][j] = log[u][j],
           NEW t \in Topics, NEW i \in 1..Len(log[t]), NEW f \in Fates,
           log' = [L EXCEPT ![t][i].fate = f],
           Accounted(log'[t][i], log'["retry"], dead', config.topics)
    PROVE  LogGrows
<1>1. i \in 1..Len(L[t])
  BY DEF KafkaInv, KafkaTypeOK
<1>2. FateIs(log', L, t, i, f)
  BY <1>1, SetFate, Zenon
<1>3. ASSUME NEW u \in Topics, NEW j \in 1..Len(log[u])
      PROVE  j \in 1..Len(L[u]) /\ L[u][j] = log[u][j]
  BY DEF KafkaInv, KafkaTypeOK
<1>4. \A u \in Topics : Len(log[u]) <= Len(log'[u])
  BY <1>2, Zenon DEF FateIs
<1>5. ASSUME NEW u \in Topics, NEW j \in 1..Len(log[u])
      PROVE  /\ log'[u][j].id = log[u][j].id /\ log'[u][j].attempt = log[u][j].attempt
             /\ \/ log'[u][j].fate = log[u][j].fate
                \/ Accounted(log'[u][j], log'["retry"], dead', config.topics)
  <2>1. j \in 1..Len(L[u]) /\ L[u][j] = log[u][j]
    BY <1>3, Zenon
  <2>2. /\ log'[u][j].id = L[u][j].id /\ log'[u][j].attempt = L[u][j].attempt
        /\ ~(u = t /\ j = i) => log'[u][j].fate = L[u][j].fate
    BY <1>2, <2>1, ZenonT(30) DEF FateIs
  <2>3. CASE u = t /\ j = i
    BY <2>1, <2>2, <2>3, Zenon
  <2>4. CASE ~(u = t /\ j = i)
    BY <2>1, <2>2, <2>4, Zenon
  <2> QED
    BY <2>3, <2>4, Zenon
<1> QED
  BY <1>2, <1>4, <1>5, Zenon DEF LogGrows, FateIs

-----------------------------------------------------------------------------
(* The loop *)

LEMMA EndInv ==
    ASSUME KafkaInv, work # Idle, NEW f \in {"handled", "failed"}, End(f),
           UNCHANGED <<config, fetched, channel, dead>>,
           committed' \in {committed, [committed EXCEPT ![work.topic] = work.offset]}
    PROVE  KafkaInv'
<1>1. work.topic \in Topics /\ work.offset \in 1..Len(log[work.topic])
  BY WorkAtRecord, Zenon
<1>2. log \in [Topics -> Seq(LogRecords)] /\ f \in Fates
  BY Zenon DEF KafkaInv, KafkaTypeOK, Fates
<1>3. log' = [log EXCEPT ![work.topic][work.offset].fate = f] /\ work' = Idle
  BY Zenon DEF End
<1>4. FateIs(log', log, work.topic, work.offset, f)
  BY <1>1, <1>2, <1>3, SetFate, Zenon
<1>5. Accounted(log'[work.topic][work.offset], log'["retry"], dead', config.topics)
  BY <1>4, Zenon DEF FateIs, Accounted
<1>6. \A u \in Topics : Len(log[u]) <= Len(log[u])
  BY <1>2
<1>7. LogGrows
  BY <1>1, <1>2, <1>3, <1>5, <1>6, FateGrows, Zenon
<1> QED
  BY <1>3, <1>5, <1>7, LoopDone, Zenon

LEMMA RecoverInv ==
    ASSUME KafkaInv, Recover
    PROVE  KafkaInv'
<1> DEFINE to == RecoverAction(CurrentRecord.attempt)
           copy == Record(CurrentRecord.id, CurrentRecord.attempt + 1)
           L == IF to = "retry" THEN [log EXCEPT !["retry"] = Append(log["retry"], copy)] ELSE log
<1>1. work # Idle /\ "retry" \in Topics
  BY DEF Recover, Idle, Topics
<1>2. /\ work.topic \in Topics /\ work.offset \in 1..Len(log[work.topic])
      /\ CurrentRecord \in LogRecords /\ log \in [Topics -> Seq(LogRecords)]
  BY <1>1, WorkAtRecord, Zenon DEF KafkaInv, KafkaTypeOK
<1>3. to \in {"retry", "dead", "drop"} /\ (to = "drop" => config.topics # {"retry", "dead"})
  BY Zenon DEF RecoverAction
<1>4. /\ log' = [L EXCEPT ![work.topic][work.offset].fate = to] /\ work' = Idle
      /\ dead' = IF to = "dead" THEN dead \cup {CurrentRecord.id} ELSE dead
      /\ UNCHANGED <<config, fetched, committed, channel>>
  BY Zenon DEF Recover, PublishRecover
<1> HIDE DEF to
<1>5. copy \in LogRecords /\ copy.id = CurrentRecord.id /\ copy.attempt = CurrentRecord.attempt + 1
  BY <1>2 DEF Record, LogRecords, Fates
<1> HIDE DEF copy
<1>6. /\ L \in [Topics -> Seq(LogRecords)]
      /\ \A u \in Topics : /\ Len(log[u]) <= Len(L[u])
                           /\ \A j \in 1..Len(log[u]) : L[u][j] = log[u][j]
      /\ to = "retry" => \E i \in 1..Len(L["retry"]) : L["retry"][i] = copy
  <2>1. CASE to = "retry"
    <3> DEFINE copies == Append(log["retry"], copy)
    <3>1. /\ copies \in Seq(LogRecords) /\ Len(copies) = Len(log["retry"]) + 1
          /\ Len(log["retry"]) \in Nat /\ copies[Len(log["retry"]) + 1] = copy
          /\ \A j \in 1..Len(log["retry"]) : copies[j] = log["retry"][j]
      BY <1>1, <1>2, <1>5
    <3>2. L = [log EXCEPT !["retry"] = copies]
      BY <2>1, Zenon
    <3> HIDE DEF copies, L
    <3>3. /\ L \in [Topics -> Seq(LogRecords)] /\ L["retry"] = copies
          /\ \A u \in Topics : u # "retry" => L[u] = log[u]
      BY <1>1, <1>2, <3>1, <3>2, Zenon
    <3>4. ASSUME NEW u \in Topics
          PROVE  Len(log[u]) <= Len(L[u]) /\ \A j \in 1..Len(log[u]) : L[u][j] = log[u][j]
      <4>1. CASE u = "retry"
        BY <3>1, <3>3, <4>1
      <4>2. CASE u # "retry"
        BY <1>2, <3>3, <4>2
      <4> QED
        BY <4>1, <4>2, Zenon
    <3>5. Len(log["retry"]) + 1 \in 1..Len(L["retry"]) /\ L["retry"][Len(log["retry"]) + 1] = copy
      BY <3>1, <3>3
    <3> QED
      BY <3>3, <3>4, <3>5, Zenon
  <2>2. CASE to # "retry"
    BY <1>2, <2>2
  <2> QED
    BY <2>1, <2>2, Zenon
<1> HIDE DEF L
<1>7. to \in Fates /\ work.offset \in 1..Len(L[work.topic])
  BY <1>2, <1>3, <1>6 DEF Fates
<1>8. FateIs(log', L, work.topic, work.offset, to)
  BY <1>2, <1>4, <1>6, <1>7, SetFate, Zenon
<1>9. /\ log'[work.topic][work.offset].fate = to
      /\ log'[work.topic][work.offset].id = CurrentRecord.id
      /\ log'[work.topic][work.offset].attempt = CurrentRecord.attempt
  BY <1>2, <1>6, <1>7, <1>8 DEF FateIs, CurrentRecord
<1>10. Accounted(log'[work.topic][work.offset], log'["retry"], dead', config.topics)
  <2>1. CASE to = "retry"
    <3>1. PICK i \in 1..Len(L["retry"]) : L["retry"][i] = copy
      BY <1>6, <2>1, Zenon
    <3>2. /\ i \in DOMAIN log'["retry"] /\ log'["retry"][i].id = copy.id
          /\ log'["retry"][i].attempt = copy.attempt
      <4>1. i \in DOMAIN log'["retry"]
        BY <1>1, <1>6, <1>8 DEF FateIs
      <4>2. /\ log'["retry"][i].id = L["retry"][i].id
            /\ log'["retry"][i].attempt = L["retry"][i].attempt
        BY <1>1, <1>8, ZenonT(30) DEF FateIs
      <4> QED
        BY <3>1, <4>1, <4>2, Zenon
    <3> QED
      BY <1>5, <1>9, <2>1, <3>2, Zenon DEF Accounted
  <2>2. CASE to = "dead"
    BY <1>4, <1>9, <2>2 DEF Accounted
  <2>3. CASE to = "drop"
    BY <1>3, <1>9, <2>3, Zenon DEF Accounted
  <2> QED
    BY <1>3, <2>1, <2>2, <2>3, Zenon
<1>11. dead \subseteq dead'
  BY <1>4, Zenon
<1>12. LogGrows
  BY <1>2, <1>4, <1>6, <1>7, <1>10, <1>11, FateGrows, Zenon
<1> QED
  BY <1>1, <1>4, <1>10, <1>12, LoopDone, Zenon

\* A step that leaves every delivery where it is.
LEMMA NothingMoves ==
    ASSUME KafkaInv, LogGrows, UNCHANGED <<fetched, channel>>,
           committed' = committed \/ (config.auto /\ committed' = fetched),
           \/ UNCHANGED work
           \/ \E next \in {"ack", "nack"} : work.at = "run" /\ work' = [work EXCEPT !.at = next]
    PROVE  KafkaInv'
<1>0. config' = config
  BY Zenon DEF LogGrows
<1> DEFINE SameRecord ==
             /\ (work' = Idle) <=> (work = Idle)
             /\ work # Idle => /\ work' \in [topic: Topics, offset: Nat, at: {"run", "ack", "nack"}]
                               /\ work'.topic = work.topic /\ work'.offset = work.offset
<1>1. SameRecord
  <2>1. CASE UNCHANGED work
    BY <2>1, Zenon DEF KafkaInv, KafkaTypeOK
  <2>2. ASSUME NEW next \in {"ack", "nack"}, work.at = "run", work' = [work EXCEPT !.at = next]
        PROVE  SameRecord
    <3>1. work \in [topic: Topics, offset: Nat, at: {"run", "ack", "nack"}] /\ work # Idle
      BY <2>2 DEF KafkaInv, KafkaTypeOK, Idle
    <3>2. /\ work' \in [topic: Topics, offset: Nat, at: {"run", "ack", "nack"}]
          /\ work'.topic = work.topic /\ work'.offset = work.offset /\ work'.at = next
      BY <2>2, <3>1, Zenon
    <3>3. work' # Idle
      BY <3>2 DEF Idle
    <3> QED
      BY <3>1, <3>2, <3>3, Zenon
  <2> QED
    BY <2>1, <2>2, Zenon
<1>2. KafkaTypeOK'
  BY <1>0, <1>1, Zenon DEF KafkaInv, KafkaTypeOK, LogGrows
<1>3. InTheLog'
  <2>1. \A t \in Topics : committed'[t] <= fetched[t]
    BY DEF KafkaInv, KafkaTypeOK, InTheLog
  <2>2. \A t \in Topics : fetched[t] <= Len(log'[t])
    BY DEF KafkaInv, KafkaTypeOK, InTheLog, LogGrows
  <2> QED
    BY <1>1, <2>1, <2>2, Zenon DEF KafkaInv, InTheLog
<1>4. InOrder'
  BY <1>1, Zenon DEF KafkaInv, InOrder
<1>5. ASSUME ~config.auto PROVE FetchedKept' /\ CommittedKept'
  <2>1. \A t, i : (Waits(t, i)' <=> Waits(t, i)) /\ (Handles(t, i)' <=> Handles(t, i))
    BY <1>1, Zenon DEF Waits, Handles
  <2>2. FetchedKept'
    BY <1>0, <1>5, <2>1, FetchedStays, Zenon DEF FetchedKept
  <2> QED
    BY <1>5, <2>2, CommittedStays, Zenon
<1> QED
  BY <1>0, <1>2, <1>3, <1>4, <1>5, Zenon DEF KafkaInv

LEMMA SameLog ==
    ASSUME KafkaTypeOK, UNCHANGED <<config, log, dead>>
    PROVE  LogGrows
BY DEF KafkaTypeOK, LogGrows

LEMMA PublishInv ==
    ASSUME KafkaInv, Publish
    PROVE  KafkaInv'
<1> DEFINE new == Record(Len(log["events"]) + 1, 0)
<1>1. /\ log' = [log EXCEPT !["events"] = Append(log["events"], new)]
      /\ UNCHANGED <<config, fetched, committed, channel, work, dead>>
  BY Zenon DEF Publish
<1>2. "events" \in Topics /\ log \in [Topics -> Seq(LogRecords)]
  BY Zenon DEF KafkaInv, KafkaTypeOK, Topics
<1>3. new \in LogRecords
  BY <1>2 DEF Record, LogRecords, Fates
<1> HIDE DEF new
<1>4. /\ log' \in [Topics -> Seq(LogRecords)] /\ log'["events"] = Append(log["events"], new)
      /\ \A u \in Topics : u # "events" => log'[u] = log[u]
  BY <1>1, <1>2, <1>3
<1>5. \A u \in Topics : /\ Len(log[u]) <= Len(log'[u])
                        /\ \A j \in 1..Len(log[u]) : log'[u][j] = log[u][j]
  <2>1. /\ Len(log["events"]) <= Len(log'["events"])
        /\ \A j \in 1..Len(log["events"]) : log'["events"][j] = log["events"][j]
    BY <1>2, <1>3, <1>4
  <2>2. \A u \in Topics : Len(log[u]) <= Len(log[u])
    BY <1>2
  <2> QED
    BY <1>4, <2>1, <2>2, Zenon
<1>6. LogGrows
  BY <1>1, <1>4, <1>5, Zenon DEF LogGrows
<1> QED
  BY <1>1, <1>6, NothingMoves, Zenon

LEMMA TakeInv ==
    ASSUME KafkaInv, Take
    PROVE  KafkaInv'
<1>0. /\ work = Idle /\ channel # <<>> /\ channel' = Tail(channel)
      /\ work' = [topic |-> channel[1][1], offset |-> channel[1][2], at |-> "run"]
      /\ UNCHANGED <<config, log, fetched, committed, dead>>
  BY Zenon DEF Take
<1>1. /\ channel \in Seq(Topics \X Nat) /\ 1 \in DOMAIN channel
      /\ channel[1] \in Topics \X Nat /\ channel[1] = <<channel[1][1], channel[1][2]>>
  BY <1>0 DEF KafkaInv, KafkaTypeOK
<1>2. /\ channel' \in Seq(Topics \X Nat)
      /\ \A j \in DOMAIN channel' : j + 1 \in DOMAIN channel /\ channel'[j] = channel[j + 1]
      /\ \A j \in DOMAIN channel : j = 1 \/ (j - 1 \in DOMAIN channel' /\ channel'[j - 1] = channel[j])
  BY <1>0, <1>1
<1>3. /\ work' \in [topic: Topics, offset: Nat, at: {"run", "ack", "nack"}] /\ work' # Idle
      /\ work'.topic = channel[1][1] /\ work'.offset = channel[1][2]
  BY <1>0, <1>1, Zenon DEF Idle
<1>4. KafkaTypeOK'
  BY <1>0, <1>2, <1>3, Zenon DEF KafkaInv, KafkaTypeOK
<1>5. InTheLog'
  BY <1>0, <1>1, <1>2, <1>3 DEF KafkaInv, InTheLog
<1>6. InOrder'
  <2>1. ASSUME NEW j \in DOMAIN channel', NEW k \in DOMAIN channel', j < k,
               channel'[j][1] = channel'[k][1]
        PROVE  channel'[j][2] < channel'[k][2]
    <3>1. /\ j + 1 < k + 1 /\ j + 1 \in DOMAIN channel /\ k + 1 \in DOMAIN channel
          /\ channel'[j] = channel[j + 1] /\ channel'[k] = channel[k + 1]
      BY <1>2, <2>1
    <3>2. channel[j + 1][1] = channel[k + 1][1]
      BY <2>1, <3>1, Zenon
    <3>3. channel[j + 1][2] < channel[k + 1][2]
      BY <3>1, <3>2, Zenon DEF KafkaInv, InOrder
    <3> QED
      BY <3>1, <3>3, Zenon
  <2>2. ASSUME NEW j \in DOMAIN channel', channel'[j][1] = channel[1][1]
        PROVE  channel[1][2] < channel'[j][2]
    <3>1. 1 < j + 1 /\ j + 1 \in DOMAIN channel /\ channel'[j] = channel[j + 1]
      BY <1>2, <2>2
    <3>2. channel[1][2] < channel[j + 1][2]
      BY <1>1, <2>2, <3>1, Zenon DEF KafkaInv, InOrder
    <3> QED
      BY <3>1, <3>2, Zenon
  <2> QED
    BY <1>3, <2>1, <2>2, Zenon DEF InOrder
<1>7. ASSUME ~config.auto PROVE FetchedKept' /\ CommittedKept'
  <2>1. \A t, i : Waits(t, i) => Waits(t, i)' \/ Handles(t, i)'
    <3>1. ASSUME NEW t, NEW i, NEW j \in DOMAIN channel, channel[j] = <<t, i>>
          PROVE  Waits(t, i)' \/ Handles(t, i)'
      <4>1. CASE j = 1
        BY <1>3, <3>1, <4>1 DEF Handles
      <4>2. CASE j # 1
        BY <1>2, <3>1, <4>2, Zenon DEF Waits
      <4> QED
        BY <4>1, <4>2, Zenon
    <3> QED
      BY <3>1, Zenon DEF Waits
  <2>2. \A t, i : ~Handles(t, i)
    BY <1>0, Zenon DEF Handles
  <2> QED
    BY <1>0, <1>7, <2>1, <2>2, Zenon DEF KafkaInv, FetchedKept, CommittedKept
<1> QED
  BY <1>0, <1>4, <1>5, <1>6, <1>7, Zenon DEF KafkaInv

-----------------------------------------------------------------------------
(* The subscriber's task, and the death of the process *)

LEMMA SentBehind ==
    ASSUME NEW S, NEW s \in Seq(S), NEW e \in S
    PROVE  /\ Append(s, e) \in Seq(S) /\ Len(s) \in Nat
           /\ DOMAIN Append(s, e) = 1..(Len(s) + 1) /\ DOMAIN s = 1..Len(s)
           /\ Append(s, e)[Len(s) + 1] = e
           /\ \A j \in DOMAIN s : Append(s, e)[j] = s[j]
OBVIOUS

LEMMA FirstGone ==
    ASSUME NEW S, NEW s \in Seq(S), 1 \in DOMAIN s
    PROVE  /\ Tail(s) \in Seq(S)
           /\ \A j \in DOMAIN Tail(s) : j + 1 \in DOMAIN s /\ Tail(s)[j] = s[j + 1]
           /\ \A j \in DOMAIN s : j = 1 \/ (j - 1 \in DOMAIN Tail(s) /\ Tail(s)[j - 1] = s[j])
OBVIOUS

\* A fetched delivery goes behind the others; what a full channel overwrites gets
\* its fate.
LEMMA FetchInv ==
    ASSUME KafkaInv, NEW t \in Topics, Fetch(t)
    PROVE  KafkaInv'
<1> DEFINE n == fetched[t] + 1
           sent == Append(channel, <<t, n>>)
           full == Len(channel) = Capacity
           head == sent[1]
<1>0. /\ log \in [Topics -> Seq(LogRecords)] /\ fetched \in [Topics -> Nat]
      /\ channel \in Seq(Topics \X Nat)
  BY Zenon DEF KafkaInv, KafkaTypeOK
<1>1. /\ fetched[t] < Len(log[t]) /\ fetched' = [fetched EXCEPT ![t] = n]
      /\ UNCHANGED <<config, committed, work, dead>>
  BY <1>0, Zenon DEF Fetch
<1>2. /\ fetched' \in [Topics -> Nat] /\ fetched'[t] = n /\ n \in 1..Len(log[t])
      /\ \A u \in Topics : /\ u # t => fetched'[u] = fetched[u]
                           /\ fetched[u] <= fetched'[u] /\ fetched'[u] <= Len(log[u])
  BY <1>0, <1>1 DEF KafkaInv, InTheLog
<1>3. /\ channel' = IF full THEN Tail(sent) ELSE sent
      /\ log' = IF full THEN [log EXCEPT ![head[1]][head[2]].fate = "lagged"] ELSE log
  BY <1>2, Zenon DEF Fetch
<1>4. /\ sent \in Seq(Topics \X Nat) /\ Len(channel) \in Nat
      /\ DOMAIN sent = 1..(Len(channel) + 1) /\ DOMAIN channel = 1..Len(channel)
      /\ sent[Len(channel) + 1] = <<t, n>>
      /\ \A j \in DOMAIN channel : sent[j] = channel[j]
  <2>1. <<t, n>> \in Topics \X Nat
    BY <1>0
  <2> QED
    BY <1>0, <2>1, SentBehind, SMTT(30)
<1> HIDE DEF sent
<1>4a. /\ \A j \in DOMAIN channel : j \in DOMAIN sent
       /\ \A j \in DOMAIN sent : j \in DOMAIN channel \/ (j = Len(channel) + 1 /\ sent[j] = <<t, n>>)
  BY <1>4
<1>5. \A j \in DOMAIN sent : 1 <= sent[j][2] /\ sent[j][2] <= fetched'[sent[j][1]]
  <2> SUFFICES ASSUME NEW j \in DOMAIN sent
               PROVE  1 <= sent[j][2] /\ sent[j][2] <= fetched'[sent[j][1]]
    BY Zenon
  <2>1. CASE j \in DOMAIN channel
    <3>1. channel[j] \in Topics \X Nat
      BY <1>0, <2>1
    <3>2. 1 <= channel[j][2] /\ channel[j][2] <= fetched[channel[j][1]]
      BY <2>1, Zenon DEF KafkaInv, InTheLog
    <3>3. /\ fetched[channel[j][1]] \in Nat /\ fetched'[channel[j][1]] \in Nat
          /\ fetched[channel[j][1]] <= fetched'[channel[j][1]]
      BY <1>0, <1>2, <3>1, Zenon
    <3> QED
      BY <1>4, <2>1, <3>1, <3>2, <3>3
  <2>2. CASE sent[j] = <<t, n>>
    BY <1>2, <2>2
  <2> QED
    BY <1>4a, <2>1, <2>2, Zenon
<1>6. ASSUME NEW j \in DOMAIN sent, NEW k \in DOMAIN sent, j < k, sent[j][1] = sent[k][1]
      PROVE  sent[j][2] < sent[k][2]
  <2>1. j \in DOMAIN channel /\ sent[j] = channel[j] /\ channel[j] \in Topics \X Nat
    <3>1. j \in DOMAIN channel
      BY <1>4, <1>6
    <3> QED
      BY <1>0, <1>4, <3>1
  <2>2. CASE k \in DOMAIN channel
    <3>1. sent[k] = channel[k]
      BY <1>4, <2>2, Zenon
    <3> QED
      BY <1>6, <2>1, <2>2, <3>1, Zenon DEF KafkaInv, InOrder
  <2>3. CASE sent[k] = <<t, n>>
    <3>1. channel[j][1] = t /\ sent[k][2] = n
      BY <1>6, <2>1, <2>3
    <3>2. channel[j][2] <= fetched[t]
      BY <2>1, <3>1, Zenon DEF KafkaInv, InTheLog
    <3> QED
      BY <1>0, <2>1, <3>1, <3>2
  <2> QED
    BY <1>4a, <2>2, <2>3, Zenon
<1>7. ASSUME work # Idle, NEW j \in DOMAIN sent, sent[j][1] = work.topic
      PROVE  work.offset < sent[j][2]
  <2>0. work.topic \in Topics /\ work.offset \in Nat
    BY <1>7, WorkAtRecord, Zenon
  <2>1. CASE j \in DOMAIN channel
    BY <1>4, <1>7, <2>1, Zenon DEF KafkaInv, InOrder
  <2>2. CASE sent[j] = <<t, n>>
    <3>1. work.topic = t /\ sent[j][2] = n
      BY <1>7, <2>2
    <3>2. work.offset <= fetched[t]
      BY <1>7, <3>1, Zenon DEF KafkaInv, InTheLog
    <3> QED
      BY <1>0, <2>0, <3>1, <3>2
  <2> QED
    BY <1>4a, <2>1, <2>2, Zenon
<1>8. /\ 1 \in DOMAIN sent /\ head \in Topics \X Nat /\ head = <<head[1], head[2]>>
      /\ head[1] \in Topics /\ head[2] \in 1..Len(log[head[1]])
  <2>1. 1 \in DOMAIN sent /\ head \in Topics \X Nat
    BY <1>4
  <2>2. 1 <= head[2] /\ head[2] <= fetched'[head[1]]
    BY <1>5, <2>1, Zenon
  <2> QED
    BY <1>0, <1>2, <2>1, <2>2
<1>9. /\ channel' \in Seq(Topics \X Nat)
      /\ \/ ~full /\ channel' = sent
         \/ /\ full
            /\ \A j \in DOMAIN channel' : j + 1 \in DOMAIN sent /\ channel'[j] = sent[j + 1]
            /\ \A j \in DOMAIN sent : j = 1 \/ (j - 1 \in DOMAIN channel' /\ channel'[j - 1] = sent[j])
  <2>1. CASE full
    BY <1>3, <1>4, <1>8, <2>1, FirstGone, Zenon
  <2>2. CASE ~full
    BY <1>3, <1>4, <2>2, Zenon
  <2> QED
    BY <2>1, <2>2, Zenon
<1>10. /\ LogGrows
       /\ full => Accounted(log'[head[1]][head[2]], log'["retry"], dead', config.topics)
  <2>1. CASE full
    <3>1. FateIs(log', log, head[1], head[2], "lagged")
      BY <1>0, <1>3, <1>8, <2>1, SetFate, Zenon DEF Fates
    <3>2. Accounted(log'[head[1]][head[2]], log'["retry"], dead', config.topics)
      BY <3>1, Zenon DEF FateIs, Accounted
    <3>3. \A u \in Topics : Len(log[u]) <= Len(log[u])
      BY <1>0
    <3> QED
      BY <1>0, <1>1, <1>3, <1>8, <2>1, <3>2, <3>3, FateGrows, Zenon DEF Fates
  <2>2. CASE ~full
    BY <1>1, <1>3, <2>2, SameLog, Zenon DEF KafkaInv
  <2> QED
    BY <2>1, <2>2, Zenon
<1> HIDE DEF full
<1>11. KafkaTypeOK'
  BY <1>1, <1>2, <1>9, <1>10, Zenon DEF KafkaInv, KafkaTypeOK, LogGrows
<1>12. InTheLog'
  <2>1. \A u \in Topics : committed[u] <= fetched'[u] /\ fetched'[u] <= Len(log'[u])
    <3>1. \A u \in Topics : /\ committed[u] \in Nat /\ committed[u] <= fetched[u]
                            /\ Len(log[u]) \in Nat /\ Len(log'[u]) \in Nat
                            /\ Len(log[u]) <= Len(log'[u])
      BY <1>10 DEF KafkaInv, KafkaTypeOK, InTheLog, LogGrows
    <3>2. \A u \in Topics : fetched[u] \in Nat /\ fetched'[u] \in Nat
      BY <1>0, <1>2, Zenon
    <3>3. \A u \in Topics : fetched[u] <= fetched'[u] /\ fetched'[u] <= Len(log[u])
      BY <1>2, Zenon
    <3> HIDE DEF n
    <3> QED
      BY <3>1, <3>2, <3>3
  <2>2. \A j \in DOMAIN channel' : 1 <= channel'[j][2] /\ channel'[j][2] <= fetched'[channel'[j][1]]
    BY <1>5, <1>9, Zenon
  <2>3. work # Idle => 1 <= work.offset /\ work.offset <= fetched'[work.topic]
    <3> SUFFICES ASSUME work # Idle
                 PROVE  1 <= work.offset /\ work.offset <= fetched'[work.topic]
      BY Zenon
    <3>1. work.topic \in Topics /\ work.offset \in Nat
      BY WorkAtRecord, Zenon
    <3>2. 1 <= work.offset /\ work.offset <= fetched[work.topic]
      BY Zenon DEF KafkaInv, InTheLog
    <3>3. /\ fetched[work.topic] <= fetched'[work.topic]
          /\ fetched[work.topic] \in Nat /\ fetched'[work.topic] \in Nat
      BY <1>0, <1>2, <3>1, Zenon
    <3> QED
      BY <3>1, <3>2, <3>3
  <2> QED
    BY <1>1, <2>1, <2>2, <2>3, Zenon DEF InTheLog
<1>13. InOrder'
  <2>1. ASSUME NEW j \in DOMAIN channel', NEW k \in DOMAIN channel', j < k,
               channel'[j][1] = channel'[k][1]
        PROVE  channel'[j][2] < channel'[k][2]
    <3>1. CASE full
      <4>1. /\ j + 1 < k + 1 /\ j + 1 \in DOMAIN sent /\ k + 1 \in DOMAIN sent
            /\ channel'[j] = sent[j + 1] /\ channel'[k] = sent[k + 1]
        BY <1>9, <2>1, <3>1
      <4> QED
        BY <1>6, <2>1, <4>1, Zenon
    <3>2. CASE ~full
      BY <1>6, <1>9, <2>1, <3>2, Zenon
    <3> QED
      BY <3>1, <3>2, Zenon
  <2>2. \A j \in DOMAIN channel' : work # Idle /\ channel'[j][1] = work.topic
                                   => work.offset < channel'[j][2]
    <3>1. \A j \in DOMAIN sent : work # Idle /\ sent[j][1] = work.topic => work.offset < sent[j][2]
      BY <1>7, Zenon
    <3>2. \A j \in DOMAIN channel' : \E k \in DOMAIN sent : channel'[j] = sent[k]
      BY <1>9, Zenon
    <3> QED
      BY <3>1, <3>2, Zenon
  <2> QED
    BY <1>1, <2>1, <2>2, Zenon DEF InOrder
<1>14. ASSUME ~config.auto PROVE FetchedKept' /\ CommittedKept'
  <2>1. ASSUME NEW u \in Topics, NEW i, NEW j \in DOMAIN sent, sent[j] = <<u, i>>
        PROVE  Accounted(log'[u][i], log'["retry"], dead', config.topics) \/ Waits(u, i)'
    <3>1. CASE ~full
      BY <1>9, <2>1, <3>1, Zenon DEF Waits
    <3>2. CASE full /\ j # 1
      BY <1>9, <2>1, <3>2, Zenon DEF Waits
    <3>3. CASE full /\ j = 1
      <4>1. head[1] = u /\ head[2] = i
        BY <2>1, <3>3
      <4> QED
        BY <1>10, <3>3, <4>1, Zenon
    <3> QED
      BY <3>1, <3>2, <3>3, Zenon
  <2>2. ASSUME NEW u \in Topics, NEW i \in 1..fetched'[u]
        PROVE  \/ Accounted(log'[u][i], log'["retry"], dead', config.topics)
               \/ Waits(u, i)' \/ Handles(u, i)'
    <3>1. i \in 1..fetched[u] \/ (u = t /\ i = n)
      BY <1>0, <1>2, <2>2
    <3>2. CASE i \in 1..fetched[u]
      <4>1. CASE Waits(u, i)
        <5>1. PICK j \in DOMAIN channel : channel[j] = <<u, i>>
          BY <4>1, Zenon DEF Waits
        <5>2. j \in DOMAIN sent /\ sent[j] = <<u, i>>
          BY <1>4, <1>4a, <5>1, Zenon
        <5> QED
          BY <2>1, <5>2, Zenon
      <4>2. Handles(u, i) => Handles(u, i)'
        BY <1>1, Zenon DEF Handles
      <4> QED
        BY <1>10, <1>14, <3>2, <4>1, <4>2, FetchedStays, Zenon
    <3>3. CASE u = t /\ i = n
      <4>1. Len(channel) + 1 \in DOMAIN sent /\ sent[Len(channel) + 1] = <<u, i>>
        BY <1>4, <3>3
      <4> QED
        BY <2>1, <4>1, Zenon
    <3> QED
      BY <3>1, <3>2, <3>3, Zenon
  <2>3. FetchedKept'
    BY <1>1, <2>2, Zenon DEF FetchedKept
  <2> QED
    BY <1>1, <1>10, <1>14, <2>3, CommittedStays, Zenon
<1> QED
  BY <1>1, <1>11, <1>12, <1>13, <1>14, Zenon DEF KafkaInv

LEMMA KillInv ==
    ASSUME KafkaInv, Kill
    PROVE  KafkaInv'
<1>1. /\ fetched' = committed /\ channel' = <<>> /\ work' = Idle
      /\ UNCHANGED <<config, log, committed, dead>>
  BY Zenon DEF Kill
<1>2. KafkaTypeOK' /\ InTheLog' /\ InOrder'
  BY <1>1 DEF KafkaInv, KafkaTypeOK, InTheLog, InOrder
<1>3. ~config.auto => FetchedKept' /\ CommittedKept'
  BY <1>1, Zenon DEF KafkaInv, FetchedKept, CommittedKept
<1> QED
  BY <1>1, <1>2, <1>3, Zenon DEF KafkaInv

LEMMA KafkaStepInv == KafkaInv /\ [KafkaNext]_kafkaVars => KafkaInv'
<1> SUFFICES ASSUME KafkaInv, [KafkaNext]_kafkaVars PROVE KafkaInv'
  BY Zenon
<1>1. KafkaTypeOK
  BY Zenon DEF KafkaInv
<1>2. CASE UNCHANGED kafkaVars \/ ReceiveFails
  BY <1>1, <1>2, SameLog, NothingMoves, Zenon DEF kafkaVars, ReceiveFails
<1>3. CASE AutoCommit
  BY <1>1, <1>3, SameLog, NothingMoves, Zenon DEF AutoCommit
<1>4. ASSUME NEW next \in {"ack", "nack"}, HandlerReturns(next) PROVE KafkaInv'
  BY <1>1, <1>4, SameLog, NothingMoves, Zenon DEF HandlerReturns
<1>5. CASE Commit \/ CommitFails \/ RecoverFails
  <2>1. work # Idle
    BY <1>5 DEF Commit, CommitFails, RecoverFails, Idle
  <2> QED
    BY <1>5, <2>1, EndInv, Zenon DEF Commit, CommitFails, RecoverFails
<1>6. CASE \E t \in Topics : Fetch(t)
  BY <1>6, FetchInv, Zenon
<1> QED
  BY <1>2, <1>3, <1>4, <1>5, <1>6, PublishInv, TakeInv, RecoverInv, KillInv, Zenon
     DEF KafkaNext, SettleRecord

\* With manual acknowledgement, however many records and retries there are,
\* whatever fails and whenever the process dies, an offset is committed past a
\* record only if the record was handled, copied or given up in one of the three
\* ways that are logged (commit_with_consumer, publish_recover).
THEOREM CommitsAccounted == KafkaSpec => []CommitAccounted
<1>1. KafkaInit => KafkaInv
  BY DEF KafkaInit, KafkaInv, KafkaTypeOK, InTheLog, InOrder, FetchedKept, CommittedKept, Topics
<1>2. KafkaInv => CommitAccounted
  BY Zenon DEF KafkaInv, CommittedKept, CommitAccounted, Accounted, Copied
<1> QED
  BY <1>1, <1>2, KafkaStepInv, PTL DEF KafkaSpec

-----------------------------------------------------------------------------
(***************************************************************************)
(* Idempotency                                                             *)
(***************************************************************************)

(* The inductive invariant *)

HandlerStates ==
    [at: {"idle", "run", "complete", "fail"}, print: Prints \cup {None}, left: 0..Lease]

KeyTypeOK ==
    /\ record \in Records \cup {None}
    /\ handler \in [Handlers -> HandlerStates]
    /\ strays \in BOOLEAN

\* A record has a lease until it has a response.
LeaseOrResponse == record # None => (record.by = None <=> record.lease # None)

\* The record lasts as long as the lease of h does.
Lasts(h) ==
    /\ record # None
    /\ record.ttl # None => record.ttl >= handler[h].left
    /\ record.by = None => record.lease >= handler[h].left

\* Until a stray removes it, there is a record for as long as a handler is live.
Held == \A h \in Handlers : Live(h) /\ ~strays => Lasts(h)

\* Once a live handler has completed the record, no handler is live.
Settled ==
    record # None /\ ~strays => (record.by # None /\ ~record.late => \A h \in Handlers : ~Live(h))

KeyInv == KeyTypeOK /\ LeaseOrResponse /\ Held /\ Settled /\ OneLiveExecution

LEMMA IdleIsHandler ==
    IdleHandler \in HandlerStates /\ IdleHandler.at = "idle" /\ IdleHandler.left = 0
BY IdempotencyConstants DEF IdleHandler, HandlerStates

LEMMA KeyInitInv == IdemInit => KeyInv
<1> SUFFICES ASSUME IdemInit PROVE KeyInv
  BY Zenon
<1>1. \A h \in Handlers : handler[h] = IdleHandler
  BY Zenon DEF IdemInit
<1>2. \A h \in Handlers : ~Live(h)
  BY <1>1, IdleIsHandler, Zenon DEF Live, Running
<1>3. KeyTypeOK
  BY IdleIsHandler, Zenon DEF IdemInit, KeyTypeOK
<1> QED
  BY <1>2, <1>3, Zenon DEF KeyInv, IdemInit, LeaseOrResponse, Held, Settled, OneLiveExecution

-----------------------------------------------------------------------------
(* What the steps do *)

\* Whoever is live was so before, with the same time left.
NoneBecomesLive ==
    \A h \in Handlers : Live(h)' => Live(h) /\ handler'[h].left = handler[h].left

LEMMA GoesIdle ==
    ASSUME KeyTypeOK, NEW h \in Handlers, GoIdle(h)
    PROVE  /\ handler' \in [Handlers -> HandlerStates]
           /\ NoneBecomesLive /\ ~Live(h)'
           /\ \A g \in Handlers : g # h => handler'[g] = handler[g]
<1>1. /\ handler' \in [Handlers -> HandlerStates] /\ handler'[h] = IdleHandler
      /\ \A g \in Handlers : g # h => handler'[g] = handler[g]
  BY IdleIsHandler, Zenon DEF KeyTypeOK, GoIdle
<1> QED
  BY <1>1, IdleIsHandler, Zenon DEF NoneBecomesLive, Live, Running

LEMMA FinishEffect ==
    ASSUME KeyTypeOK, NEW h \in Handlers, NEW place \in {"complete", "fail"}, FinishRequest(h, place)
    PROVE  handler' \in [Handlers -> HandlerStates] /\ NoneBecomesLive
<1> DEFINE new == [handler[h] EXCEPT !.at = place]
<1>1. handler' = [handler EXCEPT ![h] = new] /\ handler[h].at = "run"
  BY Zenon DEF FinishRequest
<1>2. handler[h] \in HandlerStates
  BY Zenon DEF KeyTypeOK
<1>3. new \in HandlerStates /\ new.left = handler[h].left
  BY <1>2, Zenon DEF HandlerStates
<1> HIDE DEF new
<1>4. /\ handler' \in [Handlers -> HandlerStates] /\ handler'[h] = new
      /\ \A g \in Handlers : g # h => handler'[g] = handler[g]
  BY <1>1, <1>3, Zenon DEF KeyTypeOK
<1>5. Live(h)' => Live(h)
  BY <1>1, <1>3, <1>4, Zenon DEF Live, Running
<1> QED
  BY <1>3, <1>4, <1>5, Zenon DEF NoneBecomesLive, Live, Running

\* The record that an execution begins with.
LEMMA LeasedRecord ==
    ASSUME NEW print \in Prints
    PROVE  /\ Leased(print) \in Records /\ Leased(print) # None
           /\ Leased(print).by = None /\ Leased(print).lease = Lease
           /\ Leased(print).ttl \in {RecordTtl, None}
<1>1. Leased(print) \in Records
  BY IdempotencyConstants, Zenon DEF Leased, Records, Time
<1> QED
  BY <1>1, IdempotencyConstants, Zenon DEF Leased

\* An execution is granted only when no handler is live.
LEMMA ExecuteAlone ==
    ASSUME KeyInv, NEW print, Decision(print) = "execute", ~strays
    PROVE  \A h \in Handlers : ~Live(h)
<1>1. CASE record = None
  BY <1>1, Zenon DEF KeyInv, Held, Lasts
<1>2. CASE record # None
  <2>1. record \in Records
    BY <1>2, Zenon DEF KeyInv, KeyTypeOK
  <2>2. record.print = print /\ record.by = None /\ ~(record.lease > 0)
    BY <1>2, Zenon DEF Decision
  <2>3. record.lease \in Nat
    BY <1>2, <2>1, <2>2, Zenon DEF KeyInv, LeaseOrResponse, Records, Time
  <2> QED
    BY <1>2, <2>2, <2>3, IdempotencyConstants DEF KeyInv, KeyTypeOK, HandlerStates, Held, Lasts, Live
<1> QED
  BY <1>1, <1>2, Zenon

-----------------------------------------------------------------------------
(* Every step keeps the invariant *)

LEMMA QuietInv ==
    ASSUME KeyInv, handler' \in [Handlers -> HandlerStates], NoneBecomesLive,
           UNCHANGED <<record, strays>>
    PROVE  KeyInv'
<1>1. KeyTypeOK' /\ LeaseOrResponse'
  BY Zenon DEF KeyInv, KeyTypeOK, LeaseOrResponse
<1>2. Held' /\ Settled' /\ OneLiveExecution'
  BY Zenon DEF KeyInv, Held, Lasts, Settled, OneLiveExecution, NoneBecomesLive
<1> QED
  BY <1>1, <1>2, Zenon DEF KeyInv

\* Begin with an execution, and without its answer.
LEMMA ExecuteInv ==
    ASSUME RecordTtl >= Lease, KeyInv, NEW print \in Prints, Decision(print) = "execute",
           record' = Leased(print), strays' = strays,
           \/ handler' = handler
           \/ \E h \in Handlers :
                handler' = [handler EXCEPT ![h] = [at |-> "run", print |-> print, left |-> Lease]]
    PROVE  KeyInv'
<1>1. /\ record' \in Records /\ record' # None /\ record'.by = None /\ record'.lease = Lease
      /\ record'.ttl \in {RecordTtl, None}
      /\ Lease \in Nat /\ RecordTtl \in Nat
  BY LeasedRecord, IdempotencyConstants, Zenon
<1>2. handler' \in [Handlers -> HandlerStates]
  <2>1. [at |-> "run", print |-> print, left |-> Lease] \in HandlerStates
    BY <1>1 DEF HandlerStates
  <2> QED
    BY <2>1, Zenon DEF KeyInv, KeyTypeOK
<1>3. KeyTypeOK' /\ LeaseOrResponse' /\ Settled'
  BY <1>1, <1>2, NoneIsNoTime DEF KeyInv, KeyTypeOK, LeaseOrResponse, Settled
<1>4. CASE strays
  BY <1>3, <1>4, Zenon DEF KeyInv, Held, OneLiveExecution
<1>5. CASE ~strays
  <2>1. \A h \in Handlers : ~Live(h)
    BY <1>5, ExecuteAlone, Zenon
  <2>2. CASE handler' = handler
    <3>1. \A h \in Handlers : ~Live(h)'
      BY <2>1, <2>2, Zenon DEF Live, Running
    <3> QED
      BY <1>3, <3>1, Zenon DEF KeyInv, Held, OneLiveExecution
  <2>3. ASSUME NEW h \in Handlers,
               handler' = [handler EXCEPT ![h] = [at |-> "run", print |-> print, left |-> Lease]]
        PROVE  KeyInv'
    <3>1. handler'[h].left = Lease /\ \A g \in Handlers : g # h => handler'[g] = handler[g]
      BY <2>3, Zenon DEF KeyInv, KeyTypeOK
    <3>2. \A g \in Handlers : Live(g)' => g = h
      BY <2>1, <3>1, Zenon DEF Live, Running
    <3>3. Held'
      BY <1>1, <3>1, <3>2 DEF Held, Lasts
    <3>4. OneLiveExecution'
      BY <3>2, Zenon DEF OneLiveExecution
    <3> QED
      BY <1>3, <3>3, <3>4, Zenon DEF KeyInv
  <2> QED
    BY <2>2, <2>3, Zenon
<1> QED
  BY <1>4, <1>5, Zenon

\* What complete makes of the record.
LEMMA CompleteRecord ==
    ASSUME KeyTypeOK, NEW h \in Handlers, Complete(h), record' # record
    PROVE  /\ record # None /\ record' \in Records /\ record' # None
           /\ record'.by = h /\ record'.late = ~Live(h) /\ record'.lease = None
           /\ record'.ttl \in {RecordTtl, None}
<1> DEFINE late == ~Live(h)
           ttl  == IF store = "redis" THEN RecordTtl ELSE None
           new  == [record EXCEPT !.by = h, !.late = late, !.lease = None, !.ttl = ttl]
<1>1. record \in Records /\ record # None /\ record' = new
  BY Zenon DEF KeyTypeOK, Complete
<1>2. late \in BOOLEAN /\ ttl \in Time /\ None \in Time /\ ttl \in {RecordTtl, None}
  BY IdempotencyConstants, Zenon DEF Time
<1> HIDE DEF late, ttl
<1>3. new \in Records
  BY <1>1, <1>2, Zenon DEF Records
<1>4. new.by = h /\ new.late = late /\ new.lease = None /\ new.ttl = ttl
  BY <1>1, Zenon DEF Records
<1> HIDE DEF new
<1>5. record' # None
  BY <1>1, <1>3, IdempotencyConstants, Zenon
<1> QED
  BY <1>1, <1>2, <1>3, <1>4, <1>5, Zenon DEF late

LEMMA CompleteInv ==
    ASSUME RecordTtl >= Lease, KeyInv, NEW h \in Handlers, Complete(h)
    PROVE  KeyInv'
<1>1. /\ handler' \in [Handlers -> HandlerStates] /\ NoneBecomesLive /\ ~Live(h)'
      /\ strays' = strays
  BY GoesIdle, Zenon DEF KeyInv, Complete
<1>2. CASE record' = record
  BY <1>1, <1>2, QuietInv, Zenon
<1>3. CASE record' # record
  <2>1. /\ record # None /\ record' \in Records /\ record' # None
        /\ record'.by = h /\ record'.late = ~Live(h) /\ record'.lease = None
        /\ record'.ttl \in {RecordTtl, None}
        /\ h # None /\ Lease \in Nat /\ RecordTtl \in Nat
    BY <1>3, CompleteRecord, IdempotencyConstants, Zenon DEF KeyInv
  <2>2. KeyTypeOK' /\ LeaseOrResponse'
    BY <1>1, <2>1, Zenon DEF KeyInv, KeyTypeOK, LeaseOrResponse
  <2>3. Held'
    BY <1>1, <2>1 DEF KeyInv, KeyTypeOK, HandlerStates, Held, Lasts, NoneBecomesLive
  <2>4. OneLiveExecution'
    BY <1>1, Zenon DEF KeyInv, OneLiveExecution, NoneBecomesLive
  <2>5. Settled'
    BY <1>1, <2>1, Zenon DEF KeyInv, OneLiveExecution, Settled, NoneBecomesLive
  <2> QED
    BY <2>2, <2>3, <2>4, <2>5, Zenon DEF KeyInv
<1> QED
  BY <1>2, <1>3, Zenon

LEMMA FailInv ==
    ASSUME KeyInv, NEW h \in Handlers, Fail(h)
    PROVE  KeyInv'
<1>1. /\ handler' \in [Handlers -> HandlerStates] /\ NoneBecomesLive /\ ~Live(h)'
  BY GoesIdle, Zenon DEF KeyInv, Fail
<1>2. \/ record' = record /\ (strays' <=> strays)
      \/ record' = None /\ (strays' <=> strays \/ ~Live(h))
  BY Zenon DEF Fail
<1>3. strays' \in BOOLEAN
  BY Zenon DEF Fail, KeyInv, KeyTypeOK
<1>4. CASE record' = record /\ (strays' <=> strays)
  <2>1. strays' = strays
    BY <1>3, <1>4, Zenon DEF KeyInv, KeyTypeOK
  <2> QED
    BY <1>1, <1>4, <2>1, QuietInv, Zenon
<1>5. CASE record' = None /\ (strays' <=> strays \/ ~Live(h))
  <2>1. KeyTypeOK' /\ LeaseOrResponse' /\ Settled'
    BY <1>1, <1>3, <1>5, Zenon DEF KeyTypeOK, LeaseOrResponse, Settled
  <2>2. ~strays' => \A g \in Handlers : ~Live(g)'
    BY <1>1, <1>5, Zenon DEF KeyInv, OneLiveExecution, NoneBecomesLive
  <2> QED
    BY <2>1, <2>2, Zenon DEF KeyInv, Held, OneLiveExecution
<1> QED
  BY <1>2, <1>4, <1>5, Zenon

\* Time passes for the record and for the handlers alike.
LEMMA TickEffect ==
    ASSUME KeyTypeOK, IdemTick
    PROVE  /\ handler' \in [Handlers -> HandlerStates]
           /\ \A h \in Handlers : /\ handler'[h].at = handler[h].at
                                  /\ handler'[h].left = CountDown(handler[h].left)
           /\ \/ record' = None /\ (record = None \/ record.ttl = 1)
              \/ /\ record # None /\ record.ttl # 1 /\ record' \in Records
                 /\ record'.by = record.by /\ record'.late = record.late
                 /\ record'.lease = CountDown(record.lease)
                 /\ record'.ttl = CountDown(record.ttl)
<1>1. ASSUME NEW h \in Handlers
      PROVE  /\ handler'[h] \in HandlerStates /\ handler'[h].at = handler[h].at
             /\ handler'[h].left = CountDown(handler[h].left)
  <2>1. handler[h] \in HandlerStates /\ CountDown(handler[h].left) \in 0..Lease
    BY NoneIsNoTime, IdempotencyConstants DEF KeyTypeOK, HandlerStates, CountDown
  <2>2. handler'[h] = [handler[h] EXCEPT !.left = CountDown(handler[h].left)]
    BY Zenon DEF IdemTick
  <2> QED
    BY <2>1, <2>2, Zenon DEF HandlerStates
<1>2. handler' = [h \in Handlers |-> handler'[h]]
  BY Zenon DEF IdemTick
<1>3. handler' \in [Handlers -> HandlerStates]
  BY <1>1, <1>2, Zenon
<1>4. CASE record = None \/ record.ttl = 1
  BY <1>1, <1>3, <1>4, Zenon DEF IdemTick
<1>5. CASE record # None /\ record.ttl # 1
  <2> DEFINE lease == CountDown(record.lease)
             ttl   == CountDown(record.ttl)
             new   == [record EXCEPT !.lease = lease, !.ttl = ttl]
  <2>1. record \in Records /\ lease \in Time /\ ttl \in Time
    BY <1>5, NoneIsNoTime DEF KeyTypeOK, Records, CountDown, Time
  <2>2. record' = new
    BY <1>5, <2>1, Zenon DEF IdemTick, Records
  <2> HIDE DEF lease, ttl
  <2>3. new \in Records
    BY <2>1, Zenon DEF Records
  <2>4. new.by = record.by /\ new.late = record.late /\ new.lease = lease /\ new.ttl = ttl
    BY <2>1, Zenon DEF Records
  <2> QED
    BY <1>1, <1>3, <1>5, <2>2, <2>3, <2>4, Zenon DEF lease, ttl
<1> QED
  BY <1>4, <1>5, Zenon

LEMMA KeyTickInv == ASSUME KeyInv, IdemTick PROVE KeyInv'
<1>1. /\ handler' \in [Handlers -> HandlerStates] /\ strays' = strays
      /\ \A h \in Handlers : /\ handler'[h].at = handler[h].at
                             /\ handler'[h].left = CountDown(handler[h].left)
      /\ \A h \in Handlers : handler[h].left \in Nat
  BY TickEffect, IdempotencyConstants DEF KeyInv, KeyTypeOK, HandlerStates, IdemTick
<1>2. \A h \in Handlers : Live(h)' => Live(h) /\ handler[h].left > 1
                                      /\ handler'[h].left = handler[h].left - 1
  BY <1>1, NoneIsNoTime DEF Live, Running, CountDown
<1>3. OneLiveExecution'
  BY <1>1, <1>2, Zenon DEF KeyInv, OneLiveExecution
<1>4. CASE record' = None /\ (record = None \/ record.ttl = 1)
  <2>1. ~strays => \A h \in Handlers : ~Live(h)'
    BY <1>1, <1>2, <1>4, NoneIsNoTime DEF KeyInv, Held, Lasts
  <2> QED
    BY <1>1, <1>3, <1>4, <2>1, Zenon DEF KeyInv, KeyTypeOK, LeaseOrResponse, Held, Settled
<1>5. CASE /\ record # None /\ record.ttl # 1 /\ record' \in Records
           /\ record'.by = record.by /\ record'.late = record.late
           /\ record'.lease = CountDown(record.lease)
           /\ record'.ttl = CountDown(record.ttl)
  <2>1. record' # None /\ record \in Records /\ record.lease \in Time /\ record.ttl \in Time
    BY <1>5, IdempotencyConstants, Zenon DEF KeyInv, KeyTypeOK, Records
  <2>2. KeyTypeOK'
    BY <1>1, <1>5, Zenon DEF KeyInv, KeyTypeOK
  <2>3. LeaseOrResponse'
    BY <1>5, <2>1, NoneIsNoTime DEF KeyInv, LeaseOrResponse, CountDown, Time
  <2>4. Settled'
    BY <1>1, <1>2, <1>5, Zenon DEF KeyInv, Settled
  <2>5. Held'
    <3> SUFFICES ASSUME NEW h \in Handlers, Live(h)', ~strays' PROVE Lasts(h)'
      BY Zenon DEF Held
    <3>1. Lasts(h) /\ handler[h].left > 1 /\ handler'[h].left = handler[h].left - 1
      BY <1>1, <1>2, Zenon DEF KeyInv, Held
    <3>2. record'.ttl # None => record'.ttl >= handler'[h].left
      BY <1>1, <1>5, <2>1, <3>1, NoneIsNoTime DEF Lasts, CountDown, Time
    <3>3. record'.by = None => record'.lease >= handler'[h].left
      <4>1. SUFFICES ASSUME record'.by = None PROVE record'.lease >= handler'[h].left
        BY Zenon
      <4>2. record.lease \in Nat /\ record.lease >= handler[h].left
        BY <1>5, <2>1, <3>1, <4>1, Zenon DEF KeyInv, LeaseOrResponse, Lasts, Time
      <4> QED
        BY <1>1, <1>5, <3>1, <4>2, NoneIsNoTime DEF CountDown
    <3> QED
      BY <2>1, <3>2, <3>3, Zenon DEF Lasts
  <2> QED
    BY <1>3, <2>2, <2>3, <2>4, <2>5, Zenon DEF KeyInv
<1> QED
  BY <1>4, <1>5, TickEffect, Zenon DEF KeyInv

-----------------------------------------------------------------------------
(* The theorems *)

LEMMA KeyInvPreserved == ASSUME RecordTtl >= Lease PROVE KeyInv /\ [IdemNext]_idemVars => KeyInv'
<1> SUFFICES ASSUME KeyInv, [IdemNext]_idemVars PROVE KeyInv'
  BY Zenon
<1>1. CASE UNCHANGED <<record, handler, strays>>
  BY <1>1, QuietInv, Zenon DEF KeyInv, KeyTypeOK, NoneBecomesLive, Live, Running
<1>2. CASE IdemTick
  BY <1>2, KeyTickInv, Zenon
<1>3. ASSUME NEW h \in Handlers, NEW print \in Prints, Begin(h, print) \/ BeginAnswerLost(h, print)
      PROVE  KeyInv'
  <2>1. CASE Decision(print) = "execute"
    BY <1>3, <2>1, ExecuteInv, Zenon DEF Begin, BeginAnswerLost
  <2>2. CASE Decision(print) # "execute"
    BY <1>1, <1>3, <2>2, Zenon DEF Begin, BeginAnswerLost
  <2> QED
    BY <2>1, <2>2, Zenon
<1>4. ASSUME NEW h \in Handlers, NEW place \in {"complete", "fail"}, FinishRequest(h, place)
      PROVE  KeyInv'
  <2>1. UNCHANGED <<record, strays>>
    BY <1>4, Zenon DEF FinishRequest
  <2> QED
    BY <1>4, <2>1, FinishEffect, QuietInv, Zenon DEF KeyInv
<1>5. ASSUME NEW h \in Handlers, Abandon(h) \/ SettleLost(h)
      PROVE  KeyInv'
  <2>1. GoIdle(h) /\ UNCHANGED <<record, strays>>
    BY <1>5, Zenon DEF Abandon, SettleLost
  <2> QED
    BY <2>1, GoesIdle, QuietInv, Zenon DEF KeyInv
<1>6. ASSUME NEW h \in Handlers, Complete(h) \/ Fail(h)
      PROVE  KeyInv'
  BY <1>6, CompleteInv, FailInv, Zenon
<1>7. CASE UNCHANGED idemVars
  BY <1>1, <1>7, Zenon DEF idemVars
<1> QED
  BY <1>2, <1>3, <1>4, <1>5, <1>6, <1>7, Zenon DEF IdemNext

\* At most one request with a key runs inside its lease until a stray fails, for
\* any number of requests, when a record of the store lives at least as long as a
\* lease (begin, complete, fail).
THEOREM OneExecution ==
    ASSUME RecordTtl >= Lease
    PROVE  IdemSpec => []OneLiveExecution
<1>1. KeyInv => OneLiveExecution
  BY Zenon DEF KeyInv
<1>2. KeyInv /\ [IdemNext]_idemVars => KeyInv'
  BY KeyInvPreserved, Zenon
<1> QED
  BY <1>1, <1>2, KeyInitInv, PTL DEF IdemSpec

\* A response that may have been replayed is replaced only by, or after, a request
\* that had outlived its lease (begin, complete).
THEOREM ReplaysAlwaysAgree ==
    ASSUME RecordTtl >= Lease
    PROVE  IdemSpec => ReplaysAgree
<1>1. KeyInv /\ [IdemNext]_idemVars
      => [record # None /\ record' # None /\ record.by # None /\ record'.by # record.by
            => record.late \/ record'.late \/ strays]_idemVars
  <2> SUFFICES ASSUME KeyInv, IdemNext, record # None, record' # None, record.by # None,
                      record'.by # record.by, ~record.late, ~strays
               PROVE  record'.late
    BY Zenon DEF idemVars
  <2>1. \A h \in Handlers : ~Live(h)
    BY Zenon DEF KeyInv, Settled
  <2>2. ASSUME NEW h \in Handlers, Complete(h) PROVE record'.late
    <3>1. record' # record /\ KeyTypeOK
      BY Zenon DEF KeyInv
    <3>2. record'.late = ~Live(h)
      BY <2>2, <3>1, CompleteRecord, Zenon
    <3> QED
      BY <2>1, <3>2, Zenon
  <2>3. ASSUME NEW print, Decision(print) = "execute" PROVE FALSE
    BY <2>3, Zenon DEF Decision
  <2>4. ~IdemTick
    BY TickEffect, Zenon DEF KeyInv
  <2>5. \A h \in Handlers, print \in Prints : ~Begin(h, print) /\ ~BeginAnswerLost(h, print)
    BY <2>3, Zenon DEF Begin, BeginAnswerLost
  <2>6. \A h \in Handlers, place \in {"complete", "fail"} :
          ~FinishRequest(h, place) /\ ~Abandon(h) /\ ~Fail(h) /\ ~SettleLost(h)
    BY Zenon DEF FinishRequest, Abandon, Fail, SettleLost
  <2> QED
    BY <2>2, <2>4, <2>5, <2>6, Zenon DEF IdemNext
<1>2. KeyInv /\ [IdemNext]_idemVars => KeyInv'
  BY KeyInvPreserved, Zenon
<1> QED
  BY <1>1, <1>2, KeyInitInv, PTL DEF IdemSpec, ReplaysAgree

-----------------------------------------------------------------------------
(***************************************************************************)
(* ConfigCenter                                                            *)
(***************************************************************************)

(* Listeners of the configuration center: a call that has not outlived its  *)
(* timeout is the one that the loop waits for.                              *)

ListenerCalls == [kind : Kinds, round : Nat, late : BOOLEAN]

ListenersTypeOK ==
    /\ round \in Nat /\ heard \in [Kinds -> Nat]
    /\ threads \subseteq ListenerCalls
    /\ loopAt \in Kinds \cup {"wait"}

OnlyAwaited ==
    /\ \A k \in Kinds : heard[k] <= round
    /\ \A t \in threads : /\ t.round <= round
                          /\ ~t.late => t.round = round /\ t.kind = loopAt

ListenersInv == ListenersTypeOK /\ OnlyAwaited

LEMMA ListenersInit == CenterInit => ListenersInv
BY DEF CenterInit, ListenersInv, ListenersTypeOK, OnlyAwaited, Kinds

\* A reload starts while the loop waits for nobody.
LEMMA StartNotifyingInv ==
    ASSUME ListenersInv, loopAt = "wait", NEW kind \in Kinds, StartNotifying(kind)
    PROVE  ListenersInv' /\ heard' = heard
<1> DEFINE new == [kind |-> kind, round |-> round + 1, late |-> FALSE]
<1>1. /\ loopAt' = kind /\ threads' = threads \cup {new}
      /\ round' = round + 1 /\ heard' = heard
  BY Zenon DEF StartNotifying, Notify
<1>2. round \in Nat /\ round' \in Nat /\ round <= round'
  BY <1>1 DEF ListenersInv, ListenersTypeOK
<1>3. new \in ListenerCalls /\ new.round = round' /\ new.kind = loopAt'
  BY <1>1, <1>2, Zenon DEF ListenerCalls
<1> HIDE DEF new
<1>4. ListenersTypeOK'
  BY <1>1, <1>2, <1>3, Zenon DEF ListenersInv, ListenersTypeOK
<1>5. \A t \in threads : t.late /\ t.round <= round'
  <2>1. \A t \in threads : t.round \in Nat /\ t.round <= round /\ t.late \in BOOLEAN
                           /\ t.kind # "wait"
    BY Zenon DEF ListenersInv, ListenersTypeOK, OnlyAwaited, ListenerCalls, Kinds
  <2> QED
    BY <1>2, <2>1 DEF ListenersInv, OnlyAwaited
<1>6. \A k \in Kinds : heard'[k] <= round'
  BY <1>1, <1>2 DEF ListenersInv, ListenersTypeOK, OnlyAwaited
<1>7. new.round <= round'
  BY <1>2, <1>3
<1>8. OnlyAwaited'
  BY <1>1, <1>3, <1>5, <1>6, <1>7, Zenon DEF OnlyAwaited
<1> QED
  BY <1>1, <1>4, <1>8, Zenon DEF ListenersInv

LEMMA LookInv ==
    ASSUME ListenersInv, loopAt = "wait", NEW text, Look(text)
    PROVE  ListenersInv' /\ heard' = heard
<1>1. \/ UNCHANGED waitVars
      \/ \E kind \in Kinds : StartNotifying(kind)
  BY Zenon DEF Look, Reload, Kinds
<1>2. CASE UNCHANGED waitVars
  BY <1>2, Zenon DEF waitVars, ListenersInv, ListenersTypeOK, OnlyAwaited
<1> QED
  BY <1>1, <1>2, StartNotifyingInv, Zenon

\* The loop goes on when its call is done, or is late from now on.
LEMMA LoopGoesOnInv ==
    ASSUME ListenersInv, ListenerDone \/ ListenerTimesOut
    PROVE  ListenersInv' /\ heard' = heard
<1> DEFINE own  == Call(loopAt, FALSE)
           late == Call(loopAt, TRUE)
           new  == Call("reload", FALSE)
<1>1. /\ loopAt \in Kinds /\ round \in Nat /\ round' = round /\ heard' = heard
      /\ loopAt' = IF loopAt = "config" THEN "reload" ELSE "wait"
  <2>1. loopAt # "wait" /\ NextWait /\ round' = round /\ heard' = heard
    BY Zenon DEF ListenerDone, ListenerTimesOut
  <2>2. loopAt \in Kinds /\ round \in Nat
    BY <2>1, Zenon DEF ListenersInv, ListenersTypeOK
  <2>3. loopAt' = IF loopAt = "config" THEN "reload" ELSE "wait"
    BY <2>1, Zenon DEF NextWait
  <2> QED
    BY <2>1, <2>2, <2>3, Zenon
<1>2. /\ late \in ListenerCalls /\ late.late /\ late.round = round
      /\ new \in ListenerCalls /\ new.kind = "reload" /\ new.round = round
  BY <1>1, Zenon DEF ListenerCalls, Call, Kinds
<1>3. threads' \subseteq (threads \ {own}) \cup {late} \cup ReloadCall
  BY Zenon DEF ListenerDone, ListenerTimesOut
<1>4. \A t \in threads : t # own => t.late
  <2>1. SUFFICES ASSUME NEW t \in threads, ~t.late PROVE t = own
    BY Zenon
  <2>2. t \in ListenerCalls /\ t.round = round /\ t.kind = loopAt
    BY <2>1, Zenon DEF ListenersInv, ListenersTypeOK, OnlyAwaited
  <2> QED
    BY <2>1, <2>2, Zenon DEF ListenerCalls, Call
<1>5. \A t \in ReloadCall : loopAt = "config" /\ t = new
  BY Zenon DEF ReloadCall
<1> HIDE DEF own, late, new
<1>6. ListenersTypeOK'
  <2>1. threads' \subseteq ListenerCalls
    BY <1>2, <1>3, <1>5, Zenon DEF ListenersInv, ListenersTypeOK
  <2>2. loopAt' \in Kinds \cup {"wait"}
    BY <1>1, Zenon DEF Kinds
  <2> QED
    BY <1>1, <2>1, <2>2, Zenon DEF ListenersInv, ListenersTypeOK
<1>7. \A t \in threads' : /\ t.round <= round
                          /\ ~t.late => t.round = round /\ t.kind = loopAt'
  <2>1. SUFFICES ASSUME NEW t \in threads'
                 PROVE  /\ t.round <= round
                        /\ ~t.late => t.round = round /\ t.kind = loopAt'
    BY Zenon
  <2>2. CASE t \in threads \ {own}
    BY <1>4, <2>2, Zenon DEF ListenersInv, OnlyAwaited
  <2>3. CASE t = late
    BY <1>1, <1>2, <2>3
  <2>4. CASE t \in ReloadCall
    BY <1>1, <1>2, <1>5, <2>4
  <2> QED
    BY <1>3, <2>2, <2>3, <2>4, Zenon
<1>8. OnlyAwaited'
  BY <1>1, <1>7, Zenon DEF OnlyAwaited, ListenersInv
<1> QED
  BY <1>1, <1>6, <1>8, Zenon DEF ListenersInv

\* An older reload comes after a newer one only from a late call.
HeardInOrder ==
    \A k \in Kinds : heard'[k] < heard[k]
      => [kind |-> k, round |-> heard'[k], late |-> TRUE] \in threads

LEMMA ListenInv ==
    ASSUME ListenersInv, NEW t \in threads, Listen(t)
    PROVE  ListenersInv' /\ HeardInOrder
<1>1. /\ loopAt' = loopAt /\ round' = round /\ threads' = threads \ {t}
      /\ heard' = heard \/ heard' = [heard EXCEPT ![t.kind] = t.round]
  BY Zenon DEF Listen
<1>2. /\ t = [kind |-> t.kind, round |-> t.round, late |-> t.late]
      /\ t.kind \in Kinds /\ t.round \in Nat /\ t.late \in BOOLEAN
      /\ t.round <= round /\ (~t.late => t.round = round)
  BY Zenon DEF ListenersInv, ListenersTypeOK, OnlyAwaited, ListenerCalls
<1>3. /\ heard' \in [Kinds -> Nat]
      /\ \A k \in Kinds : heard'[k] = heard[k] \/ (k = t.kind /\ heard'[k] = t.round)
  <2>1. heard \in [Kinds -> Nat] /\ t.kind \in Kinds /\ t.round \in Nat
    BY <1>2, Zenon DEF ListenersInv, ListenersTypeOK
  <2> QED
    BY <1>1, <2>1, Zenon
<1>4. ListenersTypeOK'
  BY <1>1, <1>3, Zenon DEF ListenersInv, ListenersTypeOK
<1>5. OnlyAwaited'
  BY <1>1, <1>2, <1>3, Zenon DEF ListenersInv, OnlyAwaited
<1>6. HeardInOrder
  <2>1. SUFFICES ASSUME NEW k \in Kinds, heard'[k] < heard[k]
                 PROVE  [kind |-> k, round |-> heard'[k], late |-> TRUE] \in threads
    BY Zenon DEF HeardInOrder
  <2>2. heard[k] \in Nat /\ heard[k] <= round /\ round \in Nat
    BY Zenon DEF ListenersInv, ListenersTypeOK, OnlyAwaited
  <2>3. k = t.kind /\ heard'[k] = t.round
    BY <1>3, <2>1, <2>2
  <2>4. t.late = TRUE
    BY <1>2, <2>1, <2>2, <2>3
  <2> QED
    BY <1>2, <2>3, <2>4, Zenon
<1> QED
  BY <1>4, <1>5, <1>6, Zenon DEF ListenersInv

LEMMA ListenersStep ==
    ASSUME ListenersInv, [CenterNext]_centerVars
    PROVE  ListenersInv' /\ HeardInOrder
<1>1. ASSUME heard' = heard PROVE HeardInOrder
  BY <1>1 DEF HeardInOrder, ListenersInv, ListenersTypeOK
<1>2. CASE UNCHANGED <<loopAt, round, threads, heard>>
  BY <1>1, <1>2, Zenon DEF ListenersInv, ListenersTypeOK, OnlyAwaited
<1>3. CASE CenterTick \/ Connect \/ Disconnect \/ Event \/ PollFails \/ \E text \in Texts : Put(text)
  BY <1>2, <1>3, Zenon DEF CenterTick, Connect, Disconnect, Event, PollFails, Put, waitVars
<1>4. CASE Receive \/ PollReads
  BY <1>1, <1>4, LookInv, Zenon DEF Receive, PollReads
<1>5. CASE ListenerDone \/ ListenerTimesOut
  BY <1>1, <1>5, LoopGoesOnInv, Zenon
<1>6. CASE \E t \in threads : Listen(t)
  BY <1>6, ListenInv, Zenon
<1>7. CASE UNCHANGED centerVars
  BY <1>2, <1>7, Zenon DEF centerVars, waitVars
<1> QED
  BY <1>3, <1>4, <1>5, <1>6, <1>7, Zenon DEF CenterNext

\* A listener of the configuration center acts on an older reload after a newer
\* one only by a call that outlived its timeout, for every source, interval,
\* debounce and timeout (notify_config_listeners, notify_reload_listeners).
THEOREM ListenersAlwaysInOrder == CenterSpec => ListenersInOrder
<1>1. ListenersInv /\ [CenterNext]_centerVars => ListenersInv'
  BY ListenersStep, Zenon
<1>2. ListenersInv /\ [CenterNext]_centerVars
      => [\A k \in Kinds : heard'[k] < heard[k]
            => [kind |-> k, round |-> heard'[k], late |-> TRUE] \in threads]_centerVars
  BY ListenersStep, Zenon DEF HeardInOrder
<1> QED
  BY <1>1, <1>2, ListenersInit, PTL DEF CenterSpec, ListenersInOrder

=============================================================================
