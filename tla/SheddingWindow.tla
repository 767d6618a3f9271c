--------------------------- MODULE SheddingWindow ---------------------------
(***************************************************************************)
(* The rolling window of one shedder against the log of the samples that   *)
(* were recorded: what the buckets add up to is what the recent past holds. *)
(***************************************************************************)
EXTENDS Shedding, FiniteSets

CONSTANTS LogBound, LatencyBound  \* bounds: samples remembered, latency of a sample

VARIABLES
    shedder,  \* SheddingState of the key
    held,     \* slots that callers hold
    log       \* the samples recorded, oldest first, with their ages

vars == <<shedder, held, log>>

Init == shedder = EmptyShedder /\ held = 0 /\ log = <<>>

Allow ==
    /\ shedder' = SheddingAllow(shedder)
    /\ held' = IF SheddingAllows(shedder) THEN held + 1 ELSE held
    /\ UNCHANGED log

Record(success, latency) ==
    /\ held > 0 /\ Len(log) < LogBound
    /\ shedder' = SheddingRecord(shedder, success, latency)
    /\ held' = held - 1
    /\ log' = Append(log, [age |-> 0, failed |-> ~success, latency |-> latency])

Release ==
    /\ held > 0
    /\ shedder' = SheddingRelease(shedder)
    /\ held' = held - 1
    /\ UNCHANGED log

\* A sample that has left the window is forgotten.
Tick ==
    /\ shedder' = SheddingTick(shedder)
    /\ log' = SelectSeq([i \in DOMAIN log |-> [log[i] EXCEPT !.age = @ + 1]],
                        LAMBDA sample : sample.age < EffectiveWindow)
    /\ UNCHANGED held

Next ==
    \/ Allow \/ Release \/ Tick
    \/ \E success \in BOOLEAN, latency \in 0..LatencyBound : Record(success, latency)

Spec == Init /\ [][Next]_vars

-----------------------------------------------------------------------------
Logged(P(_)) == Cardinality({i \in DOMAIN log : P(log[i])})

\* The window holds no sample older than itself, and misses none that is
\* younger than all of its buckets but one: buckets are dropped whole, by their
\* start and by their number, and neither loses the recent past
\* (prune_shedding_buckets, record_shedding_sample).
WindowIsRecent ==
    LET window == Prune(shedder.buckets)
        surely == (BucketCount - 1) * BucketDuration
        Seen(field, P(_)) ==
            /\ Total(window, field) <= Logged(P)
            /\ Total(window, field) >= Logged(LAMBDA sample : P(sample) /\ sample.age <= surely)
    IN  /\ Seen("samples", LAMBDA sample : TRUE)
        /\ Seen("failures", LAMBDA sample : sample.failed)

=============================================================================
