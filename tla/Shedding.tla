------------------------------ MODULE Shedding ------------------------------
(***************************************************************************)
(* SheddingRegistry of roze-resilience, for one operation key: a limit on  *)
(* the requests in flight and a rolling window of buckets.  A bucket keeps *)
(* the time since it was started, up to the window: older ones are alike.  *)
(***************************************************************************)
EXTENDS Clock, Sequences, Functions

CONSTANTS
    Concurrency,      \* SheddingConfig::concurrency
    Window,           \* SheddingConfig::window, in ticks
    BucketCount,      \* SHEDDING_BUCKETS
    MinSamples,       \* SheddingConfig::min_samples
    MaxAvgLatency,    \* SheddingConfig::max_avg_latency
    MaxFailureRatio,  \* SheddingConfig::max_failure_ratio_per_mille
    CoolDown          \* SheddingConfig::cool_down

ASSUME SheddingConstants ==
    /\ {Concurrency, Window, MinSamples, MaxAvgLatency, MaxFailureRatio, CoolDown} \subseteq Nat
    /\ BucketCount \in Nat \ {0}

EmptyShedder == [inFlight |-> 0, buckets |-> <<>>, openUntil |-> None]

BucketDuration == AtLeastOne(Window \div BucketCount)

EffectiveWindow == IF Window > BucketDuration THEN Window ELSE BucketDuration

LastOf(s, n) == IF Len(s) > n THEN SubSeq(s, Len(s) - n + 1, Len(s)) ELSE s

\* prune_shedding_buckets: while the front bucket is old, pop it.
Prune(buckets) ==
    LET young == {i \in DOMAIN buckets : buckets[i].age < EffectiveWindow}
    IN  IF young = {} THEN <<>>
        ELSE SubSeq(buckets, CHOOSE i \in young : \A j \in young : i <= j, Len(buckets))

\* Mutant: a sample goes to the last bucket however old it is.
RecordSampleLastBucket(buckets, success, latency) ==
    LET last   == Len(buckets)
        failed == IF success THEN 0 ELSE 1
    IN  IF buckets # <<>> THEN [buckets EXCEPT ![last].samples = @ + 1]
        ELSE <<[age |-> 0, samples |-> 1, failures |-> failed, latency |-> latency]>>

RecordSample(buckets, success, latency) ==
    LET kept   == Prune(buckets)
        last   == Len(kept)
        failed == IF success THEN 0 ELSE 1
    IN  IF kept # <<>> /\ kept[last].age < BucketDuration
        THEN [kept EXCEPT ![last].samples = @ + 1, ![last].failures = @ + failed,
                          ![last].latency = @ + latency]
        ELSE LastOf(Append(kept, [age |-> 0, samples |-> 1, failures |-> failed,
                                  latency |-> latency]), BucketCount)

Total(buckets, field) == FoldFunction(LAMBDA bucket, sum : bucket[field] + sum, 0, buckets)

ShouldShed(buckets) ==
    LET samples == Total(buckets, "samples")
    IN  /\ samples >= AtLeastOne(MinSamples)
        /\ \/ Total(buckets, "latency") \div samples > MaxAvgLatency
           \/ (Total(buckets, "failures") * 1000) \div samples > MaxFailureRatio

SheddingAllows(s) == Reached(s.openUntil) /\ s.inFlight < AtLeastOne(Concurrency)

SheddingAllow(s) ==
    [inFlight  |-> IF SheddingAllows(s) THEN s.inFlight + 1 ELSE s.inFlight,
     buckets   |-> Prune(s.buckets),
     openUntil |-> IF Reached(s.openUntil) THEN None ELSE s.openUntil]

SheddingRecord(s, success, latency) ==
    LET buckets == RecordSample(s.buckets, success, latency)
    IN  [inFlight  |-> OneFewer(s.inFlight),
         buckets   |-> buckets,
         openUntil |-> IF ShouldShed(buckets) THEN CoolDown ELSE s.openUntil]

\* Mutant: a dropped guard keeps its slot.
SheddingReleaseForgotten(s) == s

SheddingRelease(s) == [s EXCEPT !.inFlight = OneFewer(@)]

\* A tick ages every bucket that still counts.
SheddingTick(s) ==
    LET Aged(bucket) == IF bucket.age < EffectiveWindow THEN [bucket EXCEPT !.age = @ + 1]
                        ELSE bucket
    IN  [inFlight  |-> s.inFlight,
         buckets   |-> [i \in DOMAIN s.buckets |-> Aged(s.buckets[i])],
         openUntil |-> CountDown(s.openUntil)]

=============================================================================
