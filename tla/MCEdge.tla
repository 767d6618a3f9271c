------------------------------- MODULE MCEdge -------------------------------
(***************************************************************************)
(* The components that stand where requests come in, in one run: the       *)
(* upstream side of the gateway, the window of a shedder, idempotency      *)
(* keys, and the calls of an RPC that requests lead to.  Each behaviour is *)
(* one of theirs, chosen in the first state, and leaves the others where   *)
(* they began.                                                             *)
(***************************************************************************)
EXTENDS GatewayUpstream, Idempotency, RpcCall, TLC

VARIABLES
    part,  \* the component whose behaviour it is
    shedder, held, log

windowVars == <<shedder, held, log>>
edgeVars   == <<part, upstreamVars, windowVars, idemVars, vars>>

Rolling == INSTANCE SheddingWindow WITH
    Concurrency <- 1, Window <- 7, BucketCount <- 3, MinSamples <- 2, MaxAvgLatency <- 1,
    MaxFailureRatio <- 500, CoolDown <- 2, LogBound <- 4, LatencyBound <- 2

-----------------------------------------------------------------------------
InitEdge ==
    /\ part \in {"upstream", "window", "key", "rpc"}
    /\ UpstreamInit /\ (part # "upstream" => limit = 1)
    /\ Rolling!Init
    /\ IdemInit /\ (part # "key" => store = "memory")
    /\ Init /\ (part # "rpc" => \A r \in Requests : ctx[r].budget = None)

UpstreamStep ==
    /\ part = "upstream" /\ UpstreamNext
    /\ UNCHANGED <<part, windowVars, idemVars, vars>>

WindowStep ==
    /\ part = "window" /\ Rolling!Next
    /\ UNCHANGED <<part, upstreamVars, idemVars, vars>>

KeyStep ==
    /\ part = "key" /\ IdemNext
    /\ UNCHANGED <<part, upstreamVars, windowVars, vars>>

RpcStep ==
    /\ part = "rpc" /\ Next
    /\ UNCHANGED <<part, upstreamVars, windowVars, idemVars>>

NextEdge == UpstreamStep \/ WindowStep \/ KeyStep \/ RpcStep

SpecEdge == InitEdge /\ [][NextEdge]_edgeVars

Symmetry == Permutations(Instances) \cup Permutations(Exchanges) \cup Permutations(Lanes)

-----------------------------------------------------------------------------
(* The property of the window, as this run names it. *)

\* SheddingWindow: the buckets add up to the recent samples.
WindowIsRecent == Rolling!WindowIsRecent

=============================================================================
