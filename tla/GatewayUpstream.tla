-------------------------- MODULE GatewayUpstream --------------------------
(***************************************************************************)
(* The upstream side of roze-gateway: requests resolve an instance of a    *)
(* service, are sent to it, and record success or failure with the outlier *)
(* states; health checks watch the instances; server-sent events and       *)
(* WebSockets count against a limit of open streams; a reload builds a new *)
(* runtime over the states of the old one.  Locks are held for one access. *)
(***************************************************************************)
EXTENDS Clock, FiniteSets

CONSTANTS
    Instances,      \* instances that the registry lists
    Exchanges,      \* requests that may be under way at one time
    EjectAfter,     \* GatewayOutlierConfig::failure_threshold
    EjectFor,       \* GatewayOutlierConfig::ejection_ms
    HealthAfter,    \* healthy_threshold and unhealthy_threshold
    StreamLimits    \* limits of streams that a reload may bring

ASSUME GatewayConstants ==
    /\ {EjectAfter, EjectFor, HealthAfter} \subseteq Nat
    /\ StreamLimits \subseteq Nat
    /\ IsFiniteSet(Exchanges)

Streaming == {"sse", "ws"}

VARIABLES
    outlier,  \* outlier_states: failures, and time left of the ejection
    health,   \* health_states
    active,   \* stream_connection_states, for each protocol of the route
    limit,    \* max_stream_connections of the current runtime
    request,  \* where each request is
    avoid     \* history: instances ejected since before its attempt began

upstreamVars == <<outlier, health, active, limit, request, avoid>>

\* at: out, resolve, acquire, sent, stream; todo, found: instances that are still
\* to be looked at, and those found available; to: the one it was sent to.
NoRequest == [at |-> "out", kind |-> None, todo |-> {}, found |-> {}, to |-> None, permit |-> FALSE]

UpstreamInit ==
    /\ outlier = [i \in Instances |-> [failures |-> 0, left |-> 0]]
    /\ health = [i \in Instances |-> [healthy |-> TRUE, run |-> 0]]
    /\ active = [p \in Streaming |-> 0]
    /\ limit \in StreamLimits
    /\ request = [q \in Exchanges |-> NoRequest]
    /\ avoid = [q \in Exchanges |-> {}]

Ejected(i) == outlier[i].left > 0

\* The ejection of i is over: what begins now need not avoid it.
Forget(i) == [q \in Exchanges |-> avoid[q] \ {i}]

-----------------------------------------------------------------------------
(* resolve_upstream *)

ResolveUpstream(q, kind) ==
    /\ request[q].at = "out"
    /\ request' = [request EXCEPT ![q] = [NoRequest EXCEPT !.at = "resolve", !.kind = kind,
                                                           !.todo = Instances]]
    /\ avoid' = [avoid EXCEPT ![q] = {i \in Instances : Ejected(i)}]
    /\ UNCHANGED <<outlier, health, active, limit>>

\* Mutant: only the health of an instance is looked at.
TargetAvailableHealth(i) == health[i].healthy

TargetAvailable(i) == ~Ejected(i) /\ health[i].healthy

\* available_instances takes the locks anew for each instance.
Consider(q, i) ==
    /\ request[q].at = "resolve" /\ i \in request[q].todo
    /\ request' = [request EXCEPT ![q].todo = @ \ {i},
                                  ![q].found = IF TargetAvailable(i) THEN @ \cup {i} ELSE @]
    /\ UNCHANGED <<outlier, health, active, limit, avoid>>

\* pick_weighted_instance: any of them, by weight and cursor.
Pick(q, i) ==
    /\ request[q].at = "resolve" /\ request[q].todo = {} /\ i \in request[q].found
    /\ request' = [request EXCEPT ![q].to = i, ![q].found = {},
                                  ![q].at = IF request[q].kind = "ws" THEN "acquire" ELSE "sent"]
    /\ UNCHANGED <<outlier, health, active, limit, avoid>>

-----------------------------------------------------------------------------
(* The permit of a stream *)

GiveBack(q) == IF request[q].permit
               THEN [active EXCEPT ![request[q].kind] = OneFewer(@)] ELSE active

LeaveUpstream(q) ==
    /\ active' = GiveBack(q)
    /\ request' = [request EXCEPT ![q] = NoRequest]

\* try_acquire_stream_connection: for a WebSocket before it connects, for events
\* when the response has come.
Acquire(q) ==
    /\ \/ request[q].at = "acquire"
       \/ request[q].at = "sent" /\ request[q].kind = "sse" /\ ~request[q].permit
    /\ IF active[request[q].kind] < limit
       THEN /\ active' = [active EXCEPT ![request[q].kind] = @ + 1]
            /\ request' = [request EXCEPT ![q].permit = TRUE, ![q].at = "sent"]
            /\ UNCHANGED avoid
       ELSE /\ LeaveUpstream(q)
            /\ avoid' = [avoid EXCEPT ![q] = {}]
    /\ UNCHANGED <<outlier, health, limit>>

-----------------------------------------------------------------------------
(* How an attempt ends *)

\* record_outlier_success.
Succeed(q) ==
    LET i == request[q].to
    IN  /\ request[q].at = "sent" /\ (request[q].kind \in Streaming => request[q].permit)
        /\ outlier' = [outlier EXCEPT ![i] = [failures |-> 0, left |-> 0]]
        /\ avoid' = [Forget(i) EXCEPT ![q] = {}]
        /\ IF request[q].permit
           THEN /\ request' = [request EXCEPT ![q].at = "stream"]
                /\ UNCHANGED active
           ELSE LeaveUpstream(q)
        /\ UNCHANGED <<health, limit>>

\* record_outlier_failure; a retry is an attempt of its own.
FailUpstream(q) ==
    LET i        == request[q].to
        failures == outlier[i].failures + 1
    IN  /\ request[q].at = "sent" /\ (request[q].permit => request[q].kind = "ws")
        /\ outlier' = [outlier EXCEPT ![i] =
                         IF failures >= AtLeastOne(EjectAfter)
                         THEN [failures |-> 0, left |-> EjectFor]
                         ELSE [@ EXCEPT !.failures = failures]]
        /\ LeaveUpstream(q)
        /\ avoid' = [avoid EXCEPT ![q] = {}]
        /\ UNCHANGED <<health, limit>>

\* Mutant: the end of a stream keeps its permit.
DropAttemptKeepsPermit(q) ==
    /\ request[q].at # "out"
    /\ request' = [request EXCEPT ![q] = NoRequest]
    /\ avoid' = [avoid EXCEPT ![q] = {}]
    /\ UNCHANGED <<outlier, health, active, limit>>

\* The stream ends, the client goes away, nothing is available, the deadline has
\* passed, or the handshake is not valid: no record, and the permit is dropped.
DropAttempt(q) ==
    /\ request[q].at # "out"
    /\ LeaveUpstream(q)
    /\ avoid' = [avoid EXCEPT ![q] = {}]
    /\ UNCHANGED <<outlier, health, limit>>

-----------------------------------------------------------------------------
\* record_health_result; run counts successes while unhealthy, failures while
\* healthy.
Probe(i, ok) ==
    LET run == health[i].run + 1
    IN  /\ health' = [health EXCEPT ![i] =
                        IF ok = health[i].healthy THEN [@ EXCEPT !.run = 0]
                        ELSE IF run >= AtLeastOne(HealthAfter)
                             THEN [healthy |-> ok, run |-> 0]
                             ELSE [@ EXCEPT !.run = run]]
        /\ UNCHANGED <<outlier, active, limit, request, avoid>>

\* The states are shared with the runtime before.
Reload(maximum) ==
    /\ limit' = maximum
    /\ UNCHANGED <<outlier, health, active, request, avoid>>

UpstreamTick ==
    /\ outlier' = [i \in Instances |-> [outlier[i] EXCEPT !.left = CountDown(@)]]
    /\ avoid' = [q \in Exchanges |-> {i \in avoid[q] : outlier'[i].left > 0}]
    /\ UNCHANGED <<health, active, limit, request>>

UpstreamNext ==
    \/ UpstreamTick
    \/ \E maximum \in StreamLimits : Reload(maximum)
    \/ \E i \in Instances, ok \in BOOLEAN : Probe(i, ok)
    \/ \E q \in Exchanges :
          \/ \E kind \in Streaming \cup {"http"} : ResolveUpstream(q, kind)
          \/ \E i \in Instances : Consider(q, i) \/ Pick(q, i)
          \/ Acquire(q) \/ Succeed(q) \/ FailUpstream(q) \/ DropAttempt(q)

UpstreamSpec == UpstreamInit /\ [][UpstreamNext]_upstreamVars

-----------------------------------------------------------------------------
(* Properties. *)

\* An ejection ends before its time only by the success of an attempt that had
\* begun before the instance was ejected: nothing is sent to an instance that was
\* ejected when its attempt began, although availability and choice are separate
\* steps (target_available, record_outlier_success).
EjectionHolds ==
    [][\A i \in Instances :
         Ejected(i) /\ outlier'[i].left = 0 /\ outlier[i].left > 1
         => \E q \in Exchanges : /\ request[q].at = "sent" /\ request'[q].at # "sent"
                                 /\ request[q].to = i /\ i \notin avoid[q]]_upstreamVars

\* The counter of open streams is the number of permits that requests and streams
\* hold, across refusals, failures, drops and reloads, and a stream is opened
\* only below the limit of the moment: a reload that lowers the limit closes
\* nothing, but opens nothing either (StreamConnectionPermit, build_gateway_runtime).
StreamsCounted ==
    [][\A p \in Streaming :
         /\ active'[p] = Cardinality({q \in Exchanges : request'[q].permit /\ request'[q].kind = p})
         /\ active'[p] > active[p] => active'[p] <= limit]_upstreamVars

=============================================================================
