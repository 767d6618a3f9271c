----------------------------- MODULE Discovery -----------------------------
(***************************************************************************)
(* Service discovery of roze-rpc over Etcd.  One instance registers itself *)
(* under a lease that a task renews and recreates, until it deregisters or *)
(* dies; the others stay registered.  A client keeps the list it           *)
(* discovered last, refreshed by its calls, by a task (the resolver) and   *)
(* by a watch of the registry's keys.                                      *)
(*                                                                         *)
(* A request is answered at once or fails: before Etcd has it, or after.   *)
(***************************************************************************)
EXTENDS Naturals, Sequences

CONSTANTS
    None,
    Error,                \* in place of a list: the request failed
    Waiting,              \* the refresh task, between two lists
    Instance, Others,     \* the instance of interest; the ones that stay registered
    Ttl, RenewInterval,   \* of the lease; how often it is renewed
    CacheTtl,             \* how long the client believes a list
    FaultBound,           \* bound: requests and connections that fail
    QueueBound            \* bound: lists on their way from the watch to the cache

VARIABLES
    server,     \* the instance: new, registered ("wait" or "recover"), leaving or gone
    due,        \* time to the next tick of the renewal's interval
    retry,      \* time to the next attempt to recover
    key,        \* Etcd: time left to the lease of the instance's key, or None
    renewed,    \* the key's lease is the one that the task renews
    latePut,    \* a put of the aborted task is still under way
    faults,
    kind,       \* the client: "channels" (DynamicRpcChannels) or "resolver"
    cache,      \* its cached list and for how long it is believed, or None
    answer,     \* the list that its call has been sent, or None
    offered,    \* the list that its last call chose from
    refresh,    \* the resolver's task: None, Waiting, or the list it was sent
    watch,      \* the task of EtcdRegistry::watch; "deaf": open, with a buffer that
                \* no event makes parse
    reported,   \* the open watch has an event for it
    queue       \* its lists on their way to the cache

serverVars == <<server, due, retry, key, renewed, latePut>>
clientVars == <<kind, cache, answer, offered, refresh, watch, queue>>
vars == <<serverVars, clientVars, reported, faults>>

Registered == Others \cup (IF key = None THEN {} ELSE {Instance})

Fail == faults < FaultBound /\ faults' = faults + 1

\* What Etcd tells an open watch when a key is put, deleted or expires.
Report == reported' = (watch \in {"open", "event"})

Init ==
    /\ server = "new" /\ due = 0 /\ retry = 0 /\ key = None /\ renewed = FALSE /\ latePut = FALSE
    /\ faults = 0
    /\ kind \in {"channels", "resolver"}
    /\ cache = None /\ answer = None /\ offered = {}
    /\ refresh = None /\ watch = "off" /\ reported = FALSE /\ queue = <<>>

-----------------------------------------------------------------------------
(* The instance: put_instance grants a lease and puts the key under it, at   *)
(* one of the endpoints; it fails when all of them do.                       *)

PutDone == key' = Ttl /\ renewed' = TRUE /\ Report

\* All endpoints fail, one of them perhaps after it has put the key.
PutFails ==
    /\ Fail
    /\ \/ UNCHANGED <<key, renewed, reported>>
       \/ key' = Ttl /\ renewed' = FALSE /\ Report

\* The first tick of the task's interval comes at once.
Register ==
    /\ server = "new"
    /\ \/ PutDone /\ server' = "wait" /\ UNCHANGED faults
       \/ PutFails /\ server' = "gone"
    /\ UNCHANGED <<due, retry, latePut, clientVars>>

\* Etcd answers for a lease that it no longer has as for one it has renewed.
KeepAlive ==
    /\ server = "wait" /\ due = 0
    /\ key' = IF renewed /\ key # None THEN Ttl ELSE key
    /\ due' = RenewInterval
    /\ UNCHANGED <<server, retry, renewed, latePut, clientVars, reported, faults>>

KeepAliveFails ==
    /\ server = "wait" /\ due = 0 /\ Fail
    /\ \/ UNCHANGED key
       \/ key' = IF renewed /\ key # None THEN Ttl ELSE key
    /\ server' = "recover" /\ due' = RenewInterval /\ retry' = 1
    /\ UNCHANGED <<renewed, latePut, clientVars, reported>>

\* The key is put again under a new lease.
Recover ==
    /\ server = "recover" /\ retry = 0
    /\ \/ PutDone /\ server' = "wait" /\ UNCHANGED <<retry, faults>>
       \/ PutFails /\ retry' = 1 /\ UNCHANGED server
    /\ UNCHANGED <<due, latePut, clientVars>>

DeleteDone == key' = None /\ Report /\ UNCHANGED faults

\* All endpoints fail, one of them perhaps after it has deleted the key.
DeleteFails ==
    /\ Fail
    /\ \/ key' = None /\ Report
       \/ UNCHANGED <<key, reported>>

\* The task ends, with a put perhaps under way.
AbortTask == latePut' \in {FALSE, server = "recover"} /\ due' = 0 /\ retry' = 0

\* ServiceRegistrationGuard::shutdown; deregister aborts the task first.
Deregister ==
    /\ server \in {"wait", "recover"}
    /\ AbortTask
    /\ \/ DeleteDone /\ server' = "gone"
       \/ DeleteFails /\ server' = "leaving"
    /\ UNCHANGED <<renewed, clientVars>>

\* The guard is dropped: it tries again if shutdown failed, while there is a
\* runtime to do it.
DropGuard ==
    /\ server = "leaving" /\ server' = "gone"
    /\ DeleteDone \/ DeleteFails \/ UNCHANGED <<key, reported, faults>>
    /\ UNCHANGED <<due, retry, renewed, latePut, clientVars>>

LatePut ==
    /\ latePut /\ latePut' = FALSE
    /\ key' = Ttl /\ renewed' = FALSE /\ Report
    /\ UNCHANGED <<server, due, retry, clientVars, faults>>

\* The process ends without a word.
Crash ==
    /\ server \in {"wait", "recover"}
    /\ server' = "gone" /\ AbortTask
    /\ UNCHANGED <<key, renewed, clientVars, reported, faults>>

-----------------------------------------------------------------------------
(* The client.  EtcdRegistry::discover answers an empty list when every      *)
(* endpoint fails, and an error when an answer does not parse.               *)

Discovered(list) ==
    \/ list = Registered /\ UNCHANGED faults
    \/ list \in {{}, Error} /\ Fail

\* An entry of age CacheTtl is still believed.
Believed(list) == [list |-> list, left |-> CacheTtl + 1]

\* Mutant: a cached list is believed for ever.
FreshForEver == cache # None

\* cached_instances(false).
Fresh == cache # None /\ cache.left > 0

\* What the first call starts: the watch, and the resolver's refresh.
StartTasks ==
    /\ watch' = IF watch = "off" THEN "start" ELSE watch
    /\ refresh' = IF refresh = None /\ kind = "resolver" THEN Waiting ELSE refresh

\* A call with a list that is still believed.
UseCached ==
    /\ answer = None /\ Fresh
    /\ offered' = cache.list
    /\ StartTasks
    /\ UNCHANGED <<serverVars, kind, cache, answer, queue, reported, faults>>

\* A call that asks the registry; the channels start their watch before it.
Ask ==
    /\ answer = None /\ ~Fresh
    /\ Discovered(answer')
    /\ IF kind = "channels" THEN StartTasks ELSE UNCHANGED <<watch, refresh>>
    /\ UNCHANGED <<serverVars, kind, cache, offered, queue, reported>>

\* The channels take an empty list for a failure, and what they know for better.
LandChannels ==
    /\ kind = "channels" /\ answer # None
    /\ IF answer \in {{}, Error}
         THEN /\ offered' = (IF cache = None THEN offered ELSE cache.list)
              /\ UNCHANGED cache
         ELSE cache' = Believed(answer) /\ offered' = answer
    /\ answer' = None
    /\ UNCHANGED <<serverVars, kind, refresh, watch, queue, reported, faults>>

LandResolver ==
    /\ kind = "resolver" /\ answer # None
    /\ IF answer = Error
         THEN UNCHANGED <<cache, offered, refresh, watch>>
         ELSE cache' = Believed(answer) /\ offered' = answer /\ StartTasks
    /\ answer' = None
    /\ UNCHANGED <<serverVars, kind, queue, reported, faults>>

\* The resolver's refresh task: it asks, and stores what it was told.
Refresh ==
    /\ refresh = Waiting
    /\ Discovered(refresh')
    /\ UNCHANGED <<serverVars, kind, cache, answer, offered, watch, queue, reported>>

Refreshed ==
    /\ refresh \notin {None, Waiting}
    /\ cache' = IF refresh = Error THEN cache ELSE Believed(refresh)
    /\ refresh' = Waiting
    /\ UNCHANGED <<serverVars, kind, answer, offered, watch, queue, reported, faults>>

-----------------------------------------------------------------------------
(* The watch.                                                                *)

\* The task's first list; an error is not sent.
WatchStarts ==
    /\ watch = "start" /\ Len(queue) < QueueBound
    /\ \E list \in {Registered, {}, Error} :
          /\ Discovered(list)
          /\ queue' = IF list = Error THEN queue ELSE Append(queue, list)
    /\ watch' = "connect"
    /\ UNCHANGED <<serverVars, kind, cache, answer, offered, refresh, reported>>

\* A watch starts from now: what changed since the last one is not reported.
\* Etcd's first message says only that the watch is created; it stays in the
\* buffer, and what is appended to it does not parse.
Connect ==
    /\ watch = "connect" /\ watch' \in {"open", "deaf"} /\ reported' = FALSE
    /\ UNCHANGED <<serverVars, kind, cache, answer, offered, refresh, queue, faults>>

Disconnect ==
    /\ watch \in {"open", "deaf"} /\ Fail
    /\ watch' = "connect" /\ reported' = FALSE
    /\ UNCHANGED <<serverVars, kind, cache, answer, offered, refresh, queue>>

\* An event makes the task ask for the list, unless it comes in one piece with
\* another message.
Event ==
    /\ watch = "open" /\ reported /\ reported' = FALSE
    /\ watch' \in {"event", "deaf"}
    /\ UNCHANGED <<serverVars, kind, cache, answer, offered, refresh, queue, faults>>

WatchReads ==
    /\ watch = "event" /\ Len(queue) < QueueBound
    /\ \/ /\ \E list \in {Registered, {}} : Discovered(list) /\ queue' = Append(queue, list)
          /\ watch' = "open" /\ UNCHANGED reported
       \/ /\ Fail  \* the answer does not parse
          /\ watch' = "connect" /\ reported' = FALSE /\ UNCHANGED queue
    /\ UNCHANGED <<serverVars, kind, cache, answer, offered, refresh>>

Receive ==
    /\ queue # <<>>
    /\ cache' = Believed(Head(queue)) /\ queue' = Tail(queue)
    /\ UNCHANGED <<serverVars, kind, answer, offered, refresh, watch, reported, faults>>

-----------------------------------------------------------------------------
Decrement(left) == IF left > 0 THEN left - 1 ELSE 0

\* A unit of time passes; the renewals that are due come first.
Tick ==
    /\ server = "wait" => due > 0
    /\ server = "recover" => retry > 0
    /\ due' = Decrement(due) /\ retry' = Decrement(retry)
    /\ \/ key \in {None, 1} /\ key' = None
       \/ key \notin {None, 1} /\ key' = key - 1
    /\ IF key = 1 THEN Report ELSE UNCHANGED reported
    /\ cache' = IF cache = None THEN None ELSE [cache EXCEPT !.left = Decrement(@)]
    /\ UNCHANGED <<server, renewed, latePut, faults,
                   kind, answer, offered, refresh, watch, queue>>

Renew == KeepAlive \/ KeepAliveFails \/ Recover
Call == UseCached \/ Ask \/ LandChannels \/ LandResolver
RefreshTask == Refresh \/ Refreshed
Watch == WatchStarts \/ Connect \/ Event \/ WatchReads

Next ==
    \/ Register \/ Renew \/ Deregister \/ DropGuard \/ LatePut \/ Crash
    \/ Call \/ RefreshTask
    \/ Watch \/ Disconnect \/ Receive
    \/ Tick

Spec == Init /\ [][Next]_vars

\* Tasks and time go on, and the client calls again and again.  Nothing says that
\* a failed process comes back, or that a watch stays connected.
Fairness ==
    /\ WF_vars(Tick) /\ WF_vars(Renew)
    /\ WF_vars(Call) /\ WF_vars(RefreshTask)
    /\ WF_vars(Watch) /\ WF_vars(Receive)

FairSpec == Spec /\ Fairness

-----------------------------------------------------------------------------
\* The list that calls choose from becomes what is really there, and stays so: an
\* instance that runs is offered again after any failed renewals, and one that
\* deregistered or died is not, whether or not the watch reports it, and whatever
\* list was on its way when it changed.
ClientsConverge ==
    <>[](offered = Others \cup (IF server \in {"wait", "recover"} THEN {Instance} ELSE {}))

=============================================================================
