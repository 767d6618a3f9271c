---------------------------- MODULE ServiceGroup ----------------------------
(***************************************************************************)
(* ServiceGroup of roze-service: start_with_shutdown, the service tasks it *)
(* spawns, and the handles that others keep.  Services are numbered in the *)
(* order of order(); hooks run one after the other under a timeout, which  *)
(* may strike at any of them.                                              *)
(***************************************************************************)
EXTENDS Integers, FiniteSets

CONSTANT N  \* the number of services

ASSUME GroupConstants == N \in Nat

Services == 1..N

VARIABLES
    stopOnFirstError,  \* the field of ServiceGroupConfig, set once
    phase,      \* LifecycleState
    at,         \* where start_with_shutdown is: abort and join are wait_for_tasks after
                \* a failed start and at the end, settle the last marks
    hook,       \* hooks that have run in this round
    task,       \* the task of every service
    joined,     \* tasks that the group has joined
    errors,     \* is `errors' non-empty
    requested,  \* shutdown_request is triggered
    told,       \* service_shutdown is triggered
    asking,     \* a handle is between its mark and its trigger
    drained     \* services whose drain hook has run

progress == <<phase, at, hook, task, joined, errors, requested, told, asking, drained>>
groupVars == <<stopOnFirstError, progress>>

GroupInit ==
    /\ stopOnFirstError \in BOOLEAN
    /\ phase = "Starting" /\ at = "new" /\ hook = 0
    /\ task = [s \in Services |-> "none"]
    /\ joined = {} /\ errors = FALSE
    /\ requested = FALSE /\ told = FALSE /\ asking = FALSE
    /\ drained = {}

Active == N - Cardinality(joined)

-----------------------------------------------------------------------------
(* start_with_shutdown *)

SpawnServices ==
    /\ at = "new"
    /\ IF N = 0
       THEN /\ phase' = "Stopped" /\ at' = "ok"
            /\ UNCHANGED task
       ELSE /\ task' = [s \in Services |-> "running"]
            /\ at' = "ready"
            /\ UNCHANGED phase
    /\ UNCHANGED <<hook, joined, errors, requested, told, asking, drained>>

\* run_lifecycle_hooks: the next hook succeeds or fails, or the round times out.
RunHook(place) ==
    /\ at = place /\ hook < N
    /\ \/ /\ hook' = hook + 1
          /\ errors' \in {errors, TRUE}
       \/ hook' = N /\ errors' = TRUE

HookReady ==
    /\ RunHook("ready")
    /\ UNCHANGED <<phase, at, task, joined, requested, told, asking, drained>>

AfterReady ==
    /\ at = "ready" /\ hook = N
    /\ hook' = 0
    /\ IF errors THEN phase' = "Failed" /\ told' = TRUE /\ at' = "abort"
       ELSE phase' = "Ready" /\ at' = "serve" /\ UNCHANGED told
    /\ UNCHANGED <<task, joined, errors, requested, asking, drained>>

\* handle_service_exit for a task that join_next returns.
Join(s) ==
    /\ task[s] \in {"ok", "err"} /\ s \notin joined
    /\ joined' = joined \cup {s}
    /\ errors' = (errors \/ task[s] = "err")

\* The select loop.
ServeJoin(s) ==
    /\ at = "serve" /\ Active > 0
    /\ Join(s)
    /\ IF task[s] = "err" /\ stopOnFirstError
       THEN phase' = "Draining" /\ requested' = TRUE /\ at' = "drain"
       ELSE UNCHANGED <<phase, requested, at>>
    /\ UNCHANGED <<hook, task, told, asking, drained>>

\* The external signal, or the request of a handle.
ServeShutdown ==
    /\ at = "serve" /\ Active > 0
    /\ phase' = "Draining" /\ at' = "drain"
    /\ UNCHANGED <<hook, task, joined, errors, requested, told, asking, drained>>

ServeDone ==
    /\ at = "serve" /\ Active = 0
    /\ at' = IF requested THEN "drain" ELSE "settle"
    /\ UNCHANGED <<phase, hook, task, joined, errors, requested, told, asking, drained>>

\* Mutant: services are drained in the order in which they were started.
HookDrainForward ==
    /\ RunHook("drain")
    /\ drained' = IF hook' = hook + 1 THEN drained \cup {hook + 1} ELSE drained
    /\ UNCHANGED <<phase, at, task, joined, requested, told, asking>>

HookDrain ==
    /\ RunHook("drain")
    /\ drained' = IF hook' = hook + 1 THEN drained \cup {N - hook} ELSE drained
    /\ UNCHANGED <<phase, at, task, joined, requested, told, asking>>

AfterDrain ==
    /\ at = "drain" /\ hook = N
    /\ hook' = 0 /\ told' = TRUE /\ at' = "stop"
    /\ UNCHANGED <<phase, task, joined, errors, requested, asking, drained>>

HookStop ==
    /\ RunHook("stop")
    /\ UNCHANGED <<phase, at, task, joined, requested, told, asking, drained>>

AfterStop ==
    /\ at = "stop" /\ hook = N
    /\ hook' = 0 /\ at' = "join"
    /\ UNCHANGED <<phase, task, joined, errors, requested, told, asking, drained>>

\* wait_for_tasks.
WaitJoin(s) ==
    /\ at \in {"abort", "join"}
    /\ Join(s)
    /\ UNCHANGED <<phase, at, hook, task, requested, told, asking, drained>>

\* Mutant: tasks that did not end are not reported.
AfterWaitSilent(timedOut) ==
    /\ at \in {"abort", "join"}
    /\ timedOut <=> Active > 0
    /\ at' = IF at = "abort" THEN "err" ELSE "settle"
    /\ UNCHANGED <<phase, hook, task, joined, errors, requested, told, asking, drained>>

\* Mutant: there is no timeout.
AfterWaitUnbounded(timedOut) ==
    /\ at \in {"abort", "join"}
    /\ ~timedOut /\ Active = 0
    /\ at' = IF at = "abort" THEN "err" ELSE "settle"
    /\ UNCHANGED <<phase, hook, task, joined, errors, requested, told, asking, drained>>

AfterWait(timedOut) ==
    /\ at \in {"abort", "join"}
    /\ timedOut <=> Active > 0
    /\ errors' = (errors \/ timedOut)
    /\ at' = IF at = "abort" THEN "err" ELSE "settle"
    /\ UNCHANGED <<phase, hook, task, joined, requested, told, asking, drained>>

Settle ==
    /\ at = "settle"
    /\ IF errors THEN phase' = "Failed" /\ at' = "err"
       ELSE phase' = "Stopped" /\ at' = "ok"
    /\ UNCHANGED <<hook, task, joined, errors, requested, told, asking, drained>>

-----------------------------------------------------------------------------
(* Services and handles *)

\* A task returns; a panic is an error too.
Exit(s, result) ==
    /\ task[s] = "running" /\ at \notin {"ok", "err"}
    /\ task' = [task EXCEPT ![s] = result]
    /\ UNCHANGED <<phase, at, hook, joined, errors, requested, told, asking, drained>>

\* ServiceGroupHandle::shutdown marks the phase, then triggers the request.
AskShutdown ==
    /\ ~asking
    /\ phase' = "Draining" /\ asking' = TRUE
    /\ UNCHANGED <<at, hook, task, joined, errors, requested, told, drained>>

TriggerShutdown ==
    /\ asking
    /\ requested' = TRUE /\ asking' = FALSE
    /\ UNCHANGED <<phase, at, hook, task, joined, errors, told, drained>>

-----------------------------------------------------------------------------
StartWithShutdown ==
    \/ SpawnServices \/ HookReady \/ AfterReady \/ ServeDone
    \/ HookDrain \/ AfterDrain \/ HookStop \/ AfterStop \/ Settle
    \/ \E s \in Services : ServeJoin(s) \/ WaitJoin(s)
    \/ \E timedOut \in BOOLEAN : AfterWait(timedOut)

Others ==
    \/ ServeShutdown \/ AskShutdown \/ TriggerShutdown
    \/ \E s \in Services, result \in {"ok", "err"} : Exit(s, result)

GroupNext == (StartWithShutdown \/ Others) /\ UNCHANGED stopOnFirstError

GroupSpec == GroupInit /\ [][GroupNext]_groupVars

\* The group's task runs, hooks end or time out, and a request is noticed.
GroupFairness ==
    /\ WF_progress(StartWithShutdown)
    /\ WF_progress(TriggerShutdown)
    /\ WF_progress(ServeShutdown /\ requested)

GroupFairSpec == GroupSpec /\ GroupFairness

-----------------------------------------------------------------------------
(* Properties. *)

\* The group reports success only when every service has ended well: no failed,
\* panicked or lost task is forgotten on any path (handle_service_exit,
\* wait_for_tasks).
SuccessMeansAll ==
    at = "ok" => joined = Services /\ \A s \in Services : task[s] = "ok"

\* A service is told to stop only when the group has drained, in reverse order:
\* what depends on a service is drained before the service is (or the round
\* failed or timed out).
DrainedInReverse ==
    /\ \A s \in drained, t \in Services : t > s => t \in drained
    /\ told => drained = Services \/ errors

\* A requested shutdown ends: hooks and tasks are bounded by their timeouts.
ShutdownEnds == requested ~> at \in {"ok", "err"}

Rank(p) ==
    CASE p = "Starting" -> 0 [] p = "Ready" -> 1 [] p = "Draining" -> 2 [] OTHER -> 3

\* The phases of a group come in order (docs/maturity.md:33,
\* "Starting/Ready/Draining/Stopped/Failed ordering").
PhasesInOrder == [][Rank(phase') >= Rank(phase)]_phase

=============================================================================
