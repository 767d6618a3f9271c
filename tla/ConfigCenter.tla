---------------------------- MODULE ConfigCenter ----------------------------
(***************************************************************************)
(* ConfigCenter of roze-config: watch_loop takes snapshots from a source,  *)
(* by polling or from the channel of the Etcd watch, lets a change rest    *)
(* for the debounce, and replaces the configuration.  Listeners run on     *)
(* threads of their own; the loop waits for them up to a timeout.  The     *)
(* source is Etcd, a file or the environment: a list of values put there.  *)
(***************************************************************************)
EXTENDS Clock, Sequences

CONSTANTS
    Modes,            \* SUBSET {"poll", "etcd"}: does the subscriber watch
    Texts, Valid,     \* snapshots, and those that parse and validate
    PollInterval, Debounce, ListenerTimeout,  \* ConfigCenterConfig
    PutBound          \* bound: values that the source is given

VARIABLES
    mode,          \* is watch_rx Some
    puts,          \* the values of the source so far; the last one is current
    feed,          \* the watch stream: index of its next event, None when closed
    lastRevision,  \* EtcdSubscriber::watch: last_revision
    snapshots,     \* the channel of the watch: sent and not yet received
    loopAt,        \* what watch_loop waits for
    pollLeft,      \* time left of its sleep
    waitLeft,      \* time left of listener_timeout
    value,         \* ConfigCenterInner::value, and last_hash
    lastFailed,    \* last_failed_hash
    pending,       \* the change that is resting, and for how long
    round,         \* history: reloads so far, successes and failures
    threads,       \* listener calls still running
    heard          \* history: the reload that the listener of each kind acted on last

sourceVars == <<mode, puts, feed, lastRevision>>
loopVars   == <<pollLeft, value, lastFailed, pending>>
waitVars   == <<loopAt, waitLeft, round, threads, heard>>
centerVars == <<sourceVars, snapshots, loopVars, waitVars>>

Kinds == {"config", "reload"}

CenterInit ==
    /\ mode \in Modes
    /\ puts \in {<<text>> : text \in Valid}
    /\ feed = None /\ lastRevision = 0 /\ snapshots = <<>>
    /\ loopAt = "wait" /\ pollLeft = PollInterval /\ waitLeft = 0
    /\ value = puts[1] /\ lastFailed = None /\ pending = None
    /\ round = 0 /\ threads = {} /\ heard = [k \in Kinds |-> 0]

-----------------------------------------------------------------------------
(* The source, and the watch task of EtcdSubscriber, which never stops.      *)

LastPut == puts[Len(puts)]

Put(text) ==
    /\ Len(puts) < PutBound
    /\ puts' = Append(puts, text)
    /\ UNCHANGED <<mode, feed, lastRevision, snapshots, loopVars, waitVars>>

\* Mutant: a stream always starts with the next event to come.
ConnectAnew ==
    /\ mode = "etcd" /\ feed = None
    /\ feed' = Len(puts) + 1
    /\ UNCHANGED <<mode, puts, lastRevision, snapshots, loopVars, waitVars>>

\* Without a revision the stream starts with the next event to come.
Connect ==
    /\ mode = "etcd" /\ feed = None
    /\ feed' = (IF lastRevision > 0 THEN lastRevision ELSE Len(puts)) + 1
    /\ UNCHANGED <<mode, puts, lastRevision, snapshots, loopVars, waitVars>>

Disconnect ==
    /\ feed # None
    /\ feed' = None
    /\ UNCHANGED <<mode, puts, lastRevision, snapshots, loopVars, waitVars>>

Event ==
    /\ feed # None /\ feed <= Len(puts)
    /\ snapshots' = Append(snapshots, puts[feed])
    /\ lastRevision' = feed
    /\ feed' = feed + 1
    /\ UNCHANGED <<mode, puts, loopVars, waitVars>>

-----------------------------------------------------------------------------
(* watch_loop *)

\* A thread for the listener; the loop waits for it.
Notify(kind, n) ==
    /\ loopAt' = kind
    /\ waitLeft' = AtLeastOne(ListenerTimeout)
    /\ threads' = threads \cup {[kind |-> kind, round |-> n, late |-> FALSE]}

StartNotifying(kind) ==
    /\ Notify(kind, round + 1)
    /\ round' = round + 1
    /\ UNCHANGED heard

Reload(text) ==
    /\ pending' = None
    /\ IF text \in Valid
       THEN value' = text /\ lastFailed' = None /\ StartNotifying("config")
       ELSE lastFailed' = text /\ UNCHANGED value /\ StartNotifying("reload")

Rested(text) == pending # None /\ pending.text = text /\ pending.age >= Debounce

\* Mutant: every look at the same snapshot starts the debounce again.
LookRestarts(text) ==
    \/ /\ text \in {value, lastFailed} \/ ~Rested(text)
       /\ pending' = IF text \in {value, lastFailed} THEN None ELSE [text |-> text, age |-> 0]
       /\ lastFailed' = IF lastFailed = text THEN text ELSE None
       /\ UNCHANGED <<value, waitVars>>
    \/ /\ text \notin {value, lastFailed} /\ Rested(text)
       /\ Reload(text)

\* One turn of the loop, with the snapshot that it was given.
Look(text) ==
    \/ /\ text \in {value, lastFailed} \/ ~Rested(text)
       /\ pending' = IF text \in {value, lastFailed} THEN None
                     ELSE IF pending # None /\ pending.text = text THEN pending
                     ELSE [text |-> text, age |-> 0]
       /\ lastFailed' = IF lastFailed = text THEN text ELSE None
       /\ UNCHANGED <<value, waitVars>>
    \/ /\ text \notin {value, lastFailed} /\ Rested(text)
       /\ Reload(text)

Receive ==
    /\ mode = "etcd" /\ loopAt = "wait" /\ snapshots # <<>>
    /\ Look(Head(snapshots))
    /\ snapshots' = Tail(snapshots)
    /\ UNCHANGED <<sourceVars, pollLeft>>

PollReads ==
    /\ mode = "poll" /\ loopAt = "wait" /\ pollLeft = 0
    /\ Look(LastPut)
    /\ pollLeft' = PollInterval
    /\ UNCHANGED <<sourceVars, snapshots>>

\* `read config center value failed'.
PollFails ==
    /\ mode = "poll" /\ loopAt = "wait" /\ pollLeft = 0
    /\ pollLeft' = PollInterval
    /\ UNCHANGED <<sourceVars, snapshots, value, lastFailed, pending, waitVars>>

-----------------------------------------------------------------------------
(* notify_config_listeners, notify_reload_listeners *)

\* The loop goes on to the reload listeners, or to its next turn.
NextWait ==
    IF loopAt = "config"
    THEN /\ loopAt' = "reload"
         /\ waitLeft' = AtLeastOne(ListenerTimeout)
    ELSE /\ loopAt' = "wait"
         /\ UNCHANGED waitLeft

Call(kind, late) == [kind |-> kind, round |-> round, late |-> late]

ReloadCall == IF loopAt = "config" THEN {Call("reload", FALSE)} ELSE {}

\* Mutant: the loop does not wait for its listeners.
ListenerDoneAtOnce ==
    /\ loopAt # "wait"
    /\ NextWait
    /\ threads' = threads \cup ReloadCall
    /\ UNCHANGED <<sourceVars, snapshots, loopVars, round, heard>>

ListenerDone ==
    /\ loopAt # "wait" /\ Call(loopAt, FALSE) \notin threads
    /\ NextWait
    /\ threads' = threads \cup ReloadCall
    /\ UNCHANGED <<sourceVars, snapshots, loopVars, round, heard>>

\* `listener timed out': its thread goes on.
ListenerTimesOut ==
    /\ loopAt # "wait" /\ Call(loopAt, FALSE) \in threads /\ waitLeft = 0
    /\ NextWait
    /\ threads' = (threads \ {Call(loopAt, FALSE)}) \cup {Call(loopAt, TRUE)} \cup ReloadCall
    /\ UNCHANGED <<sourceVars, snapshots, loopVars, round, heard>>

\* A listener acts on the configuration that it was called with, or panics.
Listen(call) ==
    /\ call \in threads
    /\ threads' = threads \ {call}
    /\ \/ heard' = [heard EXCEPT ![call.kind] = call.round]
       \/ UNCHANGED heard
    /\ UNCHANGED <<sourceVars, snapshots, loopVars, loopAt, waitLeft, round>>

-----------------------------------------------------------------------------
CenterTick ==
    /\ pollLeft' = IF loopAt = "wait" THEN CountDown(pollLeft) ELSE pollLeft
    /\ waitLeft' = CountDown(waitLeft)
    /\ pending' = IF pending = None \/ pending.age >= Debounce THEN pending
                  ELSE [pending EXCEPT !.age = @ + 1]
    /\ UNCHANGED <<sourceVars, snapshots, value, lastFailed, loopAt, round, threads, heard>>

CenterNext ==
    \/ CenterTick \/ Connect \/ Disconnect \/ Event
    \/ Receive \/ PollReads \/ PollFails \/ ListenerDone \/ ListenerTimesOut
    \/ \E text \in Texts : Put(text)
    \/ \E call \in threads : Listen(call)

CenterSpec == CenterInit /\ [][CenterNext]_centerVars

\* Time passes and the loop runs; the watch stream connects again and again, long
\* enough for an event, and a read succeeds now and then.  A listener may never
\* return.
CenterFairness ==
    /\ WF_centerVars(CenterTick) /\ WF_centerVars(Receive) /\ WF_centerVars(Connect)
    /\ WF_centerVars(ListenerDone) /\ WF_centerVars(ListenerTimesOut)
    /\ SF_centerVars(Event) /\ SF_centerVars(PollReads)

CenterFairSpec == CenterSpec /\ CenterFairness

-----------------------------------------------------------------------------
(* Properties. *)

\* A polled source that comes to rest on a valid value has it applied, whatever
\* invalid values, failed reads and listeners that never return came before
\* (watch_loop: debounce, last_failed_hash, listener_timeout).
ReloadReaches ==
    mode = "poll" => <>[](LastPut \in Valid => value = LastPut)

\* A listener acts on an older reload after a newer one only if its older call
\* had outlived the listener timeout (notify_config_listeners,
\* notify_reload_listeners).
ListenersInOrder ==
    [][\A k \in Kinds : heard'[k] < heard[k]
         => [kind |-> k, round |-> heard'[k], late |-> TRUE] \in threads]_centerVars

\* Once the watch has seen an event it misses none: whatever is put while its
\* stream is down is sent to the loop after it has connected again
\* (stream_etcd_watch: start_revision).
WatchResumes == lastRevision > 0 ~> lastRevision = Len(puts)

\* A changed valid payload that the loop has received replaces the configuration,
\* unless another payload supersedes it (docs/contracts/config-center.md:61,
\* "changed valid payload | replaced").
ChangeApplied ==
    \A text \in Valid :
       (pending # None /\ pending.text = text)
         ~> (value = text \/ pending = None \/ pending.text # text)

=============================================================================
