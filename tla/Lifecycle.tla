------------------------------ MODULE Lifecycle ------------------------------
(* The life of one process: what src/runtime.go builds, starts and shuts      *)
(* down, against the work that goes on meanwhile: requests, sessions of        *)
(* brothers, the rescan loop, the artifact reconcile, the collector of the     *)
(* storage, and the metrics reader.                                            *)
EXTENDS Naturals, FiniteSets

CONSTANT Lives  \* which kinds of work arrive, whether metrics are collected, and whether operations may hang

VARIABLES
    place,      \* where the goroutine of main is
    signal,     \* SIGTERM was received: signalCtx is done
    over,       \* the budgets that are used up: "drain" (drainCtx), "storage"
    has,        \* the parts that are built: "storage", "mesh", "rescan", "server"
    told,       \* what was told to stop: "sessions", "rescan", "telemetry", "storage" (closedFlag)
    work,       \* for each kind of work: "off", "on", or "op" in an operation of the storage
    life,       \* one of Lives
    loop,       \* runLoop of the supervisor
    triggers,   \* the buffered triggers: "cycle", "gc"
    collector,  \* runDurableGCLoop
    closer,     \* finishClose
    open,       \* the databases and the node that are open: "pebble", "index", "node"
    meshCloser, \* the teardown goroutine of mod/mesh
    reader      \* the metrics reader, in the order of its callbacks

vars == <<place, signal, over, has, told, work, life, loop, triggers, collector, closer, open, meshCloser, reader>>

Workers == {"request", "session", "cycle", "reconcile"}
runtime == <<signal, over, has, life>>
background == <<loop, triggers, collector, closer, open, meshCloser, reader>>

Init ==
    /\ place = "storage" /\ signal = FALSE /\ over = {} /\ has = {} /\ told = {}
    /\ work = [w \in Workers |-> "off"] /\ life \in Lives
    /\ loop = "off" /\ triggers = {} /\ collector = "off" /\ closer = "off"
    /\ open = {} /\ meshCloser = "off" /\ reader = "off"

Alive == place # "exited"

------------------------------------------------------------------------------
(* Start.                                                                     *)

\* SQLite, then Pebble; the collector runs from here on.
OpenStorage ==
    /\ place = "storage"
    /\ place' = "recover" /\ open' = {"pebble", "index"} /\ collector' = "idle"
    /\ UNCHANGED <<runtime, told, work, loop, triggers, closer, meshCloser, reader>>
\* If Pebble cannot be opened the index is closed again.
OpenStorageFails ==
    /\ place = "storage"
    /\ place' = "shutdown"
    /\ UNCHANGED <<runtime, told, work, background>>

\* Recover, under the context of the signal.
Recover ==
    /\ place = "recover"
    /\ place' = "mesh" /\ has' = has \cup {"storage"}
    /\ UNCHANGED <<signal, over, life, told, work, background>>
\* It fails, perhaps because of the signal: storage.New closes what it opened
\* and waits no longer than that context; the runtime has no storage then.
RecoverFails ==
    /\ place = "recover"
    /\ place' = "unrecovered" /\ told' = told \cup {"storage"} /\ closer' = "operations"
    /\ UNCHANGED <<runtime, work, loop, triggers, collector, open, meshCloser, reader>>
RecoverClosed ==
    /\ place = "unrecovered"
    /\ closer = "done" \/ signal \/ "storage" \in over
    /\ place' = "shutdown"
    /\ UNCHANGED <<runtime, told, work, background>>

StartMesh ==
    /\ place = "mesh"
    /\ \/ place' = "server" /\ has' = has \cup {"mesh"} /\ open' = open \cup {"node"}
       \/ place' = "shutdown" /\ UNCHANGED <<has, open>>
    /\ UNCHANGED <<signal, over, life, told, work, loop, triggers, collector, closer, meshCloser, reader>>

\* Source and archive, the supervisor, the server, and the metrics.
BuildServer ==
    /\ place = "server"
    /\ \/ place' = "start" /\ has' = has \cup {"rescan", "server"}
       \/ place' = "shutdown" /\ \E built \in {{}, {"rescan"}, {"rescan", "server"}} : has' = has \cup built
    /\ UNCHANGED <<signal, over, life, told, work, background>>

StartTelemetry ==
    /\ place = "start"
    /\ place' = "listen" /\ reader' = IF life.reads THEN "idle" ELSE "off"
    /\ UNCHANGED <<runtime, told, work, loop, triggers, collector, closer, open, meshCloser>>

\* The listeners; then the supervisor with its first trigger, and the
\* reconcile of artifacts if their layout has changed.
StartListeners ==
    /\ place = "listen"
    /\ place' = "ready"
    /\ loop' = "idle" /\ triggers' = triggers \cup {"cycle"}
    /\ \E state \in {"off"} \cup (IF "reconcile" \in life.works THEN {"on"} ELSE {}) : work' = [work EXCEPT !["reconcile"] = state]
    /\ UNCHANGED <<runtime, told, collector, closer, open, meshCloser, reader>>
StartListenersFails ==
    /\ place = "listen"
    /\ place' = "shutdown"
    /\ UNCHANGED <<runtime, told, work, background>>

Signal ==
    /\ Alive /\ ~ signal
    /\ signal' = TRUE
    /\ UNCHANGED <<place, over, has, life, told, work, background>>
Stop ==
    /\ place = "ready" /\ signal
    /\ place' = "shutdown"
    /\ UNCHANGED <<runtime, told, work, background>>

------------------------------------------------------------------------------
(* Shutdown.  One budget for all but the storage.                             *)

Drained == "drain" \in over
ShuttingDown ==
    place \in {"shutdown", "listeners", "requests", "rescan", "loop", "node", "node wait",
               "telemetry", "reconcile"}
DrainOver ==
    /\ ShuttingDown /\ ~ Drained
    /\ over' = over \cup {"drain"}
    /\ UNCHANGED <<place, signal, has, life, told, work, background>>
StorageOver ==
    /\ place \in {"storage wait", "unrecovered"} /\ "storage" \notin over
    /\ over' = over \cup {"storage"}
    /\ UNCHANGED <<place, signal, has, life, told, work, background>>

\* brother.Close: sessions lose their connections, and later ones are refused.
StopSessions ==
    /\ place = "shutdown"
    /\ IF "server" \in has THEN place' = "listeners" /\ told' = told \cup {"sessions"}
       ELSE place' = "rescan" /\ told' = told
    /\ UNCHANGED <<runtime, work, background>>
\* shutdownListeners: no new requests; those in flight are awaited.
StopListeners ==
    /\ place = "listeners"
    /\ place' = "requests"
    /\ UNCHANGED <<runtime, told, work, background>>
RequestsDone ==
    /\ place = "requests"
    /\ work["request"] = "off" \/ Drained
    /\ place' = "rescan"
    /\ UNCHANGED <<runtime, told, work, background>>
\* Mutant of StopRescan: the loop is not awaited.
StopRescanAtOnce ==
    /\ place = "rescan"
    /\ told' = IF "rescan" \in has THEN told \cup {"rescan"} ELSE told
    /\ place' = "node"
    /\ UNCHANGED <<runtime, work, background>>
\* rescan.Close: the loop is awaited if it was started.
StopRescan ==
    /\ place = "rescan"
    /\ told' = IF "rescan" \in has THEN told \cup {"rescan"} ELSE told
    /\ place' = IF loop = "off" THEN "node" ELSE "loop"
    /\ UNCHANGED <<runtime, work, background>>
LoopDone ==
    /\ place = "loop"
    /\ loop = "done" \/ Drained
    /\ place' = "node"
    /\ UNCHANGED <<runtime, told, work, background>>
\* mesh.Close: from here on readers bail out.
StopMesh ==
    /\ place = "node"
    /\ IF "mesh" \in has THEN place' = "node wait" /\ meshCloser' = "closing"
       ELSE place' = "telemetry" /\ UNCHANGED meshCloser
    /\ UNCHANGED <<runtime, told, work, loop, triggers, collector, closer, open, reader>>
MeshDone ==
    /\ place = "node wait"
    /\ meshCloser = "done" \/ Drained
    /\ place' = "telemetry"
    /\ UNCHANGED <<runtime, told, work, background>>
StopTelemetry ==
    /\ place = "telemetry"
    /\ told' = told \cup {"telemetry"} /\ place' = "reconcile"
    /\ UNCHANGED <<runtime, work, background>>
ReconcileDone ==
    /\ place = "reconcile"
    /\ work["reconcile"] = "off" \/ Drained
    /\ place' = "close"
    /\ UNCHANGED <<runtime, told, work, background>>
\* storage.Close: no operation begins any more, and rootCtx is cancelled.
CloseStorage ==
    /\ place = "close"
    /\ IF "storage" \in has
       THEN place' = "storage wait" /\ told' = told \cup {"storage"} /\ closer' = "operations"
       ELSE place' = "logger" /\ UNCHANGED <<told, closer>>
    /\ UNCHANGED <<runtime, work, loop, triggers, collector, open, meshCloser, reader>>
\* Mutant of StorageDone: the databases are awaited without a budget.
StorageDoneUnbounded ==
    /\ place = "storage wait"
    /\ closer = "done"
    /\ place' = "logger"
    /\ UNCHANGED <<runtime, told, work, background>>
StorageDone ==
    /\ place = "storage wait"
    /\ closer = "done" \/ "storage" \in over
    /\ place' = "logger"
    /\ UNCHANGED <<runtime, told, work, background>>
\* The last records are pushed, a bounded number of times; the process ends.
Exit ==
    /\ place = "logger"
    /\ place' = "exited"
    /\ UNCHANGED <<runtime, told, work, background>>

------------------------------------------------------------------------------
(* finishClose, in the background.                                            *)

\* Mutant of Quiet: the collector is not waited for.
QuietOperations == (\A w \in Workers : work[w] # "op") /\ collector # "collect"
Quiet == (\A w \in Workers : work[w] # "op") /\ collector = "done"
OperationsDone ==
    /\ Alive /\ closer = "operations" /\ Quiet
    /\ closer' = "metrics"
    /\ UNCHANGED <<place, runtime, told, work, loop, triggers, collector, open, meshCloser, reader>>
\* The metrics of the storage are unregistered; a collection that is under way
\* holds the lock of the provider.
Unregister ==
    /\ Alive /\ closer = "metrics"
    /\ reader \in {"off", "idle"}
    /\ closer' = "databases"
    /\ UNCHANGED <<place, runtime, told, work, loop, triggers, collector, open, meshCloser, reader>>
CloseDatabase ==
    /\ Alive /\ closer = "databases"
    /\ IF "pebble" \in open THEN open' = open \ {"pebble"} /\ UNCHANGED closer
       ELSE open' = open \ {"index"} /\ closer' = "done"
    /\ UNCHANGED <<place, runtime, told, work, loop, triggers, collector, meshCloser, reader>>

\* The teardown of the node takes the lock that readers share.
CloseNode ==
    /\ Alive /\ meshCloser = "closing"
    /\ reader # "node"
    /\ meshCloser' = "done" /\ open' = open \ {"node"}
    /\ UNCHANGED <<place, runtime, told, work, loop, triggers, collector, closer, reader>>

------------------------------------------------------------------------------
(* The work that goes on.                                                     *)

Serving == place \in {"ready", "shutdown", "listeners"} /\ loop # "off"
RequestArrives ==
    /\ Serving /\ "request" \in life.works
    /\ work["request"] = "off"
    /\ work' = [work EXCEPT !["request"] = "on"]
    /\ UNCHANGED <<place, runtime, told, background>>
\* registerConn refuses a session once the sessions are told to stop.
SessionBegins ==
    /\ Serving /\ "session" \in life.works /\ "sessions" \notin told
    /\ work["session"] = "off"
    /\ work' = [work EXCEPT !["session"] = "on"]
    /\ UNCHANGED <<place, runtime, told, background>>
\* beginOperation.  A publish that cannot free enough triggers the collector.
BeginOperation(w) ==
    /\ Alive /\ work[w] = "on"
    /\ "storage" \notin told
    /\ work' = [work EXCEPT ![w] = "op"]
    /\ triggers' \in {triggers, triggers \cup {"gc"}}
    /\ UNCHANGED <<place, runtime, told, loop, collector, closer, open, meshCloser, reader>>
EndOperation(w) ==
    /\ Alive /\ work[w] = "op"
    /\ work' = [work EXCEPT ![w] = "on"]
    /\ UNCHANGED <<place, runtime, told, background>>
\* The request is answered, the connection is closed, the reconcile ends.
EndWork(w) ==
    /\ Alive /\ w # "cycle" /\ work[w] = "on"
    /\ work' = [work EXCEPT ![w] = "off"]
    /\ UNCHANGED <<place, runtime, told, background>>

\* runLoop: a tick or the trigger, also when both it and the end are ready.
CycleTick ==
    /\ Alive /\ loop = "idle"
    /\ loop' = "cycle" /\ work' = [work EXCEPT !["cycle"] = "on"]
    /\ UNCHANGED <<place, runtime, told, triggers, collector, closer, open, meshCloser, reader>>
CycleTrigger ==
    /\ Alive /\ loop = "idle" /\ "cycle" \in triggers
    /\ loop' = "cycle" /\ work' = [work EXCEPT !["cycle"] = "on"] /\ triggers' = triggers \ {"cycle"}
    /\ UNCHANGED <<place, runtime, told, collector, closer, open, meshCloser, reader>>
\* All keys are done, or were not begun because the cycle is cancelled.
CycleEnds ==
    /\ Alive /\ loop = "cycle" /\ work["cycle"] = "on"
    /\ loop' = "idle" /\ work' = [work EXCEPT !["cycle"] = "off"]
    /\ UNCHANGED <<place, runtime, told, triggers, collector, closer, open, meshCloser, reader>>
LoopEnds ==
    /\ Alive /\ loop = "idle" /\ "rescan" \in told
    /\ loop' = "done"
    /\ UNCHANGED <<place, runtime, told, work, triggers, collector, closer, open, meshCloser, reader>>

\* runDurableGCLoop: the collection is an operation, the pruning of the
\* publish history is not.
Collect(taken) ==
    /\ collector' = IF "storage" \in told THEN "prune" ELSE "collect"
    /\ triggers' = triggers \ taken
    /\ UNCHANGED <<place, runtime, told, work, loop, closer, open, meshCloser, reader>>
CollectorTick == Alive /\ collector = "idle" /\ Collect({})
CollectorTrigger == Alive /\ collector = "idle" /\ "gc" \in triggers /\ Collect({"gc"})
\* Mutant of CollectorStep: a collection that fails ends the loop.
CollectorStepReturns ==
    /\ Alive /\ collector \in {"collect", "prune"}
    /\ collector' \in IF collector = "collect" THEN {"prune", "done"} ELSE {"idle"}
    /\ UNCHANGED <<place, runtime, told, work, loop, triggers, closer, open, meshCloser, reader>>
CollectorStep ==
    /\ Alive /\ collector \in {"collect", "prune"}
    /\ collector' = IF collector = "collect" THEN "prune" ELSE "idle"
    /\ UNCHANGED <<place, runtime, told, work, loop, triggers, closer, open, meshCloser, reader>>
CollectorEnds ==
    /\ Alive /\ collector = "idle" /\ "storage" \in told
    /\ collector' = "done"
    /\ UNCHANGED <<place, runtime, told, work, loop, triggers, closer, open, meshCloser, reader>>

\* A collection of metrics: the statistics of Pebble while they are
\* registered, then those of the node, which is looked at twice: before the
\* lock and under it.
CollectMetrics ==
    /\ Alive /\ reader = "idle" /\ "telemetry" \notin told
    /\ reader' = IF closer \in {"databases", "done"} THEN "storage done" ELSE "storage"
    /\ UNCHANGED <<place, runtime, told, work, loop, triggers, collector, closer, open, meshCloser>>
ReadStorage ==
    /\ Alive /\ reader = "storage"
    /\ reader' = "storage done"
    /\ UNCHANGED <<place, runtime, told, work, loop, triggers, collector, closer, open, meshCloser>>
CheckNode ==
    /\ Alive /\ reader = "storage done"
    /\ reader' = IF meshCloser = "off" THEN "checked" ELSE "idle"
    /\ UNCHANGED <<place, runtime, told, work, loop, triggers, collector, closer, open, meshCloser>>
LockNode ==
    /\ Alive /\ reader = "checked"
    /\ reader' = IF meshCloser = "off" THEN "node" ELSE "idle"
    /\ UNCHANGED <<place, runtime, told, work, loop, triggers, collector, closer, open, meshCloser>>
ReadNode ==
    /\ Alive /\ reader = "node"
    /\ reader' = "idle"
    /\ UNCHANGED <<place, runtime, told, work, loop, triggers, collector, closer, open, meshCloser>>

------------------------------------------------------------------------------
Starting ==
    \/ OpenStorage \/ OpenStorageFails
    \/ Recover \/ RecoverFails \/ RecoverClosed
    \/ StartMesh \/ BuildServer \/ StartTelemetry
    \/ StartListeners \/ StartListenersFails
Stopping ==
    \/ Stop \/ StopSessions \/ StopListeners \/ RequestsDone \/ StopRescan \/ LoopDone
    \/ StopMesh \/ MeshDone \/ StopTelemetry \/ ReconcileDone
    \/ CloseStorage \/ StorageDone \/ Exit
Budgets == DrainOver \/ StorageOver
Closing == OperationsDone \/ Unregister \/ CloseDatabase \/ CloseNode
Reading == CollectMetrics \/ ReadStorage \/ CheckNode \/ LockNode \/ ReadNode
Ending == \E w \in Workers : EndOperation(w) \/ EndWork(w)

Next ==
    \/ Starting \/ Signal \/ Stopping \/ Budgets \/ Closing
    \/ RequestArrives \/ SessionBegins
    \/ \E w \in Workers : BeginOperation(w)
    \/ Ending
    \/ CycleTick \/ CycleTrigger \/ CycleEnds \/ LoopEnds
    \/ CollectorTick \/ CollectorTrigger \/ CollectorStep \/ CollectorEnds
    \/ Reading

Spec == Init /\ [][Next]_vars

\* Goroutines run, budgets end, and so does work unless it hangs; a select
\* whose trigger is ready again and again takes it in the end.
Fairness ==
    /\ WF_vars(Starting \/ Stopping) /\ WF_vars(Budgets)
    /\ WF_vars(CollectorStep) /\ SF_vars(CollectorTrigger) /\ SF_vars(CycleTrigger)
    /\ \A w \in Workers : WF_vars(~ life.hangs /\ EndOperation(w))
    /\ SF_vars(~ life.hangs /\ CycleEnds)
FairSpec == Spec /\ Fairness

------------------------------------------------------------------------------
\* Nobody uses a database or the node after it was closed, although Close
\* gives up waiting, the collector prunes outside of an operation, and metrics
\* are collected to the end ("The write lock first drains in-flight metrics
\* readers, then covers teardown itself", mod/mesh/obj.go:298).
OpenInUse ==
    Alive =>
    /\ (\E w \in Workers : work[w] = "op") \/ collector = "collect" => {"pebble", "index"} \subseteq open
    /\ collector = "prune" => "index" \in open
    /\ reader = "storage" => "pebble" \in open
    /\ reader = "node" => "node" \in open

\* A process that had its storage and kept to its budgets ends with nothing
\* under way: no request, cycle or reconcile, and the databases closed.  A
\* session may be left, but in no operation.
OrderlyExit ==
    place = "exited" /\ "storage" \in has /\ over = {} =>
        /\ work["request"] = "off" /\ work["cycle"] = "off" /\ work["reconcile"] = "off"
        /\ work["session"] # "op"
        /\ loop \in {"off", "done"} /\ collector = "done"
        /\ open = {}

\* After a signal the process ends, whatever hangs.
SignalEnds == signal ~> place = "exited"

\* A trigger is not lost: also one that comes while its loop is busy is
\* followed by a cycle, or a collection, that begins after it, unless the
\* process is to stop.
TriggersServed ==
    /\ (~ life.hangs /\ "cycle" \in triggers) ~> ("cycle" \notin triggers \/ "rescan" \in told \/ ~ Alive)
    /\ (~ life.hangs /\ "gc" \in triggers) ~> ("gc" \notin triggers \/ "storage" \in told \/ ~ Alive)
==============================================================================
