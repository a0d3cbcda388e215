------------------------------ MODULE BridgeManager ------------------------------
(***************************************************************************)
(* The lifecycle of a remote control bridge: BridgeManager with its worker *)
(* threads, their reconnect loop, and the pointer files that let another   *)
(* process continue the bridge.                                            *)
(*                                                                         *)
(* The callers are threads (in the REPL the UI thread starts and stops,    *)
(* and the engine thread asks for the status).  A call takes the lock of   *)
(* the state several times; between two of its steps other threads run.    *)
(* A connection is a number that stands for its bridge_session_id and      *)
(* environment_id.  Time is counted in units of the reconnect delays.      *)
(***************************************************************************)
EXTENDS Naturals, Selection, SequencesExt, FiniteSets

CONSTANTS
    Callers,            \* the threads that hold the controller
    Operations,         \* Operations[c]: what caller c calls
    Roots,              \* the project and its worktrees, each with its own pointer file
    Main,               \* the project's root
    FanoutLimit,        \* the pointer files that are looked at
    InitialDelay, MaxDelay, GiveUpAfter,        \* ReconnectPolicy
    MaxCalls,           \* bound: calls
    MaxWorkers,         \* bound: workers started
    MaxConnections,     \* bound: connections made
    MaxMoves,           \* bound: changes of the active root
    MaxRestarts         \* bound: restarts of the process

AllOperations == {"start", "stop", "status", "wait"}

ASSUME BridgeAssumption ==
    /\ Operations \in [Callers -> SUBSET AllOperations]
    /\ Main \in Roots
    /\ {FanoutLimit, InitialDelay, MaxDelay, GiveUpAfter} \subseteq Nat \ {0}
    /\ {MaxCalls, MaxWorkers, MaxConnections, MaxMoves, MaxRestarts} \subseteq Nat

\* Who starts and stops bridges: the UI thread of the REPL, or the main thread of remote-control.
Controllers == {c \in Callers : Operations[c] \cap {"start", "stop"} # {}}

ASSUME ControllerAssumption == \A c, d \in Controllers : c = d

Workers == 1 .. MaxWorkers
Connections == 1 .. MaxConnections      \* 0 stands for no connection and for an invalid pointer

VARIABLES
    status,             \* BridgeStatusSnapshot
    slot,               \* BridgeManagerState.worker, 0 for None
    workers,            \* the worker threads
    callers,            \* the calls in progress
    pointers,           \* the pointer files, latest first
    root,               \* active_project_root of the runtime
    worktrees,          \* the roots: none, there, removed (the branch is left)
    calls, spawned, connected, moves, restarts,     \* counters
    stolen,             \* history: a cleanup took a worker that had not finished
    unsaved             \* history: saving a pointer failed, or a pointer expired

bounds == <<calls, moves, restarts>>
threadVars == <<status, slot, workers, callers, spawned, connected, stolen>>
bridgeVars == <<threadVars, pointers, root, worktrees, bounds, unsaved>>

States == {"Ready", "Connected", "Reconnecting", "Failed", "Stopped"}
Terminal == {"Ready", "Failed", "Stopped"}
Status == [state : States, connection : 0 .. MaxConnections]
StatusOf(state, connection) == [state |-> state, connection |-> connection]

LongestDelay == IF InitialDelay < MaxDelay THEN MaxDelay ELSE InitialDelay

\* first: the connection captured in stop_status.  path: pointer_path at the start.
Worker == [phase : {"unborn", "pumping", "backoff", "done"}, connection : 0 .. MaxConnections,
           first : 0 .. MaxConnections, path : Roots, stop : BOOLEAN,
           delay : 0 .. LongestDelay, elapsed : Nat]

Unborn == [phase |-> "unborn", connection |-> 0, first |-> 0, path |-> Main, stop |-> FALSE,
           delay |-> 0, elapsed |-> 0]
Ended(worker) == [Unborn EXCEPT !.phase = "done", !.path = worker.path]

Steps == {"cleanup", "take", "join", "act", "connect", "publish", "stopJoin", "write"}
\* worker: the one a join waits for, or the one to publish.  seen: the connection of a status read.
Caller == [op : AllOperations \cup {"none", "stopNothing"}, step : Steps,
           worker : 0 .. MaxWorkers, seen : 0 .. MaxConnections]
Returned == [op |-> "none", step |-> "cleanup", worker |-> 0, seen |-> 0]

Pointer == [root : Roots, connection : 0 .. MaxConnections, stale : BOOLEAN]

BridgeInit ==
    /\ status = StatusOf("Ready", 0)
    /\ slot = 0
    /\ root = Main
    /\ worktrees = [r \in Roots |-> IF r = Main THEN "there" ELSE "none"]
    /\ workers = [w \in Workers |-> Unborn]
    /\ callers = [c \in Callers |-> Returned]
    /\ pointers = <<>>
    /\ calls = 0 /\ spawned = 0 /\ connected = 0 /\ moves = 0 /\ restarts = 0
    /\ stolen = FALSE
    /\ unsaved = FALSE

Live == {w \in Workers : workers[w].phase \in {"pumping", "backoff"}}

--------------------------------------------------------------------------------
(***************************************************************************)
(* The pointer store.                                                      *)
(***************************************************************************)

PointersIn(roots) ==
    Selected(pointers, [root : roots, connection : 0 .. MaxConnections, stale : BOOLEAN])

Elsewhere(here) == PointersIn(Roots \ {here})

\* BridgePointerStore::save writes to the directory of the current active root.
Saved(connection) ==
    <<[root |-> root, connection |-> connection, stale |-> FALSE]>>
        \o Elsewhere(root)

\* The pointer of a new connection is saved, or its file is left alone or broken by a failed write.
PointerSaved(connection) ==
    /\ pointers' = Saved(connection)
    /\ UNCHANGED unsaved
PointerNotSaved ==
    /\ pointers' \in {pointers, Saved(0)}
    /\ unsaved' = TRUE

\* pointer_files_in_scope, for a process that starts at the project's root: that root and the
\* worktrees git lists, the latest FanoutLimit files.
Listed == {r \in Roots : worktrees[r] = "there"}
InScope ==
    LET listed == PointersIn(Listed)
    IN  SubSeq(listed, 1, IF Len(listed) < FanoutLimit THEN Len(listed) ELSE FanoutLimit)

Valid(p) == p.connection # 0 /\ ~ p.stale
FirstValid == SelectInSeq(InScope, Valid)

\* The roots whose pointers resolve_continue reads in vain.
InVain ==
    {InScope[i].root : i \in 1 .. (IF FirstValid = 0 THEN Len(InScope) ELSE FirstValid - 1)}

\* resolve_continue in a new process: the files read in vain are removed.
ResolveContinue ==
    /\ \A c \in Callers : callers[c] = Returned
    /\ status.state = "Ready"
    /\ pointers' = PointersIn(Roots \ InVain)
    /\ UNCHANGED <<threadVars, root, worktrees, bounds, unsaved>>

\* BRIDGE_POINTER_TTL passes for the older files.
PointersExpire ==
    /\ \E i \in 1 .. Len(pointers) :
        /\ ~ pointers[i].stale
        /\ pointers' = [j \in 1 .. Len(pointers) |->
                          [pointers[j] EXCEPT !.stale = @ \/ j >= i]]
    /\ unsaved' = TRUE
    /\ UNCHANGED <<threadVars, root, worktrees, bounds>>

RuntimeMoves ==
    /\ moves < MaxMoves
    /\ moves' = moves + 1
    /\ UNCHANGED <<threadVars, pointers, calls, restarts, unsaved>>

\* git refuses a branch that exists.
EnterWorktree ==
    /\ RuntimeMoves
    /\ \E r \in Roots :
        /\ worktrees[r] = "none"
        /\ worktrees' = [worktrees EXCEPT ![r] = "there"]
        /\ root' = r

\* Keep, or Remove: its pointer file stays, but the worktree is listed no longer.
ExitWorktree ==
    /\ RuntimeMoves
    /\ root # Main
    /\ root' = Main
    /\ \/ UNCHANGED worktrees
       \/ /\ root \in Listed
          /\ worktrees' = [worktrees EXCEPT ![root] = "removed"]

\* /resume takes over the root of a session; its worktree may have been removed since.
RuntimeRestored ==
    /\ RuntimeMoves
    /\ root' \in {r \in Roots \ {root} : worktrees[r] # "none"}
    /\ UNCHANGED worktrees

\* The process ends and another one starts, with a session of any root: only the files are left.
ProcessRestarts ==
    /\ restarts < MaxRestarts
    /\ restarts' = restarts + 1
    /\ status' = StatusOf("Ready", 0)
    /\ slot' = 0
    /\ workers' = [w \in Workers |-> IF w > spawned THEN Unborn ELSE Ended(workers[w])]
    /\ callers' = [c \in Callers |-> Returned]
    /\ root' \in {r \in Roots : worktrees[r] # "none"}
    /\ stolen' = FALSE
    /\ UNCHANGED <<pointers, worktrees, calls, moves, spawned, connected, unsaved>>

--------------------------------------------------------------------------------
(***************************************************************************)
(* The callers.                                                            *)
(***************************************************************************)

At(c, step) == callers[c].op # "none" /\ callers[c].step = step
Acting(c, op) == callers[c].op = op /\ callers[c].step = "act"
Goes(c, step) == callers' = [callers EXCEPT ![c].step = step]
Returns(c) == callers' = [callers EXCEPT ![c] = Returned]

Call(c) ==
    /\ callers[c] = Returned
    /\ calls < MaxCalls
    /\ calls' = calls + 1
    /\ \E op \in Operations[c] : callers' = [callers EXCEPT ![c].op = op]
    /\ UNCHANGED <<status, slot, workers, spawned, connected, stolen, pointers, root, worktrees,
                   moves, restarts, unsaved>>

callerFrame == <<spawned, connected, root, worktrees, bounds, unsaved>>

\* cleanup_finished_worker looks at the worker under the lock ...
LookForFinished(c) ==
    /\ At(c, "cleanup")
    /\ Goes(c, IF slot # 0 /\ workers[slot].phase = "done" THEN "take" ELSE "act")
    /\ UNCHANGED <<status, slot, workers, stolen, pointers, callerFrame>>

\* ... and takes whatever worker is there when it has the lock again.
TakeWorker(c) ==
    /\ At(c, "take")
    /\ slot' = 0
    /\ callers' = [callers EXCEPT ![c] = [@ EXCEPT !.worker = slot, !.step = "join"]]
    /\ stolen' = (stolen \/ slot \in Live)
    /\ UNCHANGED <<status, workers, pointers, callerFrame>>

JoinReturns(c) ==
    /\ At(c, "join")
    /\ callers[c].worker \notin Live
    /\ callers' = [callers EXCEPT ![c] = [@ EXCEPT !.worker = 0, !.step = "act"]]
    /\ UNCHANGED <<status, slot, workers, stolen, pointers, callerFrame>>

ReadStatus(c) ==
    /\ At(c, "act")
    /\ \/ callers[c].op = "status" /\ Returns(c)
       \/ callers[c].op = "wait" /\ status.state \in Terminal /\ Returns(c)
       \/ callers[c].op = "wait" /\ status.state \notin Terminal /\ Goes(c, "cleanup")
       \/ /\ callers[c].op = "stopNothing"
          /\ callers' = [callers EXCEPT ![c] = [@ EXCEPT !.seen = status.connection,
                                                         !.step = "write"]]
    /\ UNCHANGED <<status, slot, workers, stolen, pointers, callerFrame>>

\* Mutant: a second start does not look for the first one's worker.
StartAlwaysConnects(c) ==
    /\ Acting(c, "start")
    /\ Goes(c, "connect")
    /\ UNCHANGED <<status, slot, workers, stolen, pointers, callerFrame>>

StartLooks(c) ==
    /\ Acting(c, "start")
    /\ IF slot # 0 THEN Returns(c) ELSE Goes(c, "connect")
    /\ UNCHANGED <<status, slot, workers, stolen, pointers, callerFrame>>

\* The connector fails, or the pointer of the new session cannot be saved.
StartFails(c) ==
    /\ At(c, "connect")
    /\ Returns(c)
    /\ \/ UNCHANGED <<pointers, unsaved>>
       \/ PointerNotSaved
    /\ UNCHANGED <<status, slot, workers, stolen, spawned, connected, root, worktrees, bounds>>

\* The pointer is saved, the status set and the thread runs; its handle is not yet in the state.
StartConnects(c) ==
    LET w == spawned + 1
        connection == connected + 1 IN
    /\ At(c, "connect")
    /\ w \in Workers /\ connection \in Connections
    /\ spawned' = w /\ connected' = connection
    /\ PointerSaved(connection)
    /\ status' = StatusOf("Connected", connection)
    /\ workers' = [workers EXCEPT ![w] = [@ EXCEPT !.phase = "pumping", !.connection = connection,
                                                    !.first = connection, !.path = root]]
    /\ callers' = [callers EXCEPT ![c] = [@ EXCEPT !.worker = w, !.step = "publish"]]
    /\ UNCHANGED <<slot, stolen, root, worktrees, bounds>>

StartPublishes(c) ==
    /\ At(c, "publish")
    /\ slot' = callers[c].worker
    /\ Returns(c)
    /\ UNCHANGED <<status, workers, stolen, pointers, callerFrame>>

\* Mutant: the worker is taken and joined without a stop message.
StopTakesSilently(c) ==
    /\ Acting(c, "stop")
    /\ slot # 0
    /\ slot' = 0
    /\ callers' = [callers EXCEPT ![c] = [@ EXCEPT !.worker = slot, !.step = "stopJoin"]]
    /\ UNCHANGED <<status, workers, stolen, pointers, callerFrame>>

StopTakes(c) ==
    /\ Acting(c, "stop")
    /\ slot # 0
    /\ slot' = 0
    /\ workers' = [workers EXCEPT ![slot].stop = TRUE]
    /\ callers' = [callers EXCEPT ![c] = [@ EXCEPT !.worker = slot, !.step = "stopJoin"]]
    /\ UNCHANGED <<status, stolen, pointers, callerFrame>>

\* After the join stop removes the pointer it saved at the start and asks for the status.
StopJoins(c) ==
    /\ At(c, "stopJoin")
    /\ callers[c].worker \notin Live
    /\ pointers' = Elsewhere(workers[callers[c].worker].path)
    /\ callers' = [callers EXCEPT ![c] = [Returned EXCEPT !.op = "status"]]
    /\ UNCHANGED <<status, slot, workers, stolen, callerFrame>>

StopFindsNothing(c) ==
    /\ Acting(c, "stop")
    /\ slot = 0
    /\ callers' = [callers EXCEPT ![c] = [Returned EXCEPT !.op = "stopNothing"]]
    /\ UNCHANGED <<status, slot, workers, stolen, pointers, callerFrame>>

\* The status it read, as Stopped.
StopWritesStatus(c) ==
    /\ At(c, "write")
    /\ status' = StatusOf("Stopped", callers[c].seen)
    /\ Returns(c)
    /\ UNCHANGED <<slot, workers, stolen, pointers, callerFrame>>

CallerStep(c) ==
    \/ LookForFinished(c) \/ TakeWorker(c) \/ JoinReturns(c) \/ ReadStatus(c)
    \/ StartLooks(c) \/ StartFails(c) \/ StartConnects(c) \/ StartPublishes(c)
    \/ StopTakes(c) \/ StopJoins(c) \/ StopFindsNothing(c) \/ StopWritesStatus(c)

--------------------------------------------------------------------------------
(***************************************************************************)
(* The worker threads.                                                     *)
(***************************************************************************)

workerFrame == <<slot, callers, spawned, root, worktrees, bounds, stolen>>

\* The last thing a thread does before it ends is to write the status.
Done(w, state) ==
    /\ workers' = [workers EXCEPT ![w] = Ended(@)]
    /\ status' = StatusOf(state, workers[w].first)

\* The stop message arrives in pump_transport or while the worker waits to reconnect.
WorkerStops(w) ==
    /\ w \in Live
    /\ workers[w].stop
    /\ workers[w].phase = "backoff" => workers[w].elapsed < GiveUpAfter
    /\ Done(w, "Stopped")
    /\ UNCHANGED <<connected, pointers, unsaved, workerFrame>>

\* The host refuses an input.
WorkerFails(w) ==
    /\ workers[w].phase = "pumping"
    /\ Done(w, "Failed")
    /\ UNCHANGED <<connected, pointers, unsaved, workerFrame>>

\* The transport is lost; the status shows the ids of the first connection.
WorkerDisconnects(w) ==
    /\ workers[w].phase = "pumping"
    /\ workers' = [workers EXCEPT ![w] = [@ EXCEPT !.phase = "backoff", !.delay = InitialDelay,
                                                    !.elapsed = 0, !.connection = 0]]
    /\ status' = StatusOf(IF 0 < GiveUpAfter THEN "Reconnecting" ELSE status.state,
                          IF 0 < GiveUpAfter THEN workers[w].first ELSE status.connection)
    /\ UNCHANGED <<connected, pointers, unsaved, workerFrame>>

Waited(w) == workers[w].elapsed + workers[w].delay
Doubled(w) == 2 * workers[w].delay

\* Mutant: the status after a reconnect shows the ids of the first connection.
WorkerReconnectsAsFirst(w) ==
    /\ workers[w].phase = "backoff"
    /\ workers[w].elapsed < GiveUpAfter
    /\ connected < MaxConnections
    /\ connected' = connected + 1
    /\ PointerSaved(connected + 1) \/ PointerNotSaved
    /\ workers' = [workers EXCEPT ![w] = [@ EXCEPT !.phase = "pumping", !.connection = connected + 1,
                                                    !.delay = 0, !.elapsed = 0]]
    /\ status' = StatusOf("Connected", workers[w].first)
    /\ UNCHANGED workerFrame

\* Mutant: a reconnect saves no pointer for its session.
WorkerReconnectsUnsaved(w) ==
    /\ workers[w].phase = "backoff"
    /\ workers[w].elapsed < GiveUpAfter
    /\ connected < MaxConnections
    /\ connected' = connected + 1
    /\ workers' = [workers EXCEPT ![w] = [@ EXCEPT !.phase = "pumping", !.connection = connected + 1,
                                                    !.delay = 0, !.elapsed = 0]]
    /\ status' = StatusOf("Connected", connected + 1)
    /\ UNCHANGED <<pointers, unsaved, workerFrame>>

\* The delay passes and the connector is tried: a new session, and a new pointer if it can be saved.
WorkerReconnects(w) ==
    /\ workers[w].phase = "backoff"
    /\ workers[w].elapsed < GiveUpAfter
    /\ connected < MaxConnections
    /\ connected' = connected + 1
    /\ PointerSaved(connected + 1) \/ PointerNotSaved
    /\ workers' = [workers EXCEPT ![w] = [@ EXCEPT !.phase = "pumping", !.connection = connected + 1,
                                                    !.delay = 0, !.elapsed = 0]]
    /\ status' = StatusOf("Connected", connected + 1)
    /\ UNCHANGED workerFrame

\* Mutant: the delay doubles without a limit.
WorkerRetriesUncapped(w) ==
    /\ workers[w].phase = "backoff"
    /\ workers[w].elapsed < GiveUpAfter
    /\ workers' = [workers EXCEPT ![w] = [@ EXCEPT !.elapsed = Waited(w), !.delay = Doubled(w)]]
    /\ status' = IF Waited(w) < GiveUpAfter
                 THEN StatusOf("Reconnecting", workers[w].first) ELSE status
    /\ UNCHANGED <<connected, pointers, unsaved, workerFrame>>

WorkerRetries(w) ==
    /\ workers[w].phase = "backoff"
    /\ workers[w].elapsed < GiveUpAfter
    /\ workers' = [workers EXCEPT ![w] = [@ EXCEPT !.elapsed = Waited(w),
                     !.delay = IF Doubled(w) < MaxDelay THEN Doubled(w) ELSE MaxDelay]]
    /\ status' = IF Waited(w) < GiveUpAfter
                 THEN StatusOf("Reconnecting", workers[w].first) ELSE status
    /\ UNCHANGED <<connected, pointers, unsaved, workerFrame>>

WorkerGivesUp(w) ==
    /\ workers[w].phase = "backoff"
    /\ workers[w].elapsed >= GiveUpAfter
    /\ Done(w, "Failed")
    /\ UNCHANGED <<connected, pointers, unsaved, workerFrame>>

WorkerStep(w) ==
    \/ WorkerStops(w) \/ WorkerFails(w) \/ WorkerDisconnects(w) \/ WorkerReconnects(w)
    \/ WorkerRetries(w) \/ WorkerGivesUp(w)

BridgeNext ==
    \/ \E c \in Callers : Call(c) \/ CallerStep(c)
    \/ \E w \in Workers : WorkerStep(w)
    \/ ResolveContinue \/ PointersExpire \/ ProcessRestarts
    \/ EnterWorktree \/ ExitWorktree \/ RuntimeRestored

\* A thread that can go on does; pump_transport and the reconnect loop look for the stop message
\* again and again, and the waits of the reconnect loop are bounded.
BridgeSpec ==
    /\ BridgeInit /\ [][BridgeNext]_bridgeVars
    /\ \A c \in Callers : WF_bridgeVars(CallerStep(c))
    /\ \A w \in Workers : WF_bridgeVars(WorkerStops(w))
    /\ \A w \in Workers : WF_bridgeVars(WorkerRetries(w) \/ WorkerGivesUp(w))

--------------------------------------------------------------------------------
(***************************************************************************)
(* Properties.                                                             *)
(***************************************************************************)

\* Type invariant.
BridgeTypeOK ==
    /\ status \in Status
    /\ slot \in 0 .. spawned
    /\ workers \in [Workers -> Worker]
    /\ callers \in [Callers -> Caller]
    /\ \A c \in Callers : callers[c].worker \in 0 .. spawned
    /\ pointers \in Seq(Pointer)
    /\ worktrees \in [Roots -> {"none", "there", "removed"}]
    /\ root \in Roots /\ worktrees[root] # "none" /\ worktrees[Main] = "there"
    /\ spawned \in 0 .. MaxWorkers /\ connected \in 0 .. MaxConnections
    /\ calls \in 0 .. MaxCalls /\ moves \in 0 .. MaxMoves /\ restarts \in 0 .. MaxRestarts
    /\ stolen \in BOOLEAN /\ unsaved \in BOOLEAN

\* A running worker can be reached: it is in the state, about to be put there, or a caller that
\* took it waits for its end.  No handle is dropped while the thread runs.
LiveWorkersAreOwned ==
    \A w \in Live : w = slot \/ \E c \in Callers : callers[c].worker = w

\* As long as no cleanup took a running worker, a second start reuses the first one: there is
\* never more than one, and the status is Connected just while it has a transport.
OneBridgeAtATime ==
    ~ stolen =>
        /\ Cardinality(Live) <= 1
        /\ status.state = "Connected" <=> \E w \in Live : workers[w].phase = "pumping"
        /\ \A w \in Live : workers[w].phase = "pumping" => status.connection = workers[w].connection

\* If the process dies while its only bridge is connected, the pointer of that connection is the
\* latest file, also after reconnects and worktree changes, and `--continue` finds it first: unless
\* a pointer could not be saved or expired, or the worktree it was saved for has been removed.
PointerNamesTheConnection ==
    ~ stolen /\ ~ unsaved =>
        \A w \in Live : workers[w].phase = "pumping" =>
            /\ pointers # <<>>
            /\ pointers[1].connection = workers[w].connection
            /\ pointers[1].root \in Listed =>
                /\ FirstValid # 0
                /\ InScope[FirstValid].connection = workers[w].connection

\* A stop returns: the worker it waits for sees the message while it pumps and while it waits to
\* reconnect, whoever else joins workers at the same time.  And a bridge that lost its transport is
\* connected again or gives up.
BridgeSettles ==
    /\ \A c \in Controllers :
         callers[c].op \in {"stop", "stopNothing"} ~> callers[c].op \notin {"stop", "stopNothing"}
    /\ \A w \in Workers : workers[w].phase = "backoff" ~> workers[w].phase # "backoff"
=============================================================================
