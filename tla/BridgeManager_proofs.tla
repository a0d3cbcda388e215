-------------------------- MODULE BridgeManager_proofs --------------------------
(***************************************************************************)
(* Proofs about BridgeManager, for any number of callers, workers,         *)
(* connections, calls, moves and restarts, and any reconnect policy.       *)
(***************************************************************************)
EXTENDS BridgeManager, Selection_proofs, FiniteSetTheorems, TLAPS

(***************************************************************************)
(* The inductive invariant.                                                *)
(***************************************************************************)

\* What the threads share and hold is of its type.
ThreadTypes ==
    /\ status \in Status
    /\ slot \in 0 .. spawned
    /\ workers \in [Workers -> Worker]
    /\ callers \in [Callers -> Caller]
    /\ \A c \in Callers : callers[c].worker \in 0 .. spawned
    /\ root \in Roots
    /\ spawned \in 0 .. MaxWorkers /\ connected \in 0 .. MaxConnections
    /\ stolen \in BOOLEAN

ControllerSteps == {"connect", "publish", "stopJoin", "write"}
ControllerOps == {"start", "stop", "stopNothing"}

\* Only the controller starts and stops; a call holds a worker only where it joins or publishes
\* it; and nobody is in the slot while the controller starts a worker.
CallsInOrder ==
    \A c \in Callers :
        /\ callers[c].step \in ControllerSteps \/ callers[c].op \in ControllerOps => c \in Controllers
        /\ callers[c].worker # 0 => callers[c].step \in {"join", "publish", "stopJoin"}
        /\ callers[c].step \in {"connect", "publish"} => callers[c].op = "start" /\ slot = 0
        /\ callers[c].step = "write" => callers[c].op = "stopNothing"

\* As long as nothing was stolen, a running worker is in the slot or in the controller's hands,
\* there is no second one, and the controller connects only when there is none.
OneWorker ==
    /\ \A w \in Live :
        w = slot \/ \E c \in Callers : /\ callers[c].worker = w
                                       /\ callers[c].step \in {"publish", "stopJoin"}
    /\ \A v, w \in Live : v = w
    /\ \A c \in Callers :
        callers[c].step = "connect" \/ callers[c].op = "stopNothing" => Live = {}

StatusIsOfTheWorker ==
    /\ status.state = "Connected" <=> \E w \in Live : workers[w].phase = "pumping"
    /\ \A w \in Live : workers[w].phase = "pumping" => status.connection = workers[w].connection

BridgeInvariant ==
    /\ ThreadTypes
    /\ CallsInOrder
    /\ LiveWorkersAreOwned
    /\ ~ stolen => OneWorker /\ StatusIsOfTheWorker

--------------------------------------------------------------------------------

\* The runtime goes from one root to another.
RootMoves == EnterWorktree \/ ExitWorktree \/ RuntimeRestored

LEMMA MovedRoot ==
    ASSUME RootMoves
    PROVE  /\ UNCHANGED <<threadVars, pointers, calls, restarts, unsaved>>
           /\ moves < MaxMoves /\ moves' = moves + 1
           /\ root' \in Roots
    BY BridgeAssumption DEF RootMoves, EnterWorktree, ExitWorktree, RuntimeRestored, RuntimeMoves

LEMMA DelayFacts ==
    /\ LongestDelay \in Nat
    /\ 0 \in 0 .. LongestDelay /\ InitialDelay \in 0 .. LongestDelay /\ MaxDelay \in 0 .. LongestDelay
    BY BridgeAssumption DEF LongestDelay

LEMMA BoundFacts ==
    /\ MaxWorkers \in Nat /\ MaxConnections \in Nat
    /\ 0 \in 0 .. MaxWorkers /\ 0 \in 0 .. MaxConnections
    /\ Main \in Roots
    BY BridgeAssumption

LEMMA ConstantRecords ==
    /\ Unborn \in Worker
    /\ Returned \in Caller
    /\ \A v \in Worker : Ended(v) \in Worker /\ Ended(v).phase = "done"
<1>1. Unborn \in Worker
    BY BoundFacts, DelayFacts DEF Unborn, Worker
<1>2. Returned \in Caller
    BY BoundFacts DEF Returned, Caller, Steps
<1>3. ASSUME NEW v \in Worker PROVE Ended(v) \in Worker /\ Ended(v).phase = "done"
    <2>1. v.path \in Roots
        BY DEF Worker
    <2> QED
        BY <1>1, <2>1 DEF Ended, Worker
<1> QED
    BY <1>1, <1>2, <1>3

LEMMA BridgeInvariantInit == BridgeInit => BridgeInvariant
<1> SUFFICES ASSUME BridgeInit PROVE BridgeInvariant
    OBVIOUS
<1>1. ThreadTypes
    <2>1. status \in Status
        BY BoundFacts DEF BridgeInit, Status, States, StatusOf
    <2>2. workers \in [Workers -> Worker] /\ callers \in [Callers -> Caller]
        BY ConstantRecords DEF BridgeInit
    <2>3. \A c \in Callers : callers[c].worker = 0
        BY DEF BridgeInit, Returned
    <2>4. slot = 0 /\ spawned = 0 /\ connected = 0 /\ root = Main /\ stolen = FALSE
        BY DEF BridgeInit
    <2>5. 0 \in 0 .. 0
        OBVIOUS
    <2> QED
        BY <2>1, <2>2, <2>3, <2>4, <2>5, BoundFacts DEF ThreadTypes
<1>2. Live = {}
    BY DEF BridgeInit, Live, Unborn
<1>3. CallsInOrder
    BY DEF BridgeInit, CallsInOrder, Returned, ControllerSteps, ControllerOps
<1>4. OneWorker /\ StatusIsOfTheWorker /\ LiveWorkersAreOwned
    BY <1>2 DEF BridgeInit, OneWorker, StatusIsOfTheWorker, LiveWorkersAreOwned, Returned, StatusOf
<1> QED
    BY <1>1, <1>3, <1>4 DEF BridgeInvariant

--------------------------------------------------------------------------------
(***************************************************************************)
(* Types.                                                                  *)
(***************************************************************************)

\* The identifiers of the threads.
LEMMA Identifiers ==
    ASSUME ThreadTypes
    PROVE  /\ spawned \in Nat /\ connected \in Nat
           /\ 0 \in 0 .. spawned
           /\ 0 .. spawned \subseteq 0 .. MaxWorkers
           /\ \A w \in 0 .. spawned : w # 0 => w \in Workers
           /\ status.connection \in 0 .. MaxConnections
    BY BoundFacts DEF ThreadTypes, Workers, Status

LEMMA ArgumentTypes ==
    ASSUME ThreadTypes, NEW c \in Callers
    PROVE  /\ callers[c] \in Caller
           /\ callers[c].op \in AllOperations \cup {"none", "stopNothing"}
           /\ callers[c].step \in Steps
           /\ callers[c].worker \in 0 .. spawned
           /\ callers[c].seen \in 0 .. MaxConnections
    BY DEF ThreadTypes, Caller

\* A caller changes its own record only, and the slot.
LEMMA CallerChangeTypes ==
    ASSUME ThreadTypes, NEW c \in Callers, NEW k \in Caller, callers' = [callers EXCEPT ![c] = k],
           k.worker \in 0 .. spawned,
           slot' \in 0 .. spawned, status' \in Status, workers' \in [Workers -> Worker],
           stolen' \in BOOLEAN, UNCHANGED <<spawned, connected, root>>
    PROVE  ThreadTypes'
    BY DEF ThreadTypes

LEMMA CallerStepTypes ==
    ASSUME ThreadTypes, NEW c \in Callers, CallerStep(c)
    PROVE  ThreadTypes'
<1> DEFINE k == callers[c]
<1> USE ArgumentTypes, Identifiers
<1>1. ASSUME NEW step \in Steps
      PROVE  /\ [k EXCEPT !.step = step] \in Caller
             /\ [k EXCEPT !.step = step].worker \in 0 .. spawned
    BY <1>1 DEF Caller
<1>2. ASSUME NEW step \in Steps, NEW w \in 0 .. spawned
      PROVE  /\ [k EXCEPT !.worker = w, !.step = step] \in Caller
             /\ [k EXCEPT !.worker = w, !.step = step].worker \in 0 .. spawned
    BY <1>2 DEF Caller
<1>3. Returned \in Caller /\ Returned.worker = 0
    BY ConstantRecords DEF Returned
<1>4. ASSUME NEW op \in {"status", "stopNothing"}
      PROVE  /\ [Returned EXCEPT !.op = op] \in Caller
             /\ [Returned EXCEPT !.op = op].worker \in 0 .. spawned
    BY <1>3, <1>4 DEF Caller, AllOperations
<1>5. UNCHANGED <<slot, status, workers, stolen, spawned, connected, root>> =>
        /\ slot' \in 0 .. spawned /\ status' \in Status /\ workers' \in [Workers -> Worker]
        /\ stolen' \in BOOLEAN /\ UNCHANGED <<spawned, connected, root>>
    BY DEF ThreadTypes
<1>6. ASSUME NEW step \in Steps, Goes(c, step),
             UNCHANGED <<slot, status, workers, stolen, spawned, connected, root>>
      PROVE  ThreadTypes'
    BY <1>1, <1>5, <1>6, CallerChangeTypes DEF Goes
<1>7. ASSUME Returns(c), UNCHANGED <<slot, status, workers, stolen, spawned, connected, root>>
      PROVE  ThreadTypes'
    BY <1>3, <1>5, <1>7, CallerChangeTypes DEF Returns
<1> DEFINE SharedTypes == /\ slot' \in 0 .. spawned /\ status' \in Status
                          /\ workers' \in [Workers -> Worker] /\ stolen' \in BOOLEAN
                          /\ UNCHANGED <<spawned, connected, root>>
<1>8. CASE LookForFinished(c)
    BY <1>6, <1>8 DEF LookForFinished, callerFrame, Steps
<1>9. CASE TakeWorker(c)
    <2>1. callers' = [callers EXCEPT ![c] = [k EXCEPT !.worker = slot, !.step = "join"]]
        BY <1>9 DEF TakeWorker
    <2>2. SharedTypes
        BY <1>9 DEF TakeWorker, callerFrame, ThreadTypes
    <2>3. slot \in 0 .. spawned /\ "join" \in Steps
        BY DEF ThreadTypes, Steps
    <2> QED
        BY <1>2, <2>1, <2>2, <2>3, CallerChangeTypes
<1>10. CASE JoinReturns(c)
    <2>1. callers' = [callers EXCEPT ![c] = [k EXCEPT !.worker = 0, !.step = "act"]]
        BY <1>10 DEF JoinReturns
    <2>2. SharedTypes
        BY <1>5, <1>10 DEF JoinReturns, callerFrame
    <2>3. "act" \in Steps
        BY DEF Steps
    <2> QED
        BY <1>2, <2>1, <2>2, <2>3, CallerChangeTypes
<1>11. CASE ReadStatus(c)
    <2>1. UNCHANGED <<slot, status, workers, stolen, spawned, connected, root>>
        BY <1>11 DEF ReadStatus, callerFrame
    <2>2. CASE Returns(c) \/ Goes(c, "cleanup")
        BY <1>6, <1>7, <2>1, <2>2 DEF Steps
    <2>3. CASE callers' = [callers EXCEPT ![c] = [k EXCEPT !.seen = status.connection, !.step = "write"]]
        <3>1. /\ [k EXCEPT !.seen = status.connection, !.step = "write"] \in Caller
              /\ [k EXCEPT !.seen = status.connection, !.step = "write"].worker \in 0 .. spawned
            BY DEF Caller, Steps
        <3> QED
            BY <1>5, <2>1, <2>3, <3>1, CallerChangeTypes
    <2> QED
        BY <1>11, <2>2, <2>3 DEF ReadStatus
<1>12. CASE StartLooks(c)
    BY <1>6, <1>7, <1>12 DEF StartLooks, callerFrame, Steps
<1>13. CASE StartFails(c)
    BY <1>7, <1>13 DEF StartFails
<1>14. CASE StartConnects(c)
    <2>1. /\ spawned' = spawned + 1 /\ spawned' \in Workers
          /\ connected' = connected + 1 /\ connected' \in Connections
          /\ status' = StatusOf("Connected", connected')
          /\ UNCHANGED <<slot, stolen, root>>
        BY <1>14 DEF StartConnects
    <2>2. callers' = [callers EXCEPT ![c] = [k EXCEPT !.worker = spawned', !.step = "publish"]]
        BY <1>14, <2>1 DEF StartConnects
    <2>3. workers' = [workers EXCEPT ![spawned'] =
                        [@ EXCEPT !.phase = "pumping", !.connection = connected',
                                  !.first = connected', !.path = root]]
        BY <1>14, <2>1 DEF StartConnects
    <2>4. /\ spawned' \in 0 .. MaxWorkers /\ spawned' \in 0 .. spawned'
          /\ connected' \in 0 .. MaxConnections
          /\ 0 .. spawned \subseteq 0 .. spawned'
        BY <2>1, BoundFacts DEF Workers, Connections
    <2>5. workers' \in [Workers -> Worker]
        <3>1. [workers[spawned'] EXCEPT !.phase = "pumping", !.connection = connected',
                                        !.first = connected', !.path = root] \in Worker
            <4>1. workers[spawned'] \in Worker /\ root \in Roots
                BY <2>1 DEF ThreadTypes
            <4> QED
                BY <2>4, <4>1 DEF Worker
        <3> QED
            BY <2>1, <2>3, <3>1 DEF ThreadTypes
    <2>6. [k EXCEPT !.worker = spawned', !.step = "publish"] \in Caller
        BY <2>4 DEF Caller, Steps
    <2>7. callers' \in [Callers -> Caller] /\ \A d \in Callers : callers'[d].worker \in 0 .. spawned'
        BY <2>2, <2>4, <2>6 DEF ThreadTypes, Caller
    <2>8. status' \in Status
        BY <2>1, <2>4 DEF StatusOf, Status, States
    <2> QED
        BY <2>1, <2>4, <2>5, <2>7, <2>8 DEF ThreadTypes
<1>15. CASE StartPublishes(c)
    <2>1. slot' \in 0 .. spawned
        BY <1>15 DEF StartPublishes
    <2>2. SharedTypes /\ Returns(c)
        BY <1>15, <2>1 DEF StartPublishes, callerFrame, ThreadTypes
    <2> QED
        BY <1>3, <2>2, CallerChangeTypes DEF Returns
<1>16. CASE StopTakes(c)
    <2>1. callers' = [callers EXCEPT ![c] = [k EXCEPT !.worker = slot, !.step = "stopJoin"]]
        BY <1>16 DEF StopTakes
    <2>2. slot \in Workers /\ slot \in 0 .. spawned
        BY <1>16 DEF StopTakes, ThreadTypes
    <2>3. workers' \in [Workers -> Worker]
        <3>1. [workers[slot] EXCEPT !.stop = TRUE] \in Worker
            BY <2>2 DEF ThreadTypes, Worker
        <3>2. workers' = [workers EXCEPT ![slot] = [workers[slot] EXCEPT !.stop = TRUE]]
            BY <1>16 DEF StopTakes
        <3> QED
            BY <2>2, <3>1, <3>2 DEF ThreadTypes
    <2>4. SharedTypes
        BY <1>16, <2>3 DEF StopTakes, callerFrame, ThreadTypes
    <2>5. "stopJoin" \in Steps
        BY DEF Steps
    <2> QED
        BY <1>2, <2>1, <2>2, <2>4, <2>5, CallerChangeTypes
<1>17. CASE StopJoins(c)
    <2>1. callers' = [callers EXCEPT ![c] = [Returned EXCEPT !.op = "status"]]
        BY <1>17 DEF StopJoins
    <2>2. SharedTypes
        BY <1>5, <1>17 DEF StopJoins, callerFrame
    <2> QED
        BY <1>4, <2>1, <2>2, CallerChangeTypes
<1>18. CASE StopFindsNothing(c)
    <2>1. callers' = [callers EXCEPT ![c] = [Returned EXCEPT !.op = "stopNothing"]]
        BY <1>18 DEF StopFindsNothing
    <2>2. SharedTypes
        BY <1>5, <1>18 DEF StopFindsNothing, callerFrame
    <2> QED
        BY <1>4, <2>1, <2>2, CallerChangeTypes
<1>19. CASE StopWritesStatus(c)
    <2>1. status' \in Status
        BY <1>19 DEF StopWritesStatus, StatusOf, Status, States
    <2>2. SharedTypes /\ Returns(c)
        BY <1>19, <2>1 DEF StopWritesStatus, callerFrame, ThreadTypes
    <2> QED
        BY <1>3, <2>2, CallerChangeTypes DEF Returns
<1> QED
    BY <1>8, <1>9, <1>10, <1>11, <1>12, <1>13, <1>14, <1>15, <1>16, <1>17, <1>18, <1>19
    DEF CallerStep

\* A worker changes its own record, the status and the connections.
LEMMA WorkerChangeTypes ==
    ASSUME ThreadTypes, NEW w \in Workers, NEW v \in Worker, workers' = [workers EXCEPT ![w] = v],
           status' \in Status, connected' \in 0 .. MaxConnections, UNCHANGED workerFrame
    PROVE  ThreadTypes'
    BY DEF ThreadTypes, workerFrame, bounds

LEMMA WorkerStepTypes ==
    ASSUME ThreadTypes, NEW w \in Workers, WorkerStep(w)
    PROVE  ThreadTypes'
<1> DEFINE v == workers[w]
<1> USE Identifiers, DelayFacts
<1>1. /\ v \in Worker /\ v.first \in 0 .. MaxConnections
      /\ v.delay \in Nat /\ v.elapsed \in Nat
    BY DEF ThreadTypes, Worker
<1>2. connected \in 0 .. MaxConnections /\ status \in Status /\ status.state \in States
    BY DEF ThreadTypes, Status
<1>3. ASSUME NEW state \in States, NEW connection \in 0 .. MaxConnections
      PROVE  StatusOf(state, connection) \in Status
    BY <1>3 DEF StatusOf, Status
<1>4. ASSUME NEW state \in States, Done(w, state), UNCHANGED <<connected, workerFrame>>
      PROVE  ThreadTypes'
    <2>1. Ended(v) \in Worker /\ workers' = [workers EXCEPT ![w] = Ended(v)]
        BY <1>1, <1>4, ConstantRecords DEF Done
    <2>2. status' \in Status
        BY <1>1, <1>3, <1>4 DEF Done
    <2> QED
        BY <1>2, <1>4, <2>1, <2>2, WorkerChangeTypes
<1>5. CASE WorkerStops(w) \/ WorkerFails(w) \/ WorkerGivesUp(w)
    BY <1>4, <1>5 DEF WorkerStops, WorkerFails, WorkerGivesUp, States
<1>6. CASE WorkerDisconnects(w)
    <2> DEFINE u == [v EXCEPT !.phase = "backoff", !.delay = InitialDelay, !.elapsed = 0,
                              !.connection = 0]
    <2>1. workers' = [workers EXCEPT ![w] = u] /\ UNCHANGED <<connected, workerFrame>>
        BY <1>6 DEF WorkerDisconnects
    <2>2. u \in Worker
        BY <1>1, BoundFacts DEF Worker
    <2>3. status' \in Status
        BY <1>1, <1>2, <1>3, <1>6 DEF WorkerDisconnects, States
    <2> HIDE DEF u
    <2> QED
        BY <1>2, <2>1, <2>2, <2>3, WorkerChangeTypes
<1>7. CASE WorkerReconnects(w)
    <2> DEFINE u == [v EXCEPT !.phase = "pumping", !.connection = connected + 1, !.delay = 0,
                              !.elapsed = 0]
    <2>1. /\ workers' = [workers EXCEPT ![w] = u] /\ UNCHANGED workerFrame
          /\ connected' = connected + 1 /\ connected < MaxConnections
          /\ status' = StatusOf("Connected", connected + 1)
        BY <1>7 DEF WorkerReconnects
    <2>2. connected + 1 \in 0 .. MaxConnections
        BY <1>2, <2>1, BoundFacts
    <2>3. u \in Worker
        BY <1>1, <2>2 DEF Worker
    <2>4. status' \in Status
        BY <1>3, <2>1, <2>2 DEF States
    <2> HIDE DEF u
    <2> QED
        BY <2>1, <2>2, <2>3, <2>4, WorkerChangeTypes
<1>8. CASE WorkerRetries(w)
    <2> DEFINE d == IF 2 * v.delay < MaxDelay THEN 2 * v.delay ELSE MaxDelay
               u == [v EXCEPT !.elapsed = Waited(w), !.delay = d]
    <2>1. workers' = [workers EXCEPT ![w] = u] /\ UNCHANGED <<connected, workerFrame>>
        BY <1>8 DEF WorkerRetries, Doubled
    <2>2. Waited(w) \in Nat
        BY <1>1 DEF Waited
    <2>3. d \in 0 .. LongestDelay
        <3>1. MaxDelay \in Nat /\ MaxDelay <= LongestDelay
            BY BridgeAssumption
        <3> QED
            BY <1>1, <3>1
    <2>4. u \in Worker
        <3> HIDE DEF d
        <3> QED
            BY <1>1, <2>2, <2>3 DEF Worker
    <2>5. status' \in Status
        BY <1>1, <1>2, <1>3, <1>8 DEF WorkerRetries, States
    <2> HIDE DEF u
    <2> QED
        BY <1>2, <2>1, <2>4, <2>5, WorkerChangeTypes
<1> QED
    BY <1>5, <1>6, <1>7, <1>8 DEF WorkerStep

LEMMA ThreadTypesStep ==
    ASSUME ThreadTypes, [BridgeNext]_bridgeVars
    PROVE  ThreadTypes'
<1>1. CASE \E c \in Callers : Call(c)
    <2>1. PICK c \in Callers : Call(c)
        BY <1>1
    <2>2. PICK op \in AllOperations : callers' = [callers EXCEPT ![c] = [callers[c] EXCEPT !.op = op]]
        BY <2>1, BridgeAssumption DEF Call
    <2>3. callers[c] \in Caller /\ callers[c].worker \in 0 .. spawned
        BY ArgumentTypes
    <2>4. /\ [callers[c] EXCEPT !.op = op] \in Caller
          /\ [callers[c] EXCEPT !.op = op].worker \in 0 .. spawned
        BY <2>3 DEF Caller
    <2> QED
        BY <2>1, <2>2, <2>4, CallerChangeTypes DEF Call, ThreadTypes
<1>2. CASE \E c \in Callers : CallerStep(c)
    BY <1>2, CallerStepTypes
<1>3. CASE \E w \in Workers : WorkerStep(w)
    BY <1>3, WorkerStepTypes
<1>4. CASE ResolveContinue \/ PointersExpire \/ UNCHANGED bridgeVars
    BY <1>4 DEF ResolveContinue, PointersExpire, bridgeVars, threadVars, ThreadTypes
<1>5. CASE RootMoves
    BY <1>5, MovedRoot DEF threadVars, ThreadTypes
<1>6. CASE ProcessRestarts
    <2>1. status' \in Status
        BY <1>6, BoundFacts DEF ProcessRestarts, StatusOf, Status, States
    <2>2. workers' \in [Workers -> Worker]
        BY <1>6, ConstantRecords DEF ProcessRestarts, ThreadTypes
    <2>3. callers' \in [Callers -> Caller] /\ \A c \in Callers : callers'[c].worker = 0
        BY <1>6, ConstantRecords DEF ProcessRestarts, Returned
    <2> QED
        BY <1>6, <2>1, <2>2, <2>3, Identifiers DEF ProcessRestarts, ThreadTypes
<1> QED
    BY <1>1, <1>2, <1>3, <1>4, <1>5, <1>6 DEF BridgeNext, RootMoves

--------------------------------------------------------------------------------
(***************************************************************************)
(* The order of the steps of a call.                                       *)
(***************************************************************************)

\* The controller is one thread: what another caller does cannot be its step.
LEMMA OneController ==
    ASSUME NEW c \in Controllers, NEW d \in Controllers
    PROVE  c = d
    BY ControllerAssumption

LEMMA ReturnedFields ==
    /\ Returned.op = "none" /\ Returned.step = "cleanup" /\ Returned.worker = 0
    /\ \A op \in {"status", "stopNothing"} :
         /\ [Returned EXCEPT !.op = op].op = op
         /\ [Returned EXCEPT !.op = op].step = "cleanup"
         /\ [Returned EXCEPT !.op = op].worker = 0
    BY DEF Returned

LEMMA CallsInOrderChange ==
    ASSUME ThreadTypes, CallsInOrder, NEW c \in Callers, NEW k,
           callers' = [callers EXCEPT ![c] = k],
           k.step \in ControllerSteps \/ k.op \in ControllerOps => c \in Controllers,
           k.worker # 0 => k.step \in {"join", "publish", "stopJoin"},
           k.step \in {"connect", "publish"} => k.op = "start" /\ slot' = 0,
           k.step = "write" => k.op = "stopNothing",
           \/ slot' = slot \/ slot' = 0
           \/ c \in Controllers /\ k.step = "cleanup"
    PROVE  CallsInOrder'
<1>1. /\ callers'[c] = k
      /\ \A d \in Callers : d # c => callers'[d] = callers[d]
    BY DEF ThreadTypes
<1>2. ASSUME NEW d \in Callers, d # c, callers[d].step \in {"connect", "publish"}
      PROVE  slot' = 0
    <2>1. d \in Controllers /\ slot = 0
        BY <1>2 DEF CallsInOrder, ControllerSteps
    <2>2. c \notin Controllers
        BY <1>2, <2>1, OneController
    <2> QED
        BY <2>1, <2>2
<1> QED
    BY <1>1, <1>2 DEF CallsInOrder

LEMMA CallerStepInOrder ==
    ASSUME ThreadTypes, CallsInOrder, NEW c \in Callers, CallerStep(c)
    PROVE  CallsInOrder'
<1> DEFINE k == callers[c]
<1> USE ReturnedFields
<1>1. /\ k \in Caller
      /\ k.step \in ControllerSteps \/ k.op \in ControllerOps => c \in Controllers
      /\ k.worker # 0 => k.step \in {"join", "publish", "stopJoin"}
      /\ k.step \in {"connect", "publish"} => k.op = "start" /\ slot = 0
    BY ArgumentTypes DEF CallsInOrder
<1>2. ASSUME Returns(c), slot' = slot
      PROVE  CallsInOrder'
    BY <1>2, CallsInOrderChange DEF Returns, ControllerSteps, ControllerOps
<1>3. ASSUME NEW step \in {"cleanup", "take", "act"}, Goes(c, step), slot' = slot,
             k.step \notin {"join", "publish", "stopJoin"}
      PROVE  CallsInOrder'
    <2> DEFINE l == [k EXCEPT !.step = step]
    <2>1. l.step = step /\ l.op = k.op /\ l.worker = k.worker
        BY <1>1 DEF Caller
    <2>2. callers' = [callers EXCEPT ![c] = l]
        BY <1>3 DEF Goes
    <2> HIDE DEF l
    <2> QED
        BY <1>1, <1>3, <2>1, <2>2, CallsInOrderChange DEF ControllerSteps
<1>4. CASE LookForFinished(c)
    BY <1>3, <1>4 DEF LookForFinished, At
<1>5. CASE TakeWorker(c)
    <2> DEFINE l == [k EXCEPT !.worker = slot, !.step = "join"]
    <2>1. l.step = "join" /\ l.op = k.op /\ l.worker = slot
        BY <1>1 DEF Caller
    <2>2. callers' = [callers EXCEPT ![c] = l] /\ slot' = 0
        BY <1>5 DEF TakeWorker
    <2> HIDE DEF l
    <2> QED
        BY <1>1, <2>1, <2>2, CallsInOrderChange DEF ControllerSteps
<1>6. CASE JoinReturns(c)
    <2> DEFINE l == [k EXCEPT !.worker = 0, !.step = "act"]
    <2>1. l.step = "act" /\ l.op = k.op /\ l.worker = 0
        BY <1>1 DEF Caller
    <2>2. callers' = [callers EXCEPT ![c] = l] /\ slot' = slot
        BY <1>6 DEF JoinReturns
    <2> HIDE DEF l
    <2> QED
        BY <1>1, <2>1, <2>2, CallsInOrderChange DEF ControllerSteps
<1>7. CASE ReadStatus(c)
    <2>1. k.step = "act" /\ slot' = slot
        BY <1>7 DEF ReadStatus, At
    <2>2. CASE Returns(c) \/ Goes(c, "cleanup")
        BY <1>2, <1>3, <2>1, <2>2
    <2>3. CASE /\ k.op = "stopNothing"
               /\ callers' = [callers EXCEPT ![c] = [k EXCEPT !.seen = status.connection, !.step = "write"]]
        <3> DEFINE l == [k EXCEPT !.seen = status.connection, !.step = "write"]
        <3>1. l.step = "write" /\ l.op = k.op /\ l.worker = k.worker
            BY <1>1 DEF Caller
        <3>2. callers' = [callers EXCEPT ![c] = l]
            BY <2>3
        <3>3. c \in Controllers /\ l.worker = 0 /\ l.op = "stopNothing"
            BY <1>1, <2>1, <2>3, <3>1 DEF ControllerOps
        <3> HIDE DEF l
        <3> QED
            BY <2>1, <3>1, <3>2, <3>3, CallsInOrderChange
    <2> QED
        BY <1>7, <2>2, <2>3 DEF ReadStatus
<1>8. CASE StartLooks(c)
    <2>1. k.step = "act" /\ k.op = "start" /\ slot' = slot
        BY <1>8 DEF StartLooks, Acting
    <2>2. CASE Returns(c)
        BY <1>2, <2>1, <2>2
    <2>3. CASE slot = 0 /\ Goes(c, "connect")
        <3> DEFINE l == [k EXCEPT !.step = "connect"]
        <3>1. l.step = "connect" /\ l.op = k.op /\ l.worker = k.worker
            BY <1>1 DEF Caller
        <3>2. callers' = [callers EXCEPT ![c] = l]
            BY <2>3 DEF Goes
        <3>3. c \in Controllers /\ l.worker = 0 /\ l.op = "start" /\ slot' = 0
            BY <1>1, <2>1, <2>3, <3>1 DEF ControllerOps
        <3> HIDE DEF l
        <3> QED
            BY <3>1, <3>2, <3>3, CallsInOrderChange
    <2> QED
        BY <1>8, <2>2, <2>3 DEF StartLooks
<1>9. CASE StartFails(c)
    BY <1>2, <1>9 DEF StartFails
<1>10. CASE StartConnects(c)
    <2> DEFINE l == [k EXCEPT !.worker = spawned', !.step = "publish"]
    <2>1. l.step = "publish" /\ l.op = k.op /\ l.worker = spawned'
        BY <1>1 DEF Caller
    <2>2. callers' = [callers EXCEPT ![c] = l] /\ slot' = slot /\ k.step = "connect"
        BY <1>10 DEF StartConnects, At
    <2> HIDE DEF l
    <2> QED
        BY <1>1, <2>1, <2>2, CallsInOrderChange DEF ControllerSteps
<1>11. CASE StartPublishes(c)
    <2>1. k.step = "publish" /\ Returns(c)
        BY <1>11 DEF StartPublishes, At
    <2>2. c \in Controllers
        BY <1>1, <2>1 DEF ControllerSteps
    <2> QED
        BY <2>1, <2>2, CallsInOrderChange DEF Returns, ControllerSteps, ControllerOps
<1>12. CASE StopTakes(c)
    <2> DEFINE l == [k EXCEPT !.worker = slot, !.step = "stopJoin"]
    <2>1. l.step = "stopJoin" /\ l.op = k.op /\ l.worker = slot
        BY <1>1 DEF Caller
    <2>2. callers' = [callers EXCEPT ![c] = l] /\ slot' = 0 /\ k.op = "stop"
        BY <1>12 DEF StopTakes, Acting
    <2> HIDE DEF l
    <2> QED
        BY <1>1, <2>1, <2>2, CallsInOrderChange DEF ControllerOps
<1>13. CASE StopJoins(c)
    <2>1. callers' = [callers EXCEPT ![c] = [Returned EXCEPT !.op = "status"]] /\ slot' = slot
        BY <1>13 DEF StopJoins
    <2> QED
        BY <2>1, CallsInOrderChange DEF ControllerSteps, ControllerOps
<1>14. CASE StopFindsNothing(c)
    <2>1. /\ callers' = [callers EXCEPT ![c] = [Returned EXCEPT !.op = "stopNothing"]]
          /\ slot' = slot /\ k.op = "stop"
        BY <1>14 DEF StopFindsNothing, Acting
    <2>2. c \in Controllers
        BY <1>1, <2>1 DEF ControllerOps
    <2> QED
        BY <2>1, <2>2, CallsInOrderChange
<1>15. CASE StopWritesStatus(c)
    BY <1>2, <1>15 DEF StopWritesStatus
<1> QED
    BY <1>4, <1>5, <1>6, <1>7, <1>8, <1>9, <1>10, <1>11, <1>12, <1>13, <1>14, <1>15
    DEF CallerStep

LEMMA CallsInOrderStep ==
    ASSUME ThreadTypes, CallsInOrder, [BridgeNext]_bridgeVars
    PROVE  CallsInOrder'
<1>1. CASE \E c \in Callers : Call(c)
    <2>1. PICK c \in Callers : Call(c)
        BY <1>1
    <2>2. PICK op \in Operations[c] : callers' = [callers EXCEPT ![c] = [callers[c] EXCEPT !.op = op]]
        BY <2>1 DEF Call
    <2> DEFINE l == [callers[c] EXCEPT !.op = op]
    <2>3. callers[c] = Returned /\ slot' = slot
        BY <2>1 DEF Call
    <2>4. l.op = op /\ l.step = "cleanup" /\ l.worker = 0
        BY <2>3 DEF Returned
    <2>5. op \in ControllerOps => c \in Controllers
        BY BridgeAssumption DEF ControllerOps, Controllers, AllOperations
    <2>6. callers' = [callers EXCEPT ![c] = l]
        BY <2>2
    <2> HIDE DEF l
    <2> QED
        BY <2>3, <2>4, <2>5, <2>6, CallsInOrderChange DEF ControllerSteps
<1>2. CASE \E c \in Callers : CallerStep(c)
    BY <1>2, CallerStepInOrder
<1>3. CASE UNCHANGED <<slot, callers>>
    BY <1>3 DEF CallsInOrder
<1>4. CASE ProcessRestarts
    <2>1. \A c \in Callers : callers'[c] = Returned
        BY <1>4 DEF ProcessRestarts
    <2> QED
        BY <2>1, ReturnedFields DEF CallsInOrder, ControllerSteps, ControllerOps
<1>5. ASSUME \/ \E w \in Workers : WorkerStep(w)
             \/ ResolveContinue \/ PointersExpire \/ RootMoves \/ UNCHANGED bridgeVars
      PROVE  UNCHANGED <<slot, callers>>
    BY <1>5, MovedRoot
    DEF WorkerStep, WorkerStops, WorkerFails, WorkerDisconnects, WorkerReconnects, WorkerRetries,
        WorkerGivesUp, workerFrame, ResolveContinue, PointersExpire, bridgeVars, threadVars
<1> QED
    BY <1>1, <1>2, <1>3, <1>4, <1>5 DEF BridgeNext, RootMoves

--------------------------------------------------------------------------------
(***************************************************************************)
(* No handle of a running worker is dropped.                               *)
(***************************************************************************)

LEMMA OwnedChange ==
    ASSUME ThreadTypes, LiveWorkersAreOwned, NEW c \in Callers, NEW k,
           callers' = [callers EXCEPT ![c] = k],
           \A w \in Live' : w \in Live \/ w = k.worker,
           \A w \in Live' : w = callers[c].worker => w = k.worker \/ w = slot',
           \A w \in Live' : w = slot => w = k.worker \/ w = slot'
    PROVE  LiveWorkersAreOwned'
<1>1. /\ callers'[c] = k
      /\ \A d \in Callers : d # c => callers'[d] = callers[d]
    BY DEF ThreadTypes
<1>2. ASSUME NEW w \in Live' PROVE w = slot' \/ \E d \in Callers : callers'[d].worker = w
    <2>1. CASE w = k.worker
        BY <1>1, <2>1
    <2>2. CASE w \in Live /\ w # k.worker
        <3>1. w = slot \/ \E d \in Callers : callers[d].worker = w
            BY <2>2 DEF LiveWorkersAreOwned
        <3>2. CASE w = slot
            BY <1>1, <1>2, <3>2
        <3>3. ASSUME NEW d \in Callers, callers[d].worker = w
              PROVE  w = slot' \/ \E e \in Callers : callers'[e].worker = w
            BY <1>1, <1>2, <3>3
        <3> QED
            BY <3>1, <3>2, <3>3
    <2> QED
        BY <1>2, <2>1, <2>2
<1> QED
    BY <1>2 DEF LiveWorkersAreOwned

\* What a caller does to the running workers: nothing, but for the start of one.
LEMMA CallerKeepsLive ==
    ASSUME ThreadTypes, NEW c \in Callers, CallerStep(c), ~ StartConnects(c)
    PROVE  /\ Live' = Live
           /\ \A w \in Workers : /\ workers'[w].phase = workers[w].phase
                                 /\ workers'[w].connection = workers[w].connection
<1>1. CASE UNCHANGED workers
    BY <1>1 DEF Live
<1>2. CASE StopTakes(c)
    <2>1. slot \in Workers
        BY <1>2, Identifiers DEF StopTakes, ThreadTypes
    <2>2. workers' = [workers EXCEPT ![slot] = [workers[slot] EXCEPT !.stop = TRUE]]
        BY <1>2 DEF StopTakes
    <2>3. /\ [workers[slot] EXCEPT !.stop = TRUE].phase = workers[slot].phase
          /\ [workers[slot] EXCEPT !.stop = TRUE].connection = workers[slot].connection
        BY <2>1 DEF ThreadTypes, Worker
    <2>4. \A w \in Workers : /\ workers'[w].phase = workers[w].phase
                             /\ workers'[w].connection = workers[w].connection
        BY <2>1, <2>2, <2>3 DEF ThreadTypes
    <2> QED
        BY <2>4 DEF Live
<1> QED
    BY <1>1, <1>2
    DEF CallerStep, LookForFinished, TakeWorker, JoinReturns, ReadStatus, StartLooks, StartFails,
        StartPublishes, StopJoins, StopFindsNothing, StopWritesStatus

\* A worker that starts is the only change of the running workers.
LEMMA StartedWorker ==
    ASSUME ThreadTypes, NEW c \in Callers, StartConnects(c)
    PROVE  /\ spawned' \in Workers
           /\ \A w \in Workers \ {spawned'} : workers'[w] = workers[w]
           /\ workers'[spawned'].phase = "pumping"
           /\ workers'[spawned'].connection = connected'
           /\ Live' = Live \cup {spawned'}
<1>1. spawned' \in Workers
    BY DEF StartConnects
<1> DEFINE v == [workers[spawned'] EXCEPT !.phase = "pumping", !.connection = connected',
                                          !.first = connected', !.path = root]
<1>2. workers' = [workers EXCEPT ![spawned'] = v]
    BY DEF StartConnects
<1>3. v.phase = "pumping" /\ v.connection = connected'
    <2>1. workers[spawned'] \in Worker
        BY <1>1 DEF ThreadTypes
    <2> QED
        BY <2>1 DEF Worker
<1> HIDE DEF v
<1>4. /\ \A w \in Workers \ {spawned'} : workers'[w] = workers[w]
      /\ workers'[spawned'] = v
    BY <1>1, <1>2 DEF ThreadTypes
<1>5. Live' = Live \cup {spawned'}
    BY <1>1, <1>3, <1>4 DEF Live
<1> QED
    BY <1>1, <1>3, <1>4, <1>5

\* What a worker does to the running workers: it stays, or it ends.
LEMMA WorkerKeepsLive ==
    ASSUME ThreadTypes, NEW w \in Workers, WorkerStep(w)
    PROVE  /\ w \in Live
           /\ \A v \in Workers \ {w} : workers'[v] = workers[v]
           /\ UNCHANGED <<slot, callers, stolen>>
           /\ \/ /\ WorkerStops(w) \/ WorkerFails(w) \/ WorkerGivesUp(w)
                 /\ Live' = Live \ {w}
                 /\ status'.state \in {"Stopped", "Failed"}
              \/ /\ WorkerDisconnects(w) /\ Live' = Live
                 /\ workers'[w].phase = "backoff"
                 /\ status'.state = "Reconnecting"
              \/ /\ WorkerReconnects(w) /\ Live' = Live
                 /\ workers'[w].phase = "pumping"
                 /\ workers'[w].connection = connected'
                 /\ status' = StatusOf("Connected", connected')
              \/ /\ WorkerRetries(w) /\ Live' = Live
                 /\ workers[w].phase = "backoff" /\ workers'[w].phase = "backoff"
                 /\ status' = status \/ status'.state = "Reconnecting"
<1> DEFINE v == workers[w]
<1>1. v \in Worker /\ w \in DOMAIN workers /\ DOMAIN workers = Workers
    BY DEF ThreadTypes
<1>2. w \in Live /\ UNCHANGED <<slot, callers, stolen>>
    BY DEF WorkerStep, WorkerStops, WorkerFails, WorkerDisconnects, WorkerReconnects, WorkerRetries,
        WorkerGivesUp, workerFrame, Live
<1>3. ASSUME NEW u, workers' = [workers EXCEPT ![w] = u]
      PROVE  /\ workers'[w] = u
             /\ \A x \in Workers \ {w} : workers'[x] = workers[x]
             /\ u.phase = "done" => Live' = Live \ {w}
             /\ u.phase \in {"pumping", "backoff"} => Live' = Live
    <2>1. workers'[w] = u /\ \A x \in Workers \ {w} : workers'[x] = workers[x]
        BY <1>1, <1>3
    <2> QED
        BY <1>2, <2>1 DEF Live
<1>4. CASE WorkerStops(w) \/ WorkerFails(w) \/ WorkerGivesUp(w)
    <2>1. /\ workers' = [workers EXCEPT ![w] = Ended(v)]
          /\ status'.state \in {"Stopped", "Failed"}
        BY <1>4 DEF WorkerStops, WorkerFails, WorkerGivesUp, Done, StatusOf
    <2>2. Ended(v).phase = "done"
        BY <1>1, ConstantRecords
    <2> QED
        BY <1>2, <1>3, <1>4, <2>1, <2>2
<1>5. CASE WorkerDisconnects(w)
    <2> DEFINE u == [v EXCEPT !.phase = "backoff", !.delay = InitialDelay, !.elapsed = 0,
                              !.connection = 0]
    <2>1. workers' = [workers EXCEPT ![w] = u]
        BY <1>5 DEF WorkerDisconnects
    <2>2. u.phase = "backoff"
        BY <1>1 DEF Worker
    <2>3. status'.state = "Reconnecting"
        <3>1. 0 < GiveUpAfter
            BY BridgeAssumption
        <3> QED
            BY <1>5, <3>1 DEF WorkerDisconnects, StatusOf
    <2> HIDE DEF u
    <2> QED
        BY <1>2, <1>3, <1>5, <2>1, <2>2, <2>3
<1>6. CASE WorkerReconnects(w)
    <2> DEFINE u == [v EXCEPT !.phase = "pumping", !.connection = connected + 1, !.delay = 0,
                              !.elapsed = 0]
    <2>1. /\ workers' = [workers EXCEPT ![w] = u]
          /\ connected' = connected + 1
          /\ status' = StatusOf("Connected", connected')
        BY <1>6 DEF WorkerReconnects
    <2>2. u.phase = "pumping" /\ u.connection = connected'
        BY <1>1, <2>1 DEF Worker
    <2> HIDE DEF u
    <2> QED
        BY <1>2, <1>3, <1>6, <2>1, <2>2
<1>7. CASE WorkerRetries(w)
    <2> DEFINE d == IF Doubled(w) < MaxDelay THEN Doubled(w) ELSE MaxDelay
               u == [v EXCEPT !.elapsed = Waited(w), !.delay = d]
    <2>1. /\ workers' = [workers EXCEPT ![w] = u] /\ v.phase = "backoff"
          /\ status' = status \/ status'.state = "Reconnecting"
        BY <1>7 DEF WorkerRetries, StatusOf
    <2> HIDE DEF d
    <2>2. u.phase = "backoff"
        BY <1>1, <2>1 DEF Worker
    <2> HIDE DEF u
    <2> QED
        BY <1>2, <1>3, <1>7, <2>1, <2>2
<1> QED
    BY <1>4, <1>5, <1>6, <1>7 DEF WorkerStep

--------------------------------------------------------------------------------
(***************************************************************************)
(* One worker at a time, and the handles, step by step.                    *)
(***************************************************************************)

LEMMA NoWorkerZero == 0 \notin Live
    BY DEF Live, Workers

\* With an empty slot a controller that holds nothing finds no worker anywhere.
LEMMA NoWorkerLeft ==
    ASSUME CallsInOrder, OneWorker, NEW c \in Controllers,
           callers[c].step \notin {"publish", "stopJoin"}, slot = 0
    PROVE  Live = {}
<1>1. SUFFICES ASSUME NEW w \in Live PROVE FALSE
    OBVIOUS
<1>2. w # 0
    BY NoWorkerZero
<1>3. PICK d \in Callers : callers[d].step \in {"publish", "stopJoin"}
    BY <1>2 DEF OneWorker
<1>4. d \in Controllers
    BY <1>3 DEF CallsInOrder, ControllerSteps
<1> QED
    BY <1>3, <1>4, OneController

\* A caller moves the slot and its own worker without losing a running one.
LEMMA CallerChange ==
    ASSUME ThreadTypes, LiveWorkersAreOwned, ~ stolen => OneWorker, NEW c \in Callers, NEW k,
           callers' = [callers EXCEPT ![c] = k],
           Live' = Live, stolen => stolen',
           callers[c].worker \notin Live \/ slot' = callers[c].worker,
           \/ slot \notin Live \/ slot' = slot
           \/ k.worker = slot /\ (k.step \in {"publish", "stopJoin"} \/ stolen'),
           (k.step = "connect" \/ k.op = "stopNothing") /\ ~ stolen => Live = {}
    PROVE  LiveWorkersAreOwned' /\ (~ stolen' => OneWorker')
<1>1. /\ callers'[c] = k
      /\ \A d \in Callers : d # c => callers'[d] = callers[d]
    BY DEF ThreadTypes
<1>2. LiveWorkersAreOwned'
    BY OwnedChange
<1>3. ASSUME ~ stolen' PROVE OneWorker'
    <2>1. OneWorker /\ ~ stolen
        BY <1>3
    <2>2. ASSUME NEW w \in Live'
          PROVE  w = slot' \/ \E d \in Callers : /\ callers'[d].worker = w
                                                 /\ callers'[d].step \in {"publish", "stopJoin"}
        <3>1. CASE w = slot
            BY <1>1, <1>3, <2>2, <3>1
        <3>2. ASSUME NEW d \in Callers, callers[d].worker = w,
                     callers[d].step \in {"publish", "stopJoin"}
              PROVE  w = slot' \/ \E e \in Callers : /\ callers'[e].worker = w
                                                     /\ callers'[e].step \in {"publish", "stopJoin"}
            BY <1>1, <2>2, <3>2
        <3> QED
            BY <2>1, <2>2, <3>1, <3>2 DEF OneWorker
    <2>3. \A v, w \in Live' : v = w
        BY <2>1 DEF OneWorker
    <2>4. ASSUME NEW d \in Callers, callers'[d].step = "connect" \/ callers'[d].op = "stopNothing"
          PROVE  Live' = {}
        BY <1>1, <2>1, <2>4 DEF OneWorker
    <2> QED
        BY <2>2, <2>3, <2>4 DEF OneWorker
<1> QED
    BY <1>2, <1>3

\* Every step of a caller but the connection.
LEMMA CallerStepOwned ==
    ASSUME ThreadTypes, CallsInOrder, LiveWorkersAreOwned, ~ stolen => OneWorker,
           NEW c \in Callers, CallerStep(c), ~ StartConnects(c)
    PROVE  LiveWorkersAreOwned' /\ (~ stolen' => OneWorker')
<1> DEFINE k == callers[c]
<1> USE ReturnedFields, NoWorkerZero, CallerKeepsLive
<1>1. /\ k \in Caller
      /\ k.step \in ControllerSteps \/ k.op \in ControllerOps => c \in Controllers
      /\ k.worker # 0 => k.step \in {"join", "publish", "stopJoin"}
      /\ k.step \in {"connect", "publish"} => k.op = "start" /\ slot = 0
    BY ArgumentTypes DEF CallsInOrder
<1>2. (k.step = "connect" \/ k.op = "stopNothing") /\ ~ stolen => Live = {}
    BY DEF OneWorker
<1>3. ASSUME Returns(c), slot' = slot, stolen' = stolen, k.worker \notin Live
      PROVE  LiveWorkersAreOwned' /\ (~ stolen' => OneWorker')
    BY <1>3, CallerChange DEF Returns
<1>4. ASSUME NEW step \in {"cleanup", "take", "act"}, Goes(c, step), slot' = slot, stolen' = stolen,
             k.step \notin {"join", "publish", "stopJoin"}
      PROVE  LiveWorkersAreOwned' /\ (~ stolen' => OneWorker')
    <2> DEFINE l == [k EXCEPT !.step = step]
    <2>1. l.step = step /\ l.op = k.op /\ l.worker = k.worker
        BY <1>1 DEF Caller
    <2>2. callers' = [callers EXCEPT ![c] = l]
        BY <1>4 DEF Goes
    <2>3. k.worker = 0
        BY <1>1, <1>4
    <2> HIDE DEF l
    <2> QED
        BY <1>2, <1>4, <2>1, <2>2, <2>3, CallerChange
<1>5. CASE LookForFinished(c)
    BY <1>4, <1>5 DEF LookForFinished, At
<1>6. CASE TakeWorker(c)
    <2> DEFINE l == [k EXCEPT !.worker = slot, !.step = "join"]
    <2>1. l.step = "join" /\ l.op = k.op /\ l.worker = slot
        BY <1>1 DEF Caller
    <2>2. /\ callers' = [callers EXCEPT ![c] = l] /\ slot' = 0
          /\ stolen' = (stolen \/ slot \in Live) /\ k.worker = 0
        BY <1>1, <1>6 DEF TakeWorker, At
    <2>3. (l.step = "connect" \/ l.op = "stopNothing") /\ ~ stolen => Live = {}
        BY <1>2, <2>1
    <2> HIDE DEF l
    <2> QED
        BY <2>1, <2>2, <2>3, CallerChange
<1>7. CASE JoinReturns(c)
    <2> DEFINE l == [k EXCEPT !.worker = 0, !.step = "act"]
    <2>1. l.step = "act" /\ l.op = k.op /\ l.worker = 0
        BY <1>1 DEF Caller
    <2>2. callers' = [callers EXCEPT ![c] = l] /\ slot' = slot /\ stolen' = stolen /\ k.worker \notin Live
        BY <1>7 DEF JoinReturns
    <2> HIDE DEF l
    <2> QED
        BY <1>2, <2>1, <2>2, CallerChange
<1>8. CASE ReadStatus(c)
    <2>1. k.step = "act" /\ slot' = slot /\ stolen' = stolen /\ k.worker = 0
        BY <1>1, <1>8 DEF ReadStatus, At
    <2>2. CASE Returns(c) \/ Goes(c, "cleanup")
        BY <1>3, <1>4, <2>1, <2>2
    <2>3. CASE /\ k.op = "stopNothing"
               /\ callers' = [callers EXCEPT ![c] = [k EXCEPT !.seen = status.connection, !.step = "write"]]
        <3> DEFINE l == [k EXCEPT !.seen = status.connection, !.step = "write"]
        <3>1. l.step = "write" /\ l.op = k.op /\ l.worker = k.worker
            BY <1>1 DEF Caller
        <3>2. callers' = [callers EXCEPT ![c] = l]
            BY <2>3
        <3> HIDE DEF l
        <3> QED
            BY <1>2, <2>1, <3>1, <3>2, CallerChange
    <2> QED
        BY <1>8, <2>2, <2>3 DEF ReadStatus
<1>9. CASE StartLooks(c)
    <2>1. k.step = "act" /\ k.op = "start" /\ slot' = slot /\ stolen' = stolen /\ k.worker = 0
        BY <1>1, <1>9 DEF StartLooks, Acting
    <2>2. CASE Returns(c)
        BY <1>3, <2>1, <2>2
    <2>3. CASE slot = 0 /\ Goes(c, "connect")
        <3> DEFINE l == [k EXCEPT !.step = "connect"]
        <3>1. l.step = "connect" /\ l.op = k.op /\ l.worker = k.worker
            BY <1>1 DEF Caller
        <3>2. callers' = [callers EXCEPT ![c] = l]
            BY <2>3 DEF Goes
        <3>3. ~ stolen => Live = {}
            BY <1>1, <2>1, <2>3, NoWorkerLeft DEF ControllerOps
        <3> HIDE DEF l
        <3> QED
            BY <2>1, <3>1, <3>2, <3>3, CallerChange
    <2> QED
        BY <1>9, <2>2, <2>3 DEF StartLooks
<1>10. CASE StartFails(c)
    BY <1>1, <1>3, <1>10 DEF StartFails, At
<1>11. CASE StartPublishes(c)
    <2>1. /\ Returns(c) /\ slot' = k.worker /\ stolen' = stolen /\ slot = 0
        BY <1>1, <1>11 DEF StartPublishes, At
    <2> QED
        BY <2>1, CallerChange DEF Returns
<1>12. CASE StopTakes(c)
    <2> DEFINE l == [k EXCEPT !.worker = slot, !.step = "stopJoin"]
    <2>1. l.step = "stopJoin" /\ l.op = k.op /\ l.worker = slot
        BY <1>1 DEF Caller
    <2>2. /\ callers' = [callers EXCEPT ![c] = l] /\ slot' = 0 /\ k.op = "stop" /\ k.worker = 0
          /\ stolen' = stolen
        BY <1>1, <1>12 DEF StopTakes, Acting
    <2> HIDE DEF l
    <2> QED
        BY <2>1, <2>2, CallerChange
<1>13. CASE StopJoins(c)
    <2>1. /\ callers' = [callers EXCEPT ![c] = [Returned EXCEPT !.op = "status"]]
          /\ slot' = slot /\ stolen' = stolen /\ k.worker \notin Live
        BY <1>13 DEF StopJoins
    <2> QED
        BY <2>1, CallerChange
<1>14. CASE StopFindsNothing(c)
    <2>1. /\ callers' = [callers EXCEPT ![c] = [Returned EXCEPT !.op = "stopNothing"]]
          /\ slot' = slot /\ stolen' = stolen /\ slot = 0 /\ k.op = "stop" /\ k.step = "act"
          /\ k.worker = 0
        BY <1>1, <1>14 DEF StopFindsNothing, Acting
    <2>2. ~ stolen => Live = {}
        BY <1>1, <2>1, NoWorkerLeft DEF ControllerOps
    <2> QED
        BY <2>1, <2>2, CallerChange
<1>15. CASE StopWritesStatus(c)
    BY <1>1, <1>3, <1>15 DEF StopWritesStatus, At
<1> QED
    BY <1>5, <1>6, <1>7, <1>8, <1>9, <1>10, <1>11, <1>12, <1>13, <1>14, <1>15 DEF CallerStep

\* The controller connects when no worker is left, and holds the new one.
LEMMA ConnectionOwned ==
    ASSUME ThreadTypes, CallsInOrder, LiveWorkersAreOwned,
           ~ stolen => OneWorker /\ StatusIsOfTheWorker, NEW c \in Callers, StartConnects(c)
    PROVE  LiveWorkersAreOwned' /\ (~ stolen' => OneWorker' /\ StatusIsOfTheWorker')
<1> DEFINE k == callers[c]
           l == [k EXCEPT !.worker = spawned', !.step = "publish"]
<1>1. /\ k \in Caller /\ k.step = "connect"
      /\ k.worker # 0 => k.step \in {"join", "publish", "stopJoin"}
      /\ k.op = "start" /\ c \in Controllers
    <2>1. k.step = "connect"
        BY DEF StartConnects, At
    <2> QED
        BY <2>1, ArgumentTypes DEF CallsInOrder, ControllerSteps
<1>2. l.step = "publish" /\ l.op = "start" /\ l.worker = spawned'
    BY <1>1 DEF Caller
<1>3. callers' = [callers EXCEPT ![c] = l]
    BY DEF StartConnects
<1> HIDE DEF l
<1>4. /\ callers'[c] = l
      /\ \A d \in Callers : d # c => callers'[d] = callers[d]
    BY <1>3 DEF ThreadTypes
<1>5. /\ status' = StatusOf("Connected", connected') /\ UNCHANGED <<slot, stolen>>
    BY DEF StartConnects
<1>6. LiveWorkersAreOwned'
    <2>1. k.worker = 0 /\ slot' = slot
        BY <1>1, <1>5
    <2>2. Live' = Live \cup {l.worker} /\ l.worker # 0
        BY <1>2, StartedWorker DEF Workers
    <2>3. 0 \notin Live'
        BY <2>2, NoWorkerZero
    <2> QED
        BY <1>3, <2>1, <2>2, <2>3, OwnedChange
<1>7. ASSUME ~ stolen' PROVE OneWorker' /\ StatusIsOfTheWorker'
    <2>1. Live = {}
        BY <1>1, <1>5, <1>7 DEF OneWorker
    <2>2. Live' = {spawned'}
        BY <2>1, StartedWorker
    <2>3. \A d \in Callers : callers'[d].step # "connect" /\ callers'[d].op # "stopNothing"
        <3>1. ASSUME NEW d \in Callers, callers[d].step = "connect" \/ callers[d].op = "stopNothing"
              PROVE  d = c
            BY <1>1, <3>1, OneController DEF CallsInOrder, ControllerSteps, ControllerOps
        <3> QED
            BY <1>2, <1>4, <3>1
    <2>4. OneWorker'
        BY <1>2, <1>4, <2>2, <2>3 DEF OneWorker
    <2>5. StatusIsOfTheWorker'
        BY <1>5, <2>2, StartedWorker DEF StatusIsOfTheWorker, StatusOf
    <2> QED
        BY <2>4, <2>5
<1> QED
    BY <1>6, <1>7

\* A caller leaves the status alone, or says Stopped when there is no worker.
LEMMA CallerKeepsStatus ==
    ASSUME ThreadTypes, CallsInOrder, ~ stolen => OneWorker /\ StatusIsOfTheWorker,
           NEW c \in Callers, CallerStep(c), ~ StartConnects(c), ~ stolen'
    PROVE  StatusIsOfTheWorker'
<1>1. ~ stolen
    BY DEF CallerStep, LookForFinished, TakeWorker, JoinReturns, ReadStatus, StartLooks, StartFails,
        StartPublishes, StopTakes, StopJoins, StopFindsNothing, StopWritesStatus
<1>2. /\ Live' = Live /\ Live \subseteq Workers
      /\ \A w \in Live : /\ workers'[w].phase = workers[w].phase
                         /\ workers'[w].connection = workers[w].connection
    BY CallerKeepsLive DEF Live
<1>3. CASE status' = status
    BY <1>1, <1>2, <1>3 DEF StatusIsOfTheWorker
<1>4. CASE StopWritesStatus(c)
    <2>1. callers[c].step = "write" /\ status'.state = "Stopped" /\ slot' = slot
        BY <1>4 DEF StopWritesStatus, At, StatusOf
    <2>2. callers[c].op = "stopNothing"
        BY <1>4, <2>1 DEF CallsInOrder
    <2>3. Live = {}
        BY <1>1, <2>2 DEF OneWorker
    <2> QED
        BY <1>2, <2>1, <2>3 DEF StatusIsOfTheWorker
<1> QED
    BY <1>3, <1>4
    DEF CallerStep, LookForFinished, TakeWorker, JoinReturns, ReadStatus, StartLooks, StartFails,
        StartPublishes, StopTakes, StopJoins, StopFindsNothing

LEMMA WorkerStepOwned ==
    ASSUME ThreadTypes, LiveWorkersAreOwned, ~ stolen => OneWorker /\ StatusIsOfTheWorker,
           NEW w \in Workers, WorkerStep(w)
    PROVE  LiveWorkersAreOwned' /\ (~ stolen' => OneWorker' /\ StatusIsOfTheWorker')
<1>1. w \in Live /\ Live' \subseteq Live /\ UNCHANGED <<slot, callers, stolen>>
    BY WorkerKeepsLive
<1>2. LiveWorkersAreOwned'
    BY <1>1 DEF LiveWorkersAreOwned
<1>3. ASSUME ~ stolen' PROVE OneWorker' /\ StatusIsOfTheWorker'
    <2>1. OneWorker /\ StatusIsOfTheWorker
        BY <1>1, <1>3
    <2>2. OneWorker'
        BY <1>1, <2>1 DEF OneWorker
    <2>3. \A v \in Live : v = w
        BY <1>1, <2>1 DEF OneWorker
    <2>4. Live = {w} /\ w \in Live
        BY <1>1, <2>3
    <2>5. CASE Live' = Live \ {w} /\ status'.state \in {"Stopped", "Failed"}
        <3>1. Live' = {} /\ status'.state # "Connected"
            BY <2>4, <2>5
        <3> QED
            BY <2>2, <3>1 DEF StatusIsOfTheWorker
    <2>6. ASSUME Live' = Live,
                 (status'.state = "Connected") <=> (workers'[w].phase = "pumping"),
                 workers'[w].phase = "pumping" => status'.connection = workers'[w].connection
          PROVE  StatusIsOfTheWorker'
        <3>1. Live' = {w}
            BY <2>4, <2>6
        <3> QED
            BY <2>6, <3>1 DEF StatusIsOfTheWorker
    <2>7. CASE Live' = Live /\ workers'[w].phase = "backoff" /\ status'.state = "Reconnecting"
        BY <2>2, <2>6, <2>7
    <2>8. CASE /\ Live' = Live /\ workers'[w].phase = "pumping"
               /\ workers'[w].connection = connected' /\ status' = StatusOf("Connected", connected')
        BY <2>2, <2>6, <2>8 DEF StatusOf
    <2>9. CASE /\ Live' = Live /\ workers[w].phase = "backoff" /\ workers'[w].phase = "backoff"
               /\ status' = status
        <3>1. status.state # "Connected"
            BY <2>1, <2>4, <2>9 DEF StatusIsOfTheWorker
        <3> QED
            BY <2>2, <2>6, <2>9, <3>1
    <2> QED
        BY <2>2, <2>5, <2>7, <2>8, <2>9, WorkerKeepsLive
<1> QED
    BY <1>2, <1>3

LEMMA BridgeInvariantStep ==
    ASSUME BridgeInvariant, [BridgeNext]_bridgeVars
    PROVE  BridgeInvariant'
<1> USE DEF BridgeInvariant
<1>1. ThreadTypes' /\ CallsInOrder'
    BY ThreadTypesStep, CallsInOrderStep
<1> DEFINE Goal == LiveWorkersAreOwned' /\ (~ stolen' => OneWorker' /\ StatusIsOfTheWorker')
<1>2. CASE \E c \in Callers : Call(c)
    <2>1. PICK c \in Callers : Call(c)
        BY <1>2
    <2>2. PICK op \in Operations[c] : callers' = [callers EXCEPT ![c] = [callers[c] EXCEPT !.op = op]]
        BY <2>1 DEF Call
    <2> DEFINE l == [callers[c] EXCEPT !.op = op]
    <2>3. callers[c] = Returned /\ UNCHANGED <<slot, status, workers, stolen>>
        BY <2>1 DEF Call
    <2>4. l.op = op /\ l.step = "cleanup"
        BY <2>3 DEF Returned
    <2>5. op # "stopNothing"
        BY BridgeAssumption DEF AllOperations
    <2>6. callers' = [callers EXCEPT ![c] = l] /\ callers[c].worker = 0 /\ Live' = Live
        BY <2>2, <2>3, ReturnedFields DEF Live
    <2> HIDE DEF l
    <2>7. LiveWorkersAreOwned' /\ (~ stolen' => OneWorker')
        BY <2>3, <2>4, <2>5, <2>6, CallerChange, NoWorkerZero
    <2>8. ~ stolen' => StatusIsOfTheWorker'
        BY <2>3, <2>6 DEF StatusIsOfTheWorker
    <2> QED
        BY <1>1, <2>7, <2>8
<1>3. CASE \E c \in Callers : CallerStep(c)
    <2>1. PICK c \in Callers : CallerStep(c)
        BY <1>3
    <2>2. CASE StartConnects(c)
        BY <1>1, <2>2, ConnectionOwned
    <2>3. CASE ~ StartConnects(c)
        BY <1>1, <2>1, <2>3, CallerStepOwned, CallerKeepsStatus
    <2> QED
        BY <2>2, <2>3
<1>4. CASE \E w \in Workers : WorkerStep(w)
    BY <1>1, <1>4, WorkerStepOwned
<1>5. CASE ResolveContinue \/ PointersExpire \/ RootMoves \/ UNCHANGED bridgeVars
    <2>1. UNCHANGED threadVars
        BY <1>5, MovedRoot DEF ResolveContinue, PointersExpire, bridgeVars
    <2> QED
        BY <1>1, <2>1 DEF threadVars, Live, LiveWorkersAreOwned, OneWorker, StatusIsOfTheWorker
<1>6. CASE ProcessRestarts
    <2>1. \A w \in Workers : workers'[w].phase \in {"unborn", "done"}
        <3>1. \A w \in Workers : Ended(workers[w]).phase = "done"
            BY ConstantRecords DEF ThreadTypes
        <3> QED
            BY <1>6, <3>1 DEF ProcessRestarts, Unborn
    <2>2. Live' = {}
        BY <2>1 DEF Live
    <2>3. status'.state = "Ready"
        BY <1>6 DEF ProcessRestarts, StatusOf
    <2> QED
        BY <1>1, <2>2, <2>3 DEF LiveWorkersAreOwned, OneWorker, StatusIsOfTheWorker
<1> QED
    BY <1>2, <1>3, <1>4, <1>5, <1>6 DEF BridgeNext, RootMoves

\* What BridgeManager promises of its threads holds in every state.
THEOREM BridgeInvariantHolds == BridgeSpec => []BridgeInvariant
<1>1. BridgeInit => BridgeInvariant
    BY BridgeInvariantInit
<1>2. BridgeInvariant /\ [BridgeNext]_bridgeVars => BridgeInvariant'
    BY BridgeInvariantStep
<1> QED
    BY <1>1, <1>2, PTL DEF BridgeSpec

\* A running worker thread is always in the state, or in the hands of the call that started it or
\* waits for it: no join handle is dropped.
THEOREM NoHandleIsDropped == BridgeSpec => []LiveWorkersAreOwned
<1>1. BridgeInvariant => LiveWorkersAreOwned
    BY DEF BridgeInvariant
<1> QED
    BY <1>1, BridgeInvariantHolds, PTL

\* As long as no cleanup takes a running worker there is one bridge at a time, and the status is
\* Connected, with the ids of its connection, just while that one has a transport.
THEOREM OneBridge == BridgeSpec => []OneBridgeAtATime
<1>1. BridgeInvariant => OneBridgeAtATime
    <2> SUFFICES ASSUME BridgeInvariant, ~ stolen PROVE Cardinality(Live) <= 1
        BY DEF BridgeInvariant, OneBridgeAtATime, StatusIsOfTheWorker
    <2>1. CASE Live = {}
        BY <2>1, FS_EmptySet
    <2>2. CASE Live # {}
        <3>1. PICK w \in Live : TRUE
            BY <2>2
        <3>2. Live = {w}
            BY <3>1 DEF BridgeInvariant, OneWorker
        <3> QED
            BY <3>2, FS_Singleton
    <2> QED
        BY <2>1, <2>2
<1> QED
    BY <1>1, BridgeInvariantHolds, PTL

--------------------------------------------------------------------------------
(***************************************************************************)
(* The pointer files.  They hold a valid pointer each as long as every     *)
(* pointer could be saved and none has expired, the latest one first.      *)
(***************************************************************************)

ValidPointer == [root : Roots, connection : Connections, stale : {FALSE}]

PointerTypes ==
    /\ pointers \in Seq(Pointer)
    /\ unsaved \in BOOLEAN
    /\ ~ unsaved => pointers \in Seq(ValidPointer)
    /\ calls \in 0 .. MaxCalls /\ moves \in 0 .. MaxMoves /\ restarts \in 0 .. MaxRestarts

LEMMA PointerKinds ==
    /\ ValidPointer \subseteq Pointer
    /\ \A here \in Roots, connection \in 0 .. MaxConnections, stale \in BOOLEAN :
          [root |-> here, connection |-> connection, stale |-> stale] \in Pointer
    /\ \A here \in Roots, connection \in Connections :
          [root |-> here, connection |-> connection, stale |-> FALSE] \in ValidPointer
<1>1. Connections \subseteq 0 .. MaxConnections
    BY BoundFacts DEF Connections
<1> QED
    BY <1>1 DEF ValidPointer, Pointer

LEMMA PointersInTypes ==
    ASSUME NEW T, pointers \in Seq(T), NEW roots
    PROVE  PointersIn(roots) \in Seq(T)
<1> DEFINE S == [root : roots, connection : 0 .. MaxConnections, stale : BOOLEAN]
<1>1. Selected(pointers, S) \in Seq(T \cap S)
    BY SelectedIn
<1> DEFINE v == Selected(pointers, S)
<1>2. /\ DOMAIN v = 1 .. Len(v) /\ Len(v) \in Nat /\ \A i \in 1 .. Len(v) : v[i] \in T
      /\ v = [i \in 1 .. Len(v) |-> v[i]]
    <2> HIDE DEF S
    <2> QED
        BY <1>1
<1>3. v \in Seq(T)
    <2> HIDE DEF v
    <2> QED
        BY <1>2
<1> QED
    BY <1>3 DEF PointersIn

LEMMA SavedTypes ==
    ASSUME NEW T, pointers \in Seq(T), NEW connection,
           [root |-> root, connection |-> connection, stale |-> FALSE] \in T
    PROVE  /\ Saved(connection) \in Seq(T)
           /\ Saved(connection) # <<>>
           /\ Saved(connection)[1].connection = connection
<1> DEFINE p == [root |-> root, connection |-> connection, stale |-> FALSE]
           rest == Elsewhere(root)
<1>1. rest \in Seq(T) /\ p \in T /\ p.connection = connection
    BY PointersInTypes DEF Elsewhere
<1>2. Saved(connection) = <<p>> \o rest
    BY DEF Saved
<1> HIDE DEF p, rest
<1>3. <<p>> \o rest \in Seq(T) /\ <<p>> \o rest # <<>> /\ (<<p>> \o rest)[1] = p
    BY <1>1
<1> QED
    BY <1>1, <1>2, <1>3

LEMMA FirstOfMany ==
    ASSUME NEW u, Len(u) \in Nat, NEW I, I = {i \in 1 .. Len(u) : Valid(u[i])}, 1 \in I
    PROVE  SelectInSeq(u, Valid) = 1
<1>1. SelectInSeq(u, Valid) = IF I # {} THEN Min(I) ELSE 0
    BY DEF SelectInSeq
<1>2. Min(I) = 1
    <2>1. \A i \in I : 1 <= i /\ i \in Nat
        OBVIOUS
    <2>2. Min(I) = CHOOSE x \in I : \A y \in I : x <= y
        BY DEF Min
    <2>3. \A x \in I : (\A y \in I : x <= y) => x = 1
        BY <2>1
    <2> QED
        BY <2>1, <2>2, <2>3
<1> QED
    BY <1>1, <1>2

\* When all pointers are valid the first one in scope is found, and none is read in vain.
LEMMA FirstIsValid ==
    ASSUME pointers \in Seq(ValidPointer)
    PROVE  /\ InVain = {}
           /\ pointers # <<>> /\ pointers[1].root \in Listed =>
                /\ FirstValid = 1
                /\ InScope[1] = pointers[1]
<1> DEFINE S == [root : Listed, connection : 0 .. MaxConnections, stale : BOOLEAN]
           u == PointersIn(Listed)
           n == IF Len(u) < FanoutLimit THEN Len(u) ELSE FanoutLimit
<1>1. u \in Seq(ValidPointer) /\ Len(u) \in Nat /\ FanoutLimit \in Nat \ {0}
    <2>1. u \in Seq(ValidPointer)
        BY PointersInTypes
    <2> HIDE DEF u
    <2> QED
        BY <2>1, BridgeAssumption
<1>2. InScope = SubSeq(u, 1, n)
    BY DEF InScope
<1>u. u = Selected(pointers, S)
    BY DEF PointersIn
<1> HIDE DEF u
<1>3. /\ InScope \in Seq(ValidPointer) /\ Len(InScope) = n /\ n \in Nat
      /\ u # <<>> => InScope # <<>> /\ InScope[1] = u[1] /\ 1 <= n
      /\ u = <<>> => Len(InScope) = 0
    <2>1. n \in 0 .. Len(u) /\ (u # <<>> => 1 <= n) /\ (u = <<>> => n = 0)
        <3>1. u # <<>> => Len(u) # 0
            BY <1>1
        <3>2. u = <<>> => Len(u) = 0
            OBVIOUS
        <3> QED
            BY <1>1, <3>1, <3>2
    <2> HIDE DEF n
    <2>2. /\ SubSeq(u, 1, n) \in Seq(ValidPointer) /\ Len(SubSeq(u, 1, n)) = n
          /\ 1 <= n => SubSeq(u, 1, n)[1] = u[1]
        BY <1>1, <2>1
    <2>3. 1 <= n => InScope # <<>>
        BY <1>2, <2>1, <2>2
    <2> QED
        BY <1>2, <2>1, <2>2, <2>3
<1>4. ASSUME u # <<>> PROVE FirstValid = 1
    <2>1. InScope[1] \in ValidPointer
        BY <1>3, <1>4
    <2>2. Valid(InScope[1])
        <3>1. InScope[1].connection \in Connections /\ InScope[1].stale = FALSE
            BY <2>1 DEF ValidPointer
        <3>2. 0 \notin Connections
            BY BoundFacts DEF Connections
        <3> QED
            BY <3>1, <3>2 DEF Valid
    <2> DEFINE I == {i \in 1 .. Len(InScope) : Valid(InScope[i])}
    <2>3. 1 \in I /\ Len(InScope) \in Nat
        BY <1>3, <1>4, <2>2
    <2> HIDE DEF I
    <2> QED
        BY <2>3, FirstOfMany DEF I, FirstValid
<1>5. InVain = {}
    <2>1. CASE u = <<>>
        <3>1. Len(InScope) = 0
            BY <1>3, <2>1
        <3>2. FirstValid = 0
            BY <3>1 DEF FirstValid, SelectInSeq
        <3> QED
            BY <3>1, <3>2 DEF InVain
    <2>2. CASE u # <<>>
        BY <1>4, <2>2 DEF InVain
    <2> QED
        BY <2>1, <2>2
<1>6. ASSUME pointers # <<>>, pointers[1].root \in Listed
      PROVE  u # <<>> /\ u[1] = pointers[1]
    <2>1. pointers[1] \in ValidPointer
        BY <1>6
    <2>2. pointers[1] \in S
        <3>1. pointers[1] \in Pointer
            BY <2>1, PointerKinds
        <3> QED
            BY <1>6, <3>1 DEF Pointer
    <2> HIDE DEF S
    <2> QED
        BY <1>6, <1>u, <2>2, SelectedFirst
<1> QED
    BY <1>3, <1>4, <1>5, <1>6

\* What a step does to the pointers.
PointersKept == pointers' = pointers /\ unsaved' = unsaved
PointersDoubtful == pointers' \in {pointers, Saved(0)} /\ unsaved' = TRUE
PointerAdded == \E connection \in Connections : pointers' = Saved(connection) /\ unsaved' = unsaved
PointerRemoved ==
    \E c \in Callers : /\ StopJoins(c)
                       /\ pointers' = Elsewhere(workers[callers[c].worker].path)
                       /\ unsaved' = unsaved

LEMMA PointerSteps ==
    ASSUME ThreadTypes, [BridgeNext]_bridgeVars
    PROVE  \/ PointersKept \/ PointersDoubtful \/ PointerAdded \/ PointerRemoved
           \/ ResolveContinue \/ PointersExpire
<1>1. CASE \E c \in Callers : Call(c)
    BY <1>1 DEF Call, PointersKept
<1>2. CASE \E c \in Callers : CallerStep(c)
    <2>1. PICK c \in Callers : CallerStep(c)
        BY <1>2
    <2>2. CASE \/ LookForFinished(c) \/ TakeWorker(c) \/ JoinReturns(c) \/ ReadStatus(c)
               \/ StartLooks(c) \/ StartPublishes(c) \/ StopTakes(c) \/ StopFindsNothing(c)
               \/ StopWritesStatus(c)
        BY <2>2
        DEF LookForFinished, TakeWorker, JoinReturns, ReadStatus, StartLooks, StartPublishes,
            StopTakes, StopFindsNothing, StopWritesStatus, callerFrame, PointersKept
    <2>3. CASE StartFails(c)
        BY <2>3 DEF StartFails, PointerNotSaved, PointersKept, PointersDoubtful
    <2>4. CASE StartConnects(c)
        BY <2>4 DEF StartConnects, PointerSaved, PointerAdded
    <2>5. CASE StopJoins(c)
        BY <2>5 DEF StopJoins, callerFrame, PointerRemoved
    <2> QED
        BY <2>1, <2>2, <2>3, <2>4, <2>5 DEF CallerStep
<1>3. CASE \E w \in Workers : WorkerStep(w)
    <2>1. PICK w \in Workers : WorkerStep(w)
        BY <1>3
    <2>2. CASE WorkerReconnects(w)
        <3>1. connected + 1 \in Connections
            BY <2>2, BoundFacts DEF WorkerReconnects, ThreadTypes, Connections
        <3> QED
            BY <2>2, <3>1
            DEF WorkerReconnects, PointerSaved, PointerNotSaved, PointerAdded, PointersDoubtful
    <2> QED
        BY <2>1, <2>2
        DEF WorkerStep, WorkerStops, WorkerFails, WorkerDisconnects, WorkerRetries, WorkerGivesUp,
            PointersKept
<1>4. CASE RootMoves \/ ProcessRestarts \/ UNCHANGED bridgeVars
    BY <1>4, MovedRoot DEF ProcessRestarts, bridgeVars, PointersKept
<1> QED
    BY <1>1, <1>2, <1>3, <1>4 DEF BridgeNext, RootMoves

LEMMA BoundsStep ==
    ASSUME PointerTypes, [BridgeNext]_bridgeVars
    PROVE  calls' \in 0 .. MaxCalls /\ moves' \in 0 .. MaxMoves /\ restarts' \in 0 .. MaxRestarts
<1>1. MaxCalls \in Nat /\ MaxMoves \in Nat /\ MaxRestarts \in Nat
    BY BridgeAssumption
<1>2. calls' \in {calls, calls + 1} /\ (calls' # calls => calls < MaxCalls)
    BY DEF BridgeNext, Call, CallerStep, LookForFinished, TakeWorker, JoinReturns, ReadStatus,
        StartLooks, StartFails, StartConnects, StartPublishes, StopTakes, StopJoins,
        StopFindsNothing, StopWritesStatus, callerFrame, bounds, WorkerStep, WorkerStops,
        WorkerFails, WorkerDisconnects, WorkerReconnects, WorkerRetries, WorkerGivesUp,
        workerFrame, ResolveContinue, PointersExpire, EnterWorktree, ExitWorktree, RuntimeRestored,
        RuntimeMoves, ProcessRestarts, bridgeVars
<1>3. moves' \in {moves, moves + 1} /\ (moves' # moves => moves < MaxMoves)
    BY DEF BridgeNext, Call, CallerStep, LookForFinished, TakeWorker, JoinReturns, ReadStatus,
        StartLooks, StartFails, StartConnects, StartPublishes, StopTakes, StopJoins,
        StopFindsNothing, StopWritesStatus, callerFrame, bounds, WorkerStep, WorkerStops,
        WorkerFails, WorkerDisconnects, WorkerReconnects, WorkerRetries, WorkerGivesUp,
        workerFrame, ResolveContinue, PointersExpire, EnterWorktree, ExitWorktree, RuntimeRestored,
        RuntimeMoves, ProcessRestarts, bridgeVars
<1>4. restarts' \in {restarts, restarts + 1} /\ (restarts' # restarts => restarts < MaxRestarts)
    BY DEF BridgeNext, Call, CallerStep, LookForFinished, TakeWorker, JoinReturns, ReadStatus,
        StartLooks, StartFails, StartConnects, StartPublishes, StopTakes, StopJoins,
        StopFindsNothing, StopWritesStatus, callerFrame, bounds, WorkerStep, WorkerStops,
        WorkerFails, WorkerDisconnects, WorkerReconnects, WorkerRetries, WorkerGivesUp,
        workerFrame, ResolveContinue, PointersExpire, EnterWorktree, ExitWorktree, RuntimeRestored,
        RuntimeMoves, ProcessRestarts, bridgeVars
<1> QED
    BY <1>1, <1>2, <1>3, <1>4 DEF PointerTypes

\* The runtime is at a root that has been made, and the project's own is never removed.
WorktreeTypes ==
    /\ worktrees \in [Roots -> {"none", "there", "removed"}]
    /\ root \in Roots /\ worktrees[root] # "none" /\ worktrees[Main] = "there"

LEMMA WorktreeTypesInit == BridgeInit => WorktreeTypes
    BY BoundFacts DEF BridgeInit, WorktreeTypes

LEMMA WorktreeTypesStep ==
    ASSUME WorktreeTypes, [BridgeNext]_bridgeVars
    PROVE  WorktreeTypes'
<1>1. CASE UNCHANGED <<root, worktrees>>
    BY <1>1 DEF WorktreeTypes
<1>2. CASE EnterWorktree
    BY <1>2 DEF EnterWorktree, WorktreeTypes
<1>3. CASE ExitWorktree
    BY <1>3, BoundFacts DEF ExitWorktree, WorktreeTypes
<1>4. CASE RuntimeRestored \/ ProcessRestarts
    BY <1>4 DEF RuntimeRestored, ProcessRestarts, WorktreeTypes
<1>5. ASSUME \/ \E c \in Callers : Call(c) \/ CallerStep(c)
             \/ \E w \in Workers : WorkerStep(w)
             \/ ResolveContinue \/ PointersExpire \/ UNCHANGED bridgeVars
      PROVE  UNCHANGED <<root, worktrees>>
    BY <1>5
    DEF Call, CallerStep, LookForFinished, TakeWorker, JoinReturns, ReadStatus, StartLooks,
        StartFails, StartConnects, StartPublishes, StopTakes, StopJoins, StopFindsNothing,
        StopWritesStatus, callerFrame, WorkerStep, WorkerStops, WorkerFails, WorkerDisconnects,
        WorkerReconnects, WorkerRetries, WorkerGivesUp, workerFrame, ResolveContinue,
        PointersExpire, bridgeVars
<1> QED
    BY <1>1, <1>2, <1>3, <1>4, <1>5 DEF BridgeNext

LEMMA PointerTypesInit == BridgeInit => PointerTypes
<1> SUFFICES ASSUME BridgeInit PROVE PointerTypes
    OBVIOUS
<1>1. pointers = <<>> /\ unsaved = FALSE /\ calls = 0 /\ moves = 0 /\ restarts = 0
    BY DEF BridgeInit
<1>2. MaxCalls \in Nat /\ MaxMoves \in Nat /\ MaxRestarts \in Nat
    BY BridgeAssumption
<1>3. <<>> \in Seq(Pointer) /\ <<>> \in Seq(ValidPointer)
    OBVIOUS
<1>4. calls \in 0 .. MaxCalls /\ moves \in 0 .. MaxMoves /\ restarts \in 0 .. MaxRestarts
    BY <1>1, <1>2
<1> QED
    BY <1>1, <1>3, <1>4, Zenon DEF PointerTypes

LEMMA PointerTypesStep ==
    ASSUME ThreadTypes, ThreadTypes', PointerTypes, [BridgeNext]_bridgeVars
    PROVE  PointerTypes'
<1>1. /\ pointers \in Seq(Pointer) /\ unsaved \in BOOLEAN
      /\ ~ unsaved => pointers \in Seq(ValidPointer)
      /\ root \in Roots
    BY DEF PointerTypes, ThreadTypes
<1> SUFFICES /\ pointers' \in Seq(Pointer) /\ unsaved' \in BOOLEAN
             /\ ~ unsaved' => pointers' \in Seq(ValidPointer)
    BY BoundsStep DEF PointerTypes
<1>2. CASE PointersKept
    BY <1>1, <1>2 DEF PointersKept
<1>3. CASE PointersDoubtful
    <2>1. [root |-> root, connection |-> 0, stale |-> FALSE] \in Pointer
        BY <1>1, PointerKinds, BoundFacts
    <2>2. Saved(0) \in Seq(Pointer)
        BY <1>1, <2>1, SavedTypes
    <2> QED
        BY <1>1, <1>3, <2>2 DEF PointersDoubtful
<1>4. CASE PointerAdded
    <2>1. PICK connection \in Connections : pointers' = Saved(connection) /\ unsaved' = unsaved
        BY <1>4 DEF PointerAdded
    <2>2. [root |-> root, connection |-> connection, stale |-> FALSE] \in ValidPointer
        BY <1>1, PointerKinds
    <2>3. [root |-> root, connection |-> connection, stale |-> FALSE] \in Pointer
        BY <2>2, PointerKinds
    <2>4. Saved(connection) \in Seq(Pointer)
        BY <1>1, <2>3, SavedTypes
    <2>5. ~ unsaved => Saved(connection) \in Seq(ValidPointer)
        BY <1>1, <2>2, SavedTypes
    <2> QED
        BY <1>1, <2>1, <2>4, <2>5
<1>5. CASE PointerRemoved
    <2>1. PICK here : pointers' = Elsewhere(here) /\ unsaved' = unsaved
        BY <1>5 DEF PointerRemoved
    <2> QED
        BY <1>1, <2>1, PointersInTypes DEF Elsewhere
<1>6. CASE ResolveContinue
    <2>1. pointers' = PointersIn(Roots \ InVain) /\ unsaved' = unsaved
        BY <1>6 DEF ResolveContinue
    <2> QED
        BY <1>1, <2>1, PointersInTypes
<1>7. CASE PointersExpire
    <2>1. PICK i \in 1 .. Len(pointers) :
              pointers' = [j \in 1 .. Len(pointers) |->
                             [pointers[j] EXCEPT !.stale = @ \/ j >= i]]
        BY <1>7 DEF PointersExpire
    <2>2. Len(pointers) \in Nat /\ \A j \in 1 .. Len(pointers) : pointers[j] \in Pointer
        BY <1>1
    <2>3. \A j \in 1 .. Len(pointers) :
              [pointers[j] EXCEPT !.stale = @ \/ j >= i] \in Pointer
        <3> SUFFICES ASSUME NEW p \in Pointer, NEW b \in BOOLEAN
                     PROVE  [p EXCEPT !.stale = @ \/ b] \in Pointer
            BY <2>2
        <3>1. p.stale \in BOOLEAN
            BY DEF Pointer
        <3>2. (p.stale \/ b) \in BOOLEAN
            OBVIOUS
        <3> QED
            BY <3>1, <3>2 DEF Pointer
    <2>4. pointers' \in Seq(Pointer)
        BY <2>1, <2>2, <2>3
    <2>5. unsaved' = TRUE
        BY <1>7 DEF PointersExpire
    <2> QED
        BY <2>4, <2>5
<1> QED
    BY <1>2, <1>3, <1>4, <1>5, <1>6, <1>7, PointerSteps

--------------------------------------------------------------------------------
(***************************************************************************)
(* The latest pointer is that of the connected bridge.                     *)
(***************************************************************************)

\* While the controller waits for the end of the worker it stops, nothing is in the slot: the
\* pointer that stop removes afterwards is not that of another bridge.
StopHoldsTheSlot == \A c \in Callers : callers[c].step = "stopJoin" => slot = 0

LatestPointer ==
    ~ stolen /\ ~ unsaved =>
        \A w \in Live : workers[w].phase = "pumping" =>
            /\ pointers # <<>>
            /\ pointers[1].connection = workers[w].connection

PointerInvariant == StopHoldsTheSlot /\ LatestPointer

LEMMA StopHoldsTheSlotStep ==
    ASSUME BridgeInvariant, StopHoldsTheSlot, [BridgeNext]_bridgeVars
    PROVE  StopHoldsTheSlot'
<1>1. CASE UNCHANGED <<slot, callers>>
    BY <1>1 DEF StopHoldsTheSlot
<1>2. CASE \E c \in Callers : Call(c)
    <2>1. PICK c \in Callers :
              /\ callers[c] = Returned /\ slot' = slot
              /\ \E op : callers' = [callers EXCEPT ![c] = [callers[c] EXCEPT !.op = op]]
        BY <1>2 DEF Call
    <2>2. \A d \in Callers : callers'[d].step = callers[d].step
        BY <2>1 DEF BridgeInvariant, ThreadTypes, Returned
    <2> QED
        BY <2>1, <2>2 DEF StopHoldsTheSlot
<1>3. CASE ProcessRestarts
    BY <1>3, ReturnedFields DEF ProcessRestarts, StopHoldsTheSlot
<1>4. ASSUME NEW c \in Callers, CallerStep(c)
      PROVE  StopHoldsTheSlot'
    <2>1. /\ callers \in [Callers -> Caller] /\ callers[c] \in Caller
        BY DEF BridgeInvariant, ThreadTypes
    <2>2. \A d \in Callers : d # c => callers'[d] = callers[d]
        BY <1>4, <2>1
        DEF CallerStep, LookForFinished, TakeWorker, JoinReturns, ReadStatus, StartLooks, StartFails,
            StartConnects, StartPublishes, StopTakes, StopJoins, StopFindsNothing,
            StopWritesStatus, Goes, Returns
    <2>3. CASE StopTakes(c)
        <3>1. slot' = 0
            BY <2>3 DEF StopTakes
        <3> QED
            BY <3>1 DEF StopHoldsTheSlot
    <2>4. ASSUME ~ StopTakes(c) PROVE callers'[c].step # "stopJoin"
        <3>1. \A step \in Steps : [callers[c] EXCEPT !.step = step].step = step
            BY <2>1 DEF Caller
        <3>2. \A w, step : [callers[c] EXCEPT !.worker = w, !.step = step].step = step
            BY <2>1 DEF Caller
        <3>3. \A k : callers' = [callers EXCEPT ![c] = k] => callers'[c] = k
            BY <2>1
        <3>4. CASE ReadStatus(c)
            <4>1. [callers[c] EXCEPT !.seen = status.connection, !.step = "write"].step = "write"
                BY <2>1 DEF Caller
            <4>2. \/ callers' = [callers EXCEPT ![c] = Returned]
                  \/ callers' = [callers EXCEPT ![c].step = "cleanup"]
                  \/ callers' = [callers EXCEPT
                                   ![c] = [callers[c] EXCEPT !.seen = status.connection,
                                                             !.step = "write"]]
                BY <3>4 DEF ReadStatus, Goes, Returns
            <4>3. callers' = [callers EXCEPT ![c].step = "cleanup"] =>
                      callers'[c].step = "cleanup"
                BY <2>1 DEF Caller
            <4> QED
                BY <3>3, <4>1, <4>2, <4>3, ReturnedFields
        <3>5. CASE LookForFinished(c) \/ StartLooks(c)
            BY <3>1, <3>3, <3>5, ReturnedFields
            DEF LookForFinished, StartLooks, Goes, Returns, Steps
        <3>6. CASE TakeWorker(c) \/ JoinReturns(c) \/ StartConnects(c)
            <4>1. PICK w : \E step \in {"join", "act", "publish"} :
                      callers' = [callers EXCEPT ![c] = [callers[c] EXCEPT !.worker = w,
                                                                           !.step = step]]
                BY <3>6 DEF TakeWorker, JoinReturns, StartConnects
            <4>2. PICK step \in {"join", "act", "publish"} :
                      callers' = [callers EXCEPT ![c] = [callers[c] EXCEPT !.worker = w,
                                                                           !.step = step]]
                BY <4>1
            <4> DEFINE k == [callers[c] EXCEPT !.worker = w, !.step = step]
            <4>3. k.step = step /\ callers' = [callers EXCEPT ![c] = k]
                BY <3>2, <4>2
            <4> HIDE DEF k
            <4>4. callers'[c] = k
                BY <3>3, <4>3
            <4> QED
                BY <4>3, <4>4
        <3>7. CASE StartFails(c) \/ StartPublishes(c) \/ StopJoins(c) \/ StopFindsNothing(c)
                   \/ StopWritesStatus(c)
            BY <3>3, <3>7, ReturnedFields
            DEF StartFails, StartPublishes, StopJoins, StopFindsNothing, StopWritesStatus, Returns
        <3> QED
            BY <1>4, <2>4, <3>4, <3>5, <3>6, <3>7 DEF CallerStep
    <2>5. CASE StartPublishes(c)
        <3>1. callers[c].step = "publish"
            BY <2>5 DEF StartPublishes, At
        <3>2. c \in Controllers
            BY <3>1 DEF BridgeInvariant, CallsInOrder, ControllerSteps
        <3>3. \A d \in Callers : d # c => callers[d].step # "stopJoin"
            BY <3>2, OneController DEF BridgeInvariant, CallsInOrder, ControllerSteps
        <3>4. ~ StopTakes(c)
            BY <3>1 DEF StopTakes, Acting
        <3> QED
            BY <2>2, <2>4, <3>3, <3>4 DEF StopHoldsTheSlot
    <2>6. ASSUME ~ StartPublishes(c) PROVE slot' = slot \/ slot' = 0
        BY <1>4, <2>6
        DEF CallerStep, LookForFinished, TakeWorker, JoinReturns, ReadStatus, StartLooks, StartFails,
            StartConnects, StopTakes, StopJoins, StopFindsNothing, StopWritesStatus,
            callerFrame
    <2>7. CASE ~ StopTakes(c) /\ ~ StartPublishes(c)
        BY <2>2, <2>4, <2>6, <2>7 DEF StopHoldsTheSlot
    <2> QED
        BY <2>3, <2>5, <2>7
<1>5. ASSUME \/ \E w \in Workers : WorkerStep(w)
             \/ ResolveContinue \/ PointersExpire \/ RootMoves \/ UNCHANGED bridgeVars
      PROVE  UNCHANGED <<slot, callers>>
    BY <1>5, MovedRoot
    DEF WorkerStep, WorkerStops, WorkerFails, WorkerDisconnects, WorkerReconnects, WorkerRetries,
        WorkerGivesUp, workerFrame, ResolveContinue, PointersExpire, bridgeVars, threadVars
<1> QED
    BY <1>1, <1>2, <1>3, <1>4, <1>5 DEF BridgeNext, RootMoves

\* The pointers are left alone, and so is the one that comes first when all are valid.
LEMMA FirstPointerKept ==
    ASSUME PointerTypes, ~ unsaved', PointersKept \/ ResolveContinue
    PROVE  ~ unsaved /\ pointers' = pointers
<1>1. CASE PointersKept
    BY <1>1 DEF PointersKept
<1>2. CASE ResolveContinue
    <2>1. unsaved' = unsaved /\ pointers' = PointersIn(Roots \ InVain)
        BY <1>2 DEF ResolveContinue
    <2>2. pointers \in Seq(ValidPointer) /\ pointers \in Seq(Pointer)
        BY <2>1 DEF PointerTypes
    <2>3. Roots \ InVain = Roots
        BY <2>2, FirstIsValid
    <2>4. pointers' = Selected(pointers, Pointer)
        BY <2>1, <2>3 DEF PointersIn, Pointer
    <2>5. Selected(pointers, Pointer) = pointers
        BY <2>2, SelectedAll
    <2> QED
        BY <2>1, <2>4, <2>5
<1> QED
    BY <1>1, <1>2

LEMMA LatestPointerStep ==
    ASSUME BridgeInvariant, BridgeInvariant', PointerTypes, PointerTypes', PointerInvariant,
           [BridgeNext]_bridgeVars, ~ stolen', ~ unsaved',
           NEW v \in Live', workers'[v].phase = "pumping"
    PROVE  pointers' # <<>> /\ pointers'[1].connection = workers'[v].connection
<1>1. ThreadTypes /\ CallsInOrder /\ (~ stolen => OneWorker) /\ StopHoldsTheSlot
      /\ root \in Roots
    BY DEF BridgeInvariant, PointerInvariant, ThreadTypes
<1>2. CASE \E c \in Callers : StartConnects(c)
    <2>1. PICK c \in Callers : StartConnects(c)
        BY <1>2
    <2>2. v = spawned'
        <3>1. spawned' \in Live'
            BY <1>1, <2>1, StartedWorker
        <3> QED
            BY <3>1 DEF BridgeInvariant, OneWorker
    <2>3. workers'[v].connection = connected'
        BY <1>1, <2>1, <2>2, StartedWorker
    <2>4. pointers' = Saved(connected') /\ connected' \in Connections /\ unsaved' = unsaved
        BY <2>1 DEF StartConnects, PointerSaved
    <2>5. [root |-> root, connection |-> connected', stale |-> FALSE] \in Pointer
        BY <1>1, <2>4, PointerKinds
    <2> DEFINE x == connected'
    <2>6. pointers \in Seq(Pointer)
        BY DEF PointerTypes
    <2>7. Saved(x) # <<>> /\ Saved(x)[1].connection = x
        BY <2>5, <2>6, SavedTypes
    <2> QED
        BY <2>3, <2>4, <2>7
<1>3. CASE \E w \in Workers : WorkerStep(w)
    <2>1. PICK w \in Workers : WorkerStep(w)
        BY <1>3
    <2>2. /\ w \in Live /\ Live' \subseteq Live /\ stolen' = stolen
          /\ workers'[w].phase = "pumping" /\ w \in Live' => WorkerReconnects(w)
          /\ WorkerReconnects(w) => workers'[w].connection = connected'
        <3>1. w \in Live /\ stolen' = stolen
            BY <1>1, <2>1, WorkerKeepsLive
        <3>2. Live' \in {Live, Live \ {w}}
            BY <1>1, <2>1, WorkerKeepsLive, Zenon
        <3>3. workers'[w].phase = "pumping" /\ w \in Live' => WorkerReconnects(w)
            BY <1>1, <2>1, WorkerKeepsLive
        <3>4. WorkerReconnects(w) => workers'[w].connection = connected'
            <4> SUFFICES ASSUME WorkerReconnects(w)
                         PROVE  workers'[w].connection = connected'
                OBVIOUS
            <4>1. workers[w] \in Worker /\ workers \in [Workers -> Worker]
                BY <1>1 DEF ThreadTypes
            <4> DEFINE u == [workers[w] EXCEPT !.phase = "pumping",
                               !.connection = connected + 1, !.delay = 0, !.elapsed = 0]
            <4>2. u.connection = connected + 1
                BY <4>1 DEF Worker
            <4>3. workers' = [workers EXCEPT ![w] = u] /\ connected' = connected + 1
                BY DEF WorkerReconnects
            <4> HIDE DEF u
            <4> QED
                BY <4>1, <4>2, <4>3
        <3> QED
            BY <3>1, <3>2, <3>3, <3>4
    <2>3. v = w
        BY <1>1, <2>2 DEF OneWorker
    <2>4. WorkerReconnects(w) /\ workers'[v].connection = connected'
        BY <2>2, <2>3
    <2>5. connected' = connected + 1 /\ pointers' = Saved(connected')
        BY <2>4 DEF WorkerReconnects, PointerSaved, PointerNotSaved
    <2>6. connected' \in Connections
        BY <1>1, <2>4, BoundFacts DEF WorkerReconnects, ThreadTypes, Connections
    <2>7. [root |-> root, connection |-> connected', stale |-> FALSE] \in Pointer
        BY <1>1, <2>6, PointerKinds
    <2> DEFINE x == connected'
    <2>8. pointers \in Seq(Pointer)
        BY DEF PointerTypes
    <2>9. Saved(x) # <<>> /\ Saved(x)[1].connection = x
        BY <2>7, <2>8, SavedTypes
    <2> QED
        BY <2>4, <2>5, <2>9
<1>4. ASSUME Live' = Live, workers'[v].phase = workers[v].phase,
             workers'[v].connection = workers[v].connection, ~ stolen,
             PointersKept \/ ResolveContinue
      PROVE  pointers' # <<>> /\ pointers'[1].connection = workers'[v].connection
    <2>1. ~ unsaved /\ pointers' = pointers
        BY <1>4, FirstPointerKept
    <2> QED
        BY <1>4, <2>1 DEF PointerInvariant, LatestPointer
<1>5. CASE \E c \in Callers : CallerStep(c) /\ ~ StartConnects(c)
    <2>1. PICK c \in Callers : CallerStep(c) /\ ~ StartConnects(c)
        BY <1>5
    <2>2. ~ stolen
        BY <2>1
        DEF CallerStep, LookForFinished, TakeWorker, JoinReturns, ReadStatus, StartLooks, StartFails,
            StartPublishes, StopTakes, StopJoins, StopFindsNothing, StopWritesStatus
    <2>3. /\ Live' = Live /\ v \in Workers
          /\ workers'[v].phase = workers[v].phase
          /\ workers'[v].connection = workers[v].connection
        <3>1. v \in Workers
            BY DEF Live
        <3> QED
            BY <1>1, <2>1, <3>1, CallerKeepsLive
    <2>4. CASE StopJoins(c)
        <3>1. callers[c].step = "stopJoin" /\ callers[c].worker \notin Live
            BY <2>4 DEF StopJoins, At
        <3>2. c \in Controllers /\ slot = 0
            BY <1>1, <3>1 DEF CallsInOrder, ControllerSteps, StopHoldsTheSlot
        <3>3. v \in Live /\ v # slot
            BY <2>3, <3>2, NoWorkerZero
        <3>4. PICK d \in Callers : callers[d].worker = v /\ callers[d].step \in {"publish", "stopJoin"}
            BY <1>1, <2>2, <3>3 DEF OneWorker
        <3>5. d \in Controllers
            BY <1>1, <3>4 DEF CallsInOrder, ControllerSteps
        <3>6. d = c
            BY <3>2, <3>5, OneController
        <3> QED
            BY <3>1, <3>3, <3>4, <3>6
    <2>5. CASE ~ StopJoins(c)
        <3>1. PointersKept
            BY <2>1, <2>5
            DEF CallerStep, LookForFinished, TakeWorker, JoinReturns, ReadStatus, StartLooks,
                StartFails, StartPublishes, StopTakes, StopFindsNothing, StopWritesStatus,
                callerFrame, PointerNotSaved, PointersKept
        <3> QED
            BY <1>4, <2>2, <2>3, <3>1
    <2> QED
        BY <2>4, <2>5
<1>6. CASE \E c \in Callers : Call(c)
    <2>1. Live' = Live /\ workers' = workers /\ stolen' = stolen /\ PointersKept
        BY <1>6 DEF Call, Live, PointersKept
    <2> QED
        BY <1>4, <2>1
<1>7. CASE ResolveContinue \/ RootMoves \/ UNCHANGED bridgeVars
    <2>1. /\ Live' = Live /\ workers' = workers /\ stolen' = stolen
          /\ PointersKept \/ ResolveContinue
        BY <1>7, MovedRoot DEF ResolveContinue, bridgeVars, threadVars, Live, PointersKept
    <2> QED
        BY <1>4, <2>1
<1>8. CASE PointersExpire
    BY <1>8 DEF PointersExpire
<1>9. CASE ProcessRestarts
    <2>1. \A w \in Workers : Ended(workers[w]).phase = "done"
        BY <1>1, ConstantRecords DEF ThreadTypes
    <2>2. \A w \in Workers : workers'[w].phase \in {"unborn", "done"}
        BY <1>9, <2>1 DEF ProcessRestarts, Unborn
    <2>3. v \in Workers
        BY DEF Live
    <2> QED
        BY <2>2, <2>3
<1> QED
    BY <1>2, <1>3, <1>5, <1>6, <1>7, <1>8, <1>9 DEF BridgeNext, RootMoves

\* What the threads share and the pointer files hold is of its type.
THEOREM BridgeTypes == BridgeSpec => []BridgeTypeOK
<1>1. BridgeInit => PointerTypes
    BY PointerTypesInit
<1>2. BridgeInvariant /\ BridgeInvariant' /\ PointerTypes /\ [BridgeNext]_bridgeVars
      => PointerTypes'
    BY PointerTypesStep DEF BridgeInvariant
<1>3. BridgeInvariant /\ PointerTypes /\ WorktreeTypes => BridgeTypeOK
    BY DEF BridgeInvariant, ThreadTypes, PointerTypes, WorktreeTypes, BridgeTypeOK
<1>4. BridgeInit => WorktreeTypes
    BY WorktreeTypesInit
<1>5. WorktreeTypes /\ [BridgeNext]_bridgeVars => WorktreeTypes'
    BY WorktreeTypesStep
<1> QED
    BY <1>1, <1>2, <1>3, <1>4, <1>5, BridgeInvariantHolds, PTL DEF BridgeSpec

\* As long as no cleanup took a running worker and every pointer was saved and none expired, the
\* latest pointer is that of the connected bridge, and the first valid one in scope: what
\* `--continue` in a new process would go on with, unless the worktree the pointer was saved for has
\* been removed.
THEOREM ContinueFindsTheBridge == BridgeSpec => []PointerNamesTheConnection
<1> DEFINE Good == PointerTypes /\ PointerInvariant
<1>1. BridgeInit => Good
    <2> SUFFICES ASSUME BridgeInit PROVE Good
        OBVIOUS
    <2>1. PointerTypes
        BY PointerTypesInit
    <2>2. Live = {} /\ \A c \in Callers : callers[c].step = "cleanup"
        BY DEF BridgeInit, Live, Unborn, Returned
    <2> QED
        BY <2>1, <2>2 DEF PointerInvariant, StopHoldsTheSlot, LatestPointer
<1>2. BridgeInvariant /\ BridgeInvariant' /\ Good /\ [BridgeNext]_bridgeVars => Good'
    <2> SUFFICES ASSUME BridgeInvariant, BridgeInvariant', Good, [BridgeNext]_bridgeVars
                 PROVE  Good'
        OBVIOUS
    <2>1. PointerTypes'
        BY PointerTypesStep DEF BridgeInvariant
    <2>2. StopHoldsTheSlot'
        BY StopHoldsTheSlotStep DEF PointerInvariant
    <2>3. LatestPointer'
        BY <2>1, LatestPointerStep DEF LatestPointer
    <2> QED
        BY <2>1, <2>2, <2>3 DEF PointerInvariant
<1>3. Good => PointerNamesTheConnection
    <2> SUFFICES ASSUME Good, ~ stolen, ~ unsaved, NEW w \in Live, workers[w].phase = "pumping"
                 PROVE  /\ pointers # <<>>
                        /\ pointers[1].connection = workers[w].connection
                        /\ pointers[1].root \in Listed =>
                            /\ FirstValid # 0
                            /\ InScope[FirstValid].connection = workers[w].connection
        BY DEF PointerNamesTheConnection
    <2>1. /\ pointers \in Seq(ValidPointer) /\ pointers # <<>>
          /\ pointers[1].connection = workers[w].connection
        BY DEF PointerTypes, PointerInvariant, LatestPointer
    <2>2. pointers[1].root \in Listed => FirstValid = 1 /\ InScope[1] = pointers[1]
        BY <2>1, FirstIsValid
    <2> QED
        BY <2>1, <2>2
<1> HIDE DEF Good
<1>4. Good /\ [](BridgeInvariant) /\ [][BridgeNext]_bridgeVars => []Good
    BY <1>2, PTL
<1> QED
    BY <1>1, <1>3, <1>4, BridgeInvariantHolds, PTL DEF BridgeSpec
=============================================================================
