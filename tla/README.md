# clawin in TLA+

Formal models of clawin, a terminal agent written in Rust: a conversation
engine that alternates between a model driver and tools, hosts that drive it (a
line-based headless mode, a terminal REPL, a remote-control bridge), and the
stores behind them. The models are TLA+ modules, checked with TLC on small
instances; every invariant they check is also proved with TLAPS for every
value of the constants. `PROJECT.json` lists the runs, the
hazards, the theorems and, for every definition that models code, the source
lines it stands for.

    tlc -workers 2 -config MCHeadlessSession_lines.cfg MCHeadlessSession
    tlapm HeadlessSession_proofs.tla

Paths below are relative to `src/crates/`.

## 1. Inventory of the system

| Component | State it keeps | Operations | What it talks to |
|---|---|---|---|
| Conversation engine (`clawin-engine/src/lib.rs`) | transcript, turn count, budget tracker, pending tool call, last assistant message | `submit_message`, `restore` | model driver (async), tool and command registries, permission resolver (async), event callback, cancellation flag |
| Token budget (same file, 598-648) | `BudgetTracker` | `evaluate_token_budget` | the engine, after a pass that reports `Completed` |
| Transcript compaction (517-547, 656-691) | - | append, compact | the engine, on every append |
| Tools (`clawin-tools/src/lib.rs`) | registry, MCP catalogs | permission check, execution | resolver, runtime, MCP manager |
| Permission resolvers (`print.rs:510-644`, `remote_control.rs:419-544`, `clawin-ui/src/lib.rs:1429-1560`) | id counter, map of pending oneshot senders | `resolve`, `apply_response`, `cancel_all` | a remote client |
| Headless stream-json session (`clawin-bootstrap/src/print.rs:148-457`) | active turn, `input_closed`, channel, input thread | one select loop, idle and active handlers | client over stdin/stdout, engine, resolver |
| Headless text mode (`print.rs:74-146`) | - | one submission | engine with the passthrough resolver |
| Standalone remote control (`remote_control.rs:28-355`) | worker thread, active turn | select loop over host and transport messages | bridge manager, engine, resolver |
| Bridge manager and pointer store (`clawin-integrations/src/bridge.rs`) | lifecycle status, worker handle, pointer files | `start`, `stop`, `status`, reconnect loop, pointer save/remove/continue | transport, host, disk |
| Terminal REPL (`clawin-ui/src/lib.rs`) | view state, worker thread, active cancellation, attached bridge | submit, cancel, drain events, bridge actions, remote input | engine, bridge manager, resolver |
| Session store (`clawin-config/src/session_store.rs`) | append-only transcript file per session | append, load, list, resume, detect interruption | disk |
| Bootstrap (`clawin-bootstrap/src/run.rs`) | runtime of the session, transcript length before a turn | fresh/continue/resume, submit and persist | engine, session store |
| Worktrees (`clawin-bootstrap/src/worktree.rs`) | active worktree | enter, exit, restore | git, session store, tools |
| MCP manager (`clawin-integrations/src/lib.rs`) | server entries, processes, request ids, reader threads | reload, call, list, read, disconnect | child processes |
| Commands (`clawin-commands/src/lib.rs`) | registry | parse, execute | runtime, bridge, MCP |
| Configuration, plugins and skills, platform adapters, command line | snapshots made at startup | load, scan, dispatch | disk, operating system |

What makes each of them hard, and what makes it correct:

- **Engine.** It mutates its state across awaits, a turn may end in more than a
  dozen places, and several of them leave something behind (a `ToolUse` without
  a result, a pending call). Correct: tool results stay next to their uses
  whatever fails, is cancelled or is compacted; calls complete in the order they
  were requested; a cancelled turn starts no further model pass and no command; every
  submission ends; the reported final message belongs to this turn.
- **Token budget.** Saturating `u64` arithmetic at a threshold, and a rule over
  three successive passes. Correct: continuation only below nine tenths of the
  budget, and diminishing returns are stopped.
- **Resolvers and the headless host.** A permission request races a response,
  a late or repeated response, an interrupt, the end of input, a failing write and
  the next request of the same turn. Correct: a decision reaches exactly the call that asked
  for it, only a grant of the client runs a tool, no waiting call is orphaned, and
  every user message is answered once.
- **Standalone remote control.** The same resolver behind a transport that is lost
  while a request waits, while its answer is under way, or in the middle of a
  turn. Correct: a waiting request is known to the client that is connected or
  is denied, no late answer allows a call, every user message is answered once,
  and the process exits when the bridge has given up.
- **Bridge manager.** A call takes the lock of the state several times, the worker
  handle is published after its thread runs, and the pointer files outlive
  crashes and follow a root that moves through worktrees, which may be removed.
  Correct: no worker is lost, there is one
  at a time, the status and the freshest pointer are those of its connection and
  `--continue` finds it, a stop returns, a bridge without transport reconnects or gives up.
- **REPL.** A view thread and a worker thread agree on who is busy through
  messages only; the remote client uses the same worker. Correct: a busy
  view becomes free again, the view shows the session the worker is in once the
  reports are read, a local turn needs nothing from the client, and a permission
  request that waits is released when nobody can answer it any more.
- **Persistence.** The prompt is written before a turn and the messages after it,
  from an index taken before it; a write may leave part of a line, a process may
  die at any step, and worktree tools move the root in between. Correct: a file
  holds the beginning of each of its turns in order and once, a restore brings back what
  an undisturbed process had, and only an unanswered prompt counts as an
  interruption.
- **MCP.** A request that times out kills its server inside the request, a reload
  connects before it disconnects and ignores a kill that fails, messages of other ids start the timeout
  anew, and writing has no timeout at all. Correct: every running process has an owner or
  is one that could not be stopped, no server keeps such a process, and every operation
  returns that is neither talked to without end nor blocked in a write.

The complete list of hazards, each at its line, is in `PROJECT.json`.

## 2. Modules

    TokenBudget   Transcript
          \         /
      ConversationEngine ---- implements ----> TurnProtocol
              |    \                             /      \
              |     \     PermissionResolver    /        \
              |      \     /       |       \   /          \
          HeadlessSession    RemoteSession ---+         Repl
                  \               /                (also EXTENDS PermissionResolver)
                   implement PermissionProtocol

      BridgeManager       McpManager       SessionPersistence

`RemoteSession` and `Repl` EXTEND `TurnProtocol` and `PermissionResolver`: their
turn is the abstract one, which the detailed engine is shown to implement
(`KeepsTurnProtocol`). `HeadlessSession` EXTENDS the detailed engine itself. Each
of the seven components has an MC module with its instances (`MCBridge`,
`MCRemote`, ...) and a module `.._proofs`.

### Selection
`Selected(s, S)`: the elements of a sequence that are in a set, in their order. It is
how the models read the messages out of a file, the answers out of what was written,
the calls out of the events. The library's `SelectSeq` does the same with an operator, about
which no prover here can be told anything; `Selection_proofs` has the facts about
`Selected` that the other proofs cite.

### TokenBudget
The arithmetic of `evaluate_token_budget`: `SaturatingSub`/`SaturatingMul` are
the `u64` operations at a width given by `MaxU64`; `TrackerAfter` and
`BudgetDecision` are the new tracker and the decision. A budget of 0 stands for
both `None` and `Some(0)`, which the code treats alike.

### Transcript
Messages and `append_message_and_maybe_compact`. A message is its kind, the turn
and pass that made it, and the tool call it belongs to. The text of messages, and
of the summary in particular, is left out.

### ConversationEngine
`submit_message` with everything it calls. `phase` is the place where its future
stands; the remaining variables are the fields of `ConversationState` and the
locals of `handle_prompt` that survive a step. One action per branch of the
code:

| Code | Actions |
|---|---|
| `submit_message`, `begin_turn` | `SubmitRejected`, `Submit` |
| cancelled before dispatch, `handle_slash_command` | `StartCancelled`, `BeginCommand`, `CommandDoesNotParse`, `CommandFails`, `CommandHandled` |
| `handle_prompt`, head of the loop | `BeginPrompt`, `LoopCancelled`, `MaxTurnsReached`, `BeginModelPass` |
| `ModelDriver::stream` | `ModelStreamFails`, `ModelStreamReady` |
| loop over the stream events | `StreamCancelled`, `TextDelta`, `ToolCallRequested`, `UsageUpdated`, `AssistantMessageFinished`, `ModelFinished`, `ModelError`, `StreamWithoutFinish`, `StreamEnds` |
| loop over the pending calls | `BeginToolCall`, `ToolCallFails`, `ToolRuns`, `AskPermission`, `PermissionResolved`, `AllowedToolFails`, `PermissionResolverFails`, `ToolCallsDone` |
| match on the finish reason | `ModelCancelled`, `ToolUseWithoutCall`, `BudgetContinues`, `TurnEnds` |
| `CancellationFlag::cancel` | `Cancel` |

The environment chooses what the driver streams, which tool fails, what the
resolver answers and when the flag is set. The driver returns a whole `Vec` of
events, so nothing waits inside the loop over them; the flag is nevertheless
read before each, as another thread may set it at any time. A slash command reads it once, before
it is parsed (`BeginCommand`): a command that executes is not interrupted. A text delta that is
empty has the effect of no delta. `events` and `continuedAt` are history
variables: the events the callback received and the totals at which the turn was
continued.

### PermissionResolver
The id counter, the map of pending senders and one oneshot channel per request.
The three resolvers of the code are copies of one another; this module models
what they share and each host adds how it sends.

### HeadlessSession
`run_stream_json_mode` with its input thread, `execute_request`, the handlers of
a message while idle and during a turn, and the resolver, composed with the
engine: `HeadlessSession` EXTENDS both, and each host action conjoins the engine
and resolver actions it performs. The select is biased to the turn and the
runtime has one thread, so a message is handled only while the turn awaits the
driver or a decision (`TurnIsBlocked`). Once the input thread is gone `recv`
returns `None` at every poll, which denies whatever is pending
(`ChannelClosed`). In the idle state that arm is unreachable because the `Eof`
message comes first. A write to stdout that failed is taken to fail from then on.

### PermissionProtocol
The abstract promise of a resolver to its client: questions one at a time under
new numbers, each decided at most once, a tool runs on a question only after that
very question was granted, and once. `HeadlessSession` and `RemoteSession`
implement it under the refinement mapping at their `Protocol`.

### TurnProtocol
A turn as its host sees it: begun, inside a poll, suspended in the model driver,
suspended in the permission resolver, gone; with the cancellation flag and at
most `max_turns` model passes, none of which begins on a cancelled turn.
`ConversationEngine` implements it under the mapping at its `Turn`, so the two
bridge hosts can be checked with turns that do anything the engine may do.

### RemoteSession
`run_remote_control_session`, the thread of `StandaloneBridgeHost` and the pump
of the bridge worker between them. The client writes to `input`, the host to
`output`, which waits while the transport is down. The host's select is not
biased, so an input may be taken at any moment the turn is suspended or not
polled yet.

| Code | Actions |
|---|---|
| `pump_transport` and the reconnect loop, seen from the host | `ClientSends`, `OutputForwarded`, `TransportLost`, `HostNotified`, `Reconnects`, `GivesUp` |
| `run_remote_control_session` after the wait, `Drop` of the host | `HostDropped`, `HostJoined` |
| the turn inside the host's select | `TurnRuns`, `DriverAnswers`, `PermissionRequested`, `PermissionDecided`, `TurnFinished` |
| handlers of a message, idle and active | `UserBeginsTurn`, `UserTurnedAway`, `Interrupt`, `ResponseApplied`, `ResponseRefused`, `KeepAlive`, `TransportClosed`, `Shutdown` |

### Repl
The UI thread (`ReplController`, `run_repl_session`), the worker thread
(`worker_loop`) and an attached bridge. All input of the worker passes one
channel, `queue`; all of its reports another one, `reports`; the UI knows nothing
but `busy` and the session it was last told of.

| Code | Actions |
|---|---|
| key handling, `submit_input`, leaving and `Drop` | `Submits`, `CtrlC`, `Leaves`, `Joins` |
| `drain_worker_events`, `apply_bridge_action` | `TurnStartShown`, `TurnEndShown` |
| bridge and client | `ClientSends`, `OutputForwarded`, `TransportLost`, `HostNotified`, `ReconnectsOrGivesUp` |
| `worker_loop`, `run_local_submit`, `run_remote_input` | `RequestTaken`, `PromptNotSaved`, `TurnStarts`, `TurnRuns`, `DriverAnswers`, `PermissionRequested`, `PermissionDecided`, `TurnFinished` |
| commands taken during a turn | `SubmitDropped`, `UserTurnedAway`, `Interrupt`, `Response`, `KeepAlive`, `TransportClosed`, `Shutdown` |

A slash command is known by its effect: none, a resume of another session,
starting or stopping the bridge; it has that effect although Ctrl-C comes while it
executes. Local turns use the resolver of the terminal,
which decides at once; remote turns ask the client.

### BridgeManager
`start`, `stop`, `status` and `wait_for_terminal_state` in the steps in which they
take the lock, for several calling threads, with the worker threads and the
pointer files.

| Code | Actions |
|---|---|
| `cleanup_finished_worker` | `LookForFinished`, `TakeWorker`, `JoinReturns` |
| `status`, `wait_for_terminal_state` | `ReadStatus` |
| `start` | `StartLooks`, `StartFails`, `StartConnects`, `StartPublishes` |
| `stop` | `StopTakes`, `StopJoins`, `StopFindsNothing`, `StopWritesStatus` |
| the thread of the worker | `WorkerStops`, `WorkerFails`, `WorkerDisconnects`, `WorkerReconnects`, `WorkerRetries`, `WorkerGivesUp` |
| pointer store, runtime, a new process | `PointersExpire`, `ResolveContinue`, `ProcessRestarts` |
| worktree tools and `/resume`, which move the root | `EnterWorktree`, `ExitWorktree`, `RuntimeRestored` |

A connection is a number that stands for its session and environment ids. Time
is counted in units of the reconnect delays. Pointer files are kept in the order
of their modification times. `--continue` looks at the files of the listed roots,
those of worktrees that are there, and of them at the latest `FanoutLimit` (50 in the code): `InScope`. A
file in the scope that is read in vain is removed; that of a removed worktree stays where nobody
looks. `worktrees` says which were made and removed; git refuses to make one of the same name again,
since its branch stays. The history variable `stolen` records that
`cleanup_finished_worker` took a worker that still runs, `unsaved` that a pointer could not be written or expired.

### McpManager
`reload` with the up to three requests of a connection, `call_tool` and
`read_resource`, the process and the reader thread of each server. `op` is where
the caller stands; a request is sent, then waits for its id among whatever the
reader has put into the channel.

| Code | Actions |
|---|---|
| `from_loaded_config`, `set_plugin_servers`, `/mcp reload` | `McpInit`, `SetPluginServers`, `ReloadCommand` |
| `reload`, `connect_server` | `ServerNotStarted`, `ServerStarted`, `ReloadEnds` |
| `call_tool`, `read_resource` | `BeginCall` |
| `request`, `write_message`, `notify_initialized` | `RequestNotWritten`, `RequestWritten`, `InitializedWritten`, `OtherMessageSkipped`, `Answered`, `Timeout`, `Disconnected` |
| server and reader thread | `ProcessAnswers`, `ProcessNotifies`, `StdinChanges`, `ReaderFails`, `ProcessExits` |

The pipe to the stdin of a process has room, is full, or is closed. A write goes through, does
not return (`WriteBlocks`: the caller has no step until the process reads, closes the pipe or
exits), or fails. Whether the pipe has room changes only while somebody writes, as nothing
else depends on it. `disconnect_servers` ignores the result of `kill` and drops the
handle: `ReloadEnds` lets any of the old processes survive. The histories `abandoned` and `unkilled`
record the processes that were dropped while connecting and those that survived a reload.

### SessionPersistence
The transcript files as sequences of entries, and everything that writes them:
the header, the last prompt, the messages of a turn and the worktree state. A
write succeeds, or fails leaving nothing, part of a line, or a line without its
newline, which the next write completes into an invalid line. `proc` is where the
one running process stands.

| Code | Actions |
|---|---|
| bootstrap modes, `/resume` | `StartFresh`, `StartFreshFails`, `StartContinue`, `StartResume`, `ReplResume` |
| a prompt and its turn | `SubmitPrompt`, `PromptNotSaved`, `EngineAppends`, `TurnEnds` |
| saving after the turn | `SaveMessage`, `MessageNotSaved`, `TurnSaved` |
| worktree tools | `EnterWorktree`, `ExitWorktree`, `SaveWorktreeState`, `WorktreeStateNotSaved` |
| exit, crash | `ProcessEnds` |

What is read back (`Loadable`, `Messages`, `Interrupted`, `ContinueFinds`,
`ResumeFinds`) is defined on the lines. The history variable `faithful` says
that the process knows its file and none of its writes failed.

Operators whose comment begins with "Mutant:" are deliberately wrong versions of
the definition that follows them. No specification uses them; replacing the
definition by its mutant must break the property named for it in `PROJECT.json`,
which shows that the property speaks about that line of the code.

## 3. What is checked

Bounds are constants of the modules: `MaxStream` events in the answer of a pass,
`MaxSubmissions` turns, `MaxRequests` permission requests, `MaxLines` lines of
the client, `MaxMessages`, `MaxLosses`, `MaxCalls` and so on for the other
modules, each named where it is declared. All runs set `CHECK_DEADLOCK FALSE`: a conversation whose
submissions are used up, a session that has exited, or a manager nobody calls
really stops.

| Run | Question | Bounds | Result |
|---|---|---|---|
| `engine_tools` | Are tool calls completed in order, is a cancellation obeyed, does every submission end, and does the engine implement the turn its hosts see? `EngineTypeOK`, `RequestEndsWithInput`, `CallsCompleteInOrder`, `CancelStopsTheTurn`, `TurnTerminates`, `KeepsTurnProtocol` | one turn (a prompt or a command), two passes, three events, two call ids (which may repeat), tools that run, ask, are denied, fail; 218 thousand states | holds |
| `engine_compaction` | Does compaction keep its bound and the pairing when the policy changes between turns? `ToolPairing`, `CompactionBound`, `FinalMessageIsOfThisTurn` | two turns of one pass, four policies: none, one that cuts between a use and its result, one that keeps nothing, one that keeps more than its trigger | holds |
| `engine_budget` | When may a turn be continued? `DiminishingReturnsStop`, `ContinuesOnlyBelowBudget` | up to six passes, totals below, at and above the threshold, budgets whose products fit and saturate at `MaxU64` = 100 | holds |
| `headless_lines` | Is the permission protocol kept, is every user message answered exactly once, and does the end of input end the session? `HeadlessTypeOK`, `AskIsAnswerable`, `ClientKnowsTheDecision`, `EveryUserMessageIsAnswered`, `KeepsPermissionProtocol`, `EofEndsTheSession` | every kind of line, three lines, responses to any request (a refusal comes from an interrupt or the end of input), up to six requests, so that a turn asks after the end of input, failing writes | holds |
| `headless_interrupt` | Does a handled interrupt end its turn? `InterruptEndsTheTurn` | two calls in one pass | **violated** |
| `headless_abort` | Do only failed writes abort the session? `NoLineAbortsTheSession` | one request, two lines | **violated** |
| `session_restore` | What does a restore read after failed writes, kills, worktree moves? `SessionTypeOK`, `FilesHoldBeginningsOfTurns`, `RestoreIsFaithful`, `InterruptionIsReal` | one session, which may come to have several files, three turns of two messages, two worktrees (interchangeable), two tool calls, two processes each killed at any step, any number of `/resume`, one failing or partial write | holds |
| `session_moved` | Does a session keep one transcript file? `OneTranscriptPerSession` | two turns, one tool call, one process | **violated** |
| `bridge_repl` | Is the worker owned, single, and described by status and pointer, and do its operations end? `BridgeTypeOK`, `LiveWorkersAreOwned`, `OneBridgeAtATime`, `PointerNamesTheConnection`, `BridgeSettles` | a thread that starts, stops and waits and one that asks for the status, three calls, two workers, three connections, a root and one worktree, two moves between them, one pointer file within the fanout limit, one restart; 484 thousand states | holds |
| `remote_standalone` | Do requests reach a client over a lost transport, is every message answered, is the protocol kept, does the process end? `RemoteTypeOK`, `WaitingRequestReachesAClient`, `EveryRemoteUserIsAnswered`, `RemoteKeepsProtocol`, `GivingUpEndsTheProcess` | three messages of any kind, two requests, one loss | holds |
| `repl_attached` | Does a busy view become free, does it follow the worker, and does nobody wait for a client that is gone? `ReplTypeOK`, `BusyHasAnEnd`, `ViewCatchesUp`, `LocalTurnEnds`, `PendingRequestIsReleased` | two local submits (prompts, bridge start and stop), two messages of the client (prompts and a resume of another session among them), one permission request, one loss, two sessions; 789 thousand states | holds |
| `mcp_servers` | Is every process owned, and does every operation return? `McpTypeOK`, `RunningProcessesAreOwned`, `OperationsReturn` | one configured and one plugin server, two processes, two calls, one reload beside those of the start, kills that fail, writes that block, any number of messages nobody asked for, with a backlog of one; 1.2 million states | holds |

Why the bounds are enough to be of interest: two calls in a pass make an order and
a "between"; two passes show what one leaves for the next; two turns show what a
failed turn leaves behind; two requests allow a late or repeated response to meet
a newer request; four continuations are the first the diminishing-returns rule
can refuse, and six passes reach it. Two processes let a crash be followed by a
restore that writes again, and `/resume` restores once more what it wrote; three turns are what it takes to
enter a worktree, begin a file in it after `/resume`, and leave it from that file, which is
the exception `RestoreIsFaithful` names; one failing
write is enough to merge two lines. Files of different sessions share nothing but the order of
their modification times, so one session shows what there is. Two threads and two workers reach the
`stolen` case of the cleanup, three connections a first one, a reconnect and a
second start. One loss separates a client that saw a request from one that did
not. Two local submits and two remote messages cover a turn of one side with a
submit and a report of the other in between. Two processes let a reload run
beside the process of the list it replaces. With a fanout limit of one the second of
two pointer files is out of the scope, and two moves enter a worktree and remove it, so that its pointer is out of it too. The theorems of section 4 lift
the bounds where they exist.

### Fairness
- The engine: weak fairness of its own steps (a future that is polled runs), of the
  driver and of the resolver (they answer in the end). No fairness for submitting
  or cancelling.
- The headless session: weak fairness of the turn's own steps and of
  the host's handling of messages (the runtime polls both; the biased select only
  prefers the turn while it is ready), of the input thread and of the driver. The
  client owes nothing, so no liveness property rests on a response. After the end
  of input the select loop is always ready on the closed channel; tokio's
  cooperative budget lets the other futures proceed, which is what weak fairness of
  the two groups says.
- `RemoteSpec` and `ReplSpec`: weak fairness of the turn, the driver, the
  notification of a lost transport and the joins (threads are scheduled); in the
  REPL also of the UI's draining of reports. The host's select is not biased:
  tokio starts at a random branch, so an input that is available again and again is
  taken in the end, which is strong fairness of `HostStep` and `InputStep`. The
  client and the transport owe nothing.
- `BridgeSpec`: weak fairness of each caller's steps, of a worker seeing a
  stop, and of the bounded waits of the reconnect loop. A connector may fail for
  ever.
- `McpSpec`: weak fairness of the caller's thread alone, for which a timeout
  is always among the possible steps of a wait for an answer. The servers owe nothing. `OperationsReturn`
  names the two ways in which one can hold the caller up. `NoEndlessTalk` is
  its premise: `recv_timeout` starts anew with each message of another id, so a server that sends them without
  end is waited for without end. `WriteBlocks` is its exception: a write to a process that runs and
  does not read its stdin has no timeout. TLC finds the property violated without either; with them
  every other wait ends.
- `SessionSpec` has no fairness: its properties are about what is on disk.

### Findings
1. `headless_interrupt`: `src/docs/parity/parity-matrix.md:145` says that a
   `control_request(interrupt)` during a turn triggers its cancellation. The handler sets the flag and denies the
   pending request, but the loop over the pending calls of a pass does not read
   the flag (`clawin-engine/src/lib.rs:376-428`): the next call runs, and if its
   permission is Ask the turn puts a new question after the interrupt and waits
   for an answer.
2. `headless_abort`: line 144 of the same table says that malformed and stale
   control responses are stably rejected or reported. A response with behavior
   `ask` makes `apply_response` return `Err` (`print.rs:534`), which ends the
   session in the middle of the turn. The remote host rejects the same message
   and goes on (`remote_control.rs:344-349`).

3. `session_moved`: `src/docs/parity/parity-matrix.md:30` says that the transcript of a session
   stays its single source of truth over the life of a worktree. A restore at startup keeps the
   path of the file it read (`run.rs:697-719`); `restore_runtime` of the REPL
   (`clawin-ui/src/lib.rs:1353`) restores root and worktree without that path, so the
   next write computes one from the active root. A session that enters a worktree, is resumed with `/resume`
   and submits a prompt then has two files, and the second one lacks the messages of
   the first. Its header names the worktree: if the session leaves the worktree later, a restore
   from that file goes back into it, although its state says that no worktree is active. `RestoreIsFaithful`
   states what holds with that exception; without it the property is false from three turns on, which
   is how the attempt to prove it found this.

`CancelStopsTheTurn` states what the engine does guarantee of a cancellation: no
model pass and no slash command starts after it, and the turn ends as Cancelled or Failed unless the
whole answer was already in, or a command was executing, which ends as handled.

`PointerNamesTheConnection` holds with an exception as well. Its first half has none: the latest pointer
file is that of the connected bridge. That `--continue` finds it supposes that the root it was saved for is
still listed. A bridge that starts at the project's root, reconnects while the session is in a worktree, and
goes on after `ExitWorktree` removed it has its pointer in a place that is not looked at;
`--continue` then finds the pointer of its first connection, or none. Nothing in the repository
speaks of this case.

## 4. What is proved

Every invariant that a run above checks is a theorem, and so are the safety action properties
and the refinements. All theorems hold for every value of the constants that satisfies the `ASSUME`s
of the modules: types of the parameters, `NoCall` is not a call id, `Main` and `None` are no
worktrees (`SessionAssumption`), the reconnect
delays are positive (`BridgeAssumption`), and only one of the threads that hold
the bridge controller starts and stops bridges (`ControllerAssumption`: the UI
thread in `apply_bridge_action`, the main thread in `remote_control.rs`). TLC
evaluates them in every run of the module. Safety theorems use no fairness.

**Selection_proofs.** The proofs below need facts such as "appending an element of S appends it to
what is selected", which take an induction over the data. The induction theorems of the library
have an operator as parameter and cannot be instantiated here; `WFMin`, that a well-founded relation
has a minimal element in every set that is not empty, takes a set. `LeastElement` is `WFMin` for `<` on the
naturals; from it follow `InductionOnNat` and `InductionOnSequences`, both over sets, and from those the
lemmas `Selected...`: its value for an appended element and for a concatenation, its type, its
length, and that it repeats nothing when the sequence does not.

**ConversationEngine_proofs**

- `EngineTypeCorrect` (`EngineTypeOK`). The types alone are not inductive: a step
  that takes `Head(pendingCalls)` needs a call in hand. `EngineTyping` adds
  `CallInHand` (the phases inside a call have a non-empty list) and is inductive;
  one lemma per group of actions.
- `CompactionIsBounded` (`CompactionBound`), from a lemma on `Appended` alone:
  after an append under any enabled policy the length is at most the trigger or
  the messages kept and the summary. The bound holds from the first append of
  the prompt on, however long the transcript was.
- `CancelIsObeyed` (`CancelStopsTheTurn`), an action property by cases on the
  disjuncts of the next-state relation: what begins a pass or a command reads the flag in the same step.
- `ContinuationsStayBelowBudget` (`ContinuesOnlyBelowBudget`): a comparison of
  saturated products that says "below" is right in exact arithmetic, for every
  word size; then an induction over the steps that record a continuation.
- `DiminishingReturnsAreStopped` (`DiminishingReturnsStop`). The property speaks
  of the history of continuations, the code looks at its tracker. `TrackerAgrees`
  ties them while the turn runs: the count is the number of continuations, the
  last total is that of the last one, and the last delta is the gain over the one
  before.
- `EngineImplementsTurn` (`KeepsTurnProtocol`): each disjunct of the next-state
  relation maps to one action of `TurnProtocol` or to a stutter. It is what entitles
  `RemoteSession` and `Repl` to stand on the abstract turn.
- `RequestsEndWithInput` (`RequestEndsWithInput`), `FinalMessageIsCurrent`
  (`FinalMessageIsOfThisTurn`) and `ResultsFollowTheirUses` (`ToolPairing`) rest on
  one lemma, `AppendedShape`: an append either keeps the transcript or leaves a
  summary and a suffix that ends with the new message, unless nothing is kept.
  `InputInvariant` says the transcript ends with input wherever the loop may
  come back to its head. `FinalInvariant` adds that every message is of a turn
  that began (the property itself speaks of transcripts no policy compacts).
  `PairingInvariant` adds what the last message is in each phase (a use just
  while its call is in hand, or after its turn failed) and that the messages
  before a turn that starts are of earlier turns. None of the three is
  inductive without these: each compares messages appended steps apart.

- `CallsAreCompletedInOrder` (`CallsCompleteInOrder`). The property compares two projections of the events;
  the state has the list of pending calls in between. The inductive invariant is the queue:
  while a turn runs, the calls requested are those completed followed by the pending ones. Every step
  starts a turn, requests a call (it goes to the end of both), completes the first pending one, leaves
  the turn, or emits nothing about calls (`Silent`), which is a fact about each of the groups
  of events the engine emits.

**HeadlessSession_proofs**

- `SessionRunsTheEngine`: every step of the session is a step of the engine's
  specification or leaves it alone, so that every invariant of the engine is one
  of the session. It is what lets the component's theorems be used in the
  composition.
- `WaitingCallsAreAnswerable` (`AskIsAnswerable`). `RequestInvariant` strengthens
  it with the type of the resolver and of the channel, `RequestsInOrder` (requests
  not made are unused, every earlier one is settled) and `IdleHasNoRequest`
  (outside of a turn nothing is pending).
- `SessionImplementsProtocol` (`KeepsPermissionProtocol`): each step maps to one
  step of `PermissionProtocol` or to a stutter. `RequestInvariant` is needed to
  see that cancelling all requests refuses one question, and that the request a
  tool runs on is the one that was granted.
- `HeadlessTypes` (`HeadlessTypeOK`), with the invariant `SessionTyping`. The messages of an interrupt are
  the notices of the pending requests in some order; by `RequestInvariant` there
  is at most one, so the sequence is known.
- `UsersAreAnswered` (`EveryUserMessageIsAnswered`): as long as writes succeed, answers written plus the turn that
  runs are the user messages taken. Each step is one of six kinds (it writes nothing, another message,
  the answer of a turn, an answer to a message turned away, begins a turn, fails to write), and the
  count changes by what `Selected` says of one appended element.
- `DecisionsReachTheClient` (`ClientKnowsTheDecision`). Two facts are carried: the client `Knows` of every
  settled request, by its own response or by one notice, and nothing was said yet about
  one that is not settled (`Untold`). Without the second a notice could be a second one.

**BridgeManager_proofs**

- `NoHandleIsDropped` (`LiveWorkersAreOwned`) and `OneBridge`
  (`OneBridgeAtATime`) come from one invariant, `BridgeInvariant`: the types of
  what the threads share (`ThreadTypes`); `CallsInOrder` (only the controller is in
  the steps of a start or stop, a call holds a worker only where it joins or
  publishes it, and the slot is empty between looking and publishing); and,
  unless `stolen`, `OneWorker` and `StatusIsOfTheWorker`. The ownership of a
  running worker is inductive with a theft in the history too; that there is just
  one is not, which is why `OneBridgeAtATime` names the condition.
- `BridgeTypes` (`BridgeTypeOK`): `PointerTypes` adds that every pointer is valid, neither
  expired nor cleared, as long as each one could be saved and none has expired.
- `ContinueFindsTheBridge` (`PointerNamesTheConnection`). `LatestPointer` says that the first pointer in
  the order of modification is the one of the connected worker, wherever the root was when it
  was written. By `SelectedFirst` it is also the first of those in the scope if its root is listed, whatever
  the fanout limit (which is at least one), and it is valid (`FirstIsValid`). A stop removes a pointer after it has joined its worker, so the proof must exclude that a new
  worker saved its own in between: `StopHoldsTheSlot`, a stop that joins leaves the slot empty, and
  the caller that could fill it is the same one.

**McpManager_proofs**

- `McpTypes` (`McpTypeOK`) and `NoProcessIsLeftBehind`
  (`RunningProcessesAreOwned`). `McpInvariant` adds `Listing` for the current
  list and for the one a reload builds (exactly the connected servers have a
  process, each its own, which was started), `GivenUpIsUnused` (no list and no operation has a process
  that was dropped while connecting or survived a reload), `OperationAgrees` (where a caller
  waits, its process is the one being connected and in no list, or that of a
  listed server), and `ReadersHaveProcesses` (a reader thread runs only beside
  its process, which a timeout that kills the process relies on).

**RemoteSession_proofs**

- `RequestsReachAClient` (`WaitingRequestReachesAClient`). `RemoteInvariant` adds
  the types of resolver and channels, `RequestsOfTheTurn` (requests are made
  and settled in order, and pending just while the turn asks) and
  `TurnIsOfTheHost`.
- `RemoteImplementsProtocol` (`RemoteKeepsProtocol`): the refinement, step by step,
  from the same invariant; the loss of the transport is a stutter, and the message that
  tells the host of it maps to a refusal of the one open question.
- `RemoteTypes` (`RemoteTypeOK`) and `RemoteUsersAreAnswered` (`EveryRemoteUserIsAnswered`) from `RemoteTyping`,
  which adds the types of what is written, those of the turn (no pass before it runs) and
  `LinkTypes`: user messages taken and those on their way are at most the messages sent. The
  second follows from an equation between replies and messages taken, as in the headless host.

**Repl_proofs**

- `BusyAlwaysEnds` (`BusyHasAnEnd`) and `ViewFollowsTheWorker` (`ViewCatchesUp`)
  from `ReplInvariant`. Neither property is inductive: a report that clears `busy`
  may be followed by others. `EveryStartEnds` says that a report of a start in the
  channel is followed by one of the end or its turn still runs;
  `LastReportIsCurrent` that a report with another session than the worker's is
  followed by one more; `OnlyTheUiLeaves` that the worker does not return while
  the UI reads.
- `ReplTypesHold` (`ReplTypeOK`) adds `RequestTypes`: only the request last made may be pending, it is open, and
  then the worker is in a remote turn that asks for it. A cancellation therefore sends one
  notice at most.

**SessionPersistence_proofs.** Four theorems, `SessionTypes` (`SessionTypeOK`), `FilesHoldTurns`
(`FilesHoldBeginningsOfTurns`), `RestoringIsFaithful` (`RestoreIsFaithful`) and `InterruptionsAreReal`
(`InterruptionIsReal`), from one invariant, `SessionInv`:

- `FilesInOrder`: the headers of a file name its session, and if it loads, its messages are in order and of
  turns up to its last prompt; an invalid line, once there, keeps it from loading for ever. What
  a file says is what `Selected` finds in it, so each way of writing (a whole entry, a part,
  the end of an unterminated line) is a lemma on appending to a sequence.
- `SessionIsKnown`, `TurnIsInItsFile`, `SavingIsInStep`: during a turn the last prompt of the file is that of the turn,
  and what was saved of it ends with the message before the next one to save (or nothing was), so that the
  next write continues the order. This is where `persist_transcript_delta`, which stops at
  its first failure and starts at an index taken before the turn, is used.
- `FileIsTheSession`: a process that knows its file and had no failing write has in the file what it has in
  memory up to the index. Its last conjunct is the exception of `RestoreIsFaithful` as it
  arises: without a worktree the active root is `Main` or that of the header.

**Only model-checked.** The liveness properties
`TurnTerminates`, `EofEndsTheSession`, `BridgeSettles`, `GivingUpEndsTheProcess`,
`LocalTurnEnds`, `PendingRequestIsReleased` and `OperationsReturn` stay with TLC: fairness and ENABLED are
outside of what the prover handles. So are RECURSIVE operators, which is
why no module here declares one. The properties of section 3 that are violated have no theorem
either.

## 5. What is not modelled

- Headless text mode: one submission without input, which is
  `ConversationEngine` with a resolver that answers at once.
- Configuration, plugins and skills: sequential loading at startup that builds
  snapshots; the command line: argument parsing and dispatch.
- Platform adapters, except `git worktree`: wrappers of the operating system.
- In the modelled components: the `AssistantMessageCompleted` event; the texts
  of messages, summaries, prompts and errors; the naming of a worktree and why git refuses
  one; drawing, editing and event rendering of the REPL; the contents of MCP tools and resources
  and their normalised names; `file_read`; parsing and output of commands.
- The paths for a poisoned mutex, and the Deny that a dropped oneshot sender
  yields (every sender is either used or lives as long as the wait).
- Hazards without a property are listed in `PROJECT.json` with the reason: most
  are in the model, but the repository does not say what should hold there, as
  for a listing that one empty file disables, a worktree that git removed before the state
  was saved, or a Ctrl-C that comes before its turn.

Observed while modelling, without a document that says otherwise: two threads can
make `cleanup_finished_worker` take a running worker (`stolen`), after which the
taker waits for its end; a remote turn of the REPL whose client is gone and that asks once more, after the request that waited was
denied, waits for a permission nobody will give, and leaving the REPL then waits with it; a server that stops
reading its stdin holds the thread that writes to it and the lock of the manager.

## 6. Plan

1. Action properties that follow from the invariants and say what a step may never do: a transcript
   file that loads is only ever extended, an answer given to a request is never changed, a worker
   that was joined never returns to the slot.
2. The refinement of an abstract store by `SessionPersistence`: what a session has on disk as one sequence of turns, for the
   sessions that keep one file.
3. Pure operators for path normalisation and the normalised MCP names against
   reference definitions.
4. The hazards without a property, where the repository comes to say what should hold.
