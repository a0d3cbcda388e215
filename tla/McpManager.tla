------------------------------- MODULE McpManager -------------------------------
(***************************************************************************)
(* The manager of the stdio MCP servers: one child process per configured  *)
(* server, a thread that reads its messages into a channel, and requests   *)
(* with a timeout.  One thread uses the manager at a time; the processes   *)
(* and the readers run beside it.                                          *)
(*                                                                         *)
(* A reload connects to every server before it disconnects from the old    *)
(* processes.  Connecting is up to three requests in a row and a           *)
(* notification.  Waiting for an answer has a timeout, writing has none: a *)
(* write into the full pipe of a process that runs blocks the caller.      *)
(***************************************************************************)
EXTENDS Naturals, Sequences, FiniteSets

CONSTANTS
    Configured, Plugged,    \* servers of the settings, servers of plugins
    Invalid,                \* those whose entry does not validate
    MaxSpawns,              \* bound: processes started
    MaxCalls,               \* bound: tool calls and resource reads
    MaxReloads,             \* bound: /mcp reload
    MaxBacklog              \* bound: messages in a channel when one comes that answers nothing

Names == Configured \cup Plugged

ASSUME McpAssumption ==
    /\ Names # {}
    /\ Invalid \subseteq Names
    /\ {MaxSpawns, MaxCalls, MaxReloads, MaxBacklog} \subseteq Nat

VARIABLES
    merged,         \* the plugin entries are in plugin_entries
    servers,        \* ManagerState.servers
    next,           \* next_servers of a running reload
    todo,           \* the names the reload has not come to
    op,             \* what the caller waits for
    processes,      \* the child processes with their channels
    spawned, calls, reloads,    \* counters
    abandoned,      \* history: processes dropped when connecting failed
    unkilled        \* history: processes a reload dropped although kill had failed

counters == <<spawned, calls, reloads>>
history == <<abandoned, unkilled>>
mcpVars == <<merged, servers, next, todo, op, processes, counters, history>>

Processes == 1 .. MaxSpawns     \* 0 stands for no process

\* tools and resources: whether tools/list and resources/list were answered at the connection.
ServerState == [status : {"absent", "Failed", "Connected"}, process : 0 .. MaxSpawns,
                tools : BOOLEAN, resources : BOOLEAN]
Absent == [status |-> "absent", process |-> 0, tools |-> FALSE, resources |-> FALSE]
FailedServer == [Absent EXCEPT !.status = "Failed"]

\* stdin: its pipe has room, is full or has no reader.  unread: the requests the process has not
\* answered.  channel: what its reader has read, by the id of the request, 0 for a notification.
\* reading: the reader thread runs.
Process == [phase : {"unborn", "running", "gone"}, stdin : {"room", "full", "closed"}, nextId : Nat,
            unread : SUBSET Nat, channel : Seq(Nat), reading : BOOLEAN]
UnbornProcess ==
    [phase |-> "unborn", stdin |-> "room", nextId |-> 1, unread |-> {}, channel |-> <<>>,
     reading |-> FALSE]

\* tools and resources are their lists, call and read tools/call and resources/read; initialized is
\* a notification.
Connecting == {"initialize", "initialized", "tools", "resources"}
Methods == Connecting \cup {"call", "read"}

\* state: none; reload (between two servers); send and wait (a request).
Operation == [state : {"none", "reload", "send", "wait"}, method : Methods, process : 0 .. MaxSpawns,
              server : Names, found : SUBSET {"tools", "resources"}]
AnyServer == CHOOSE name \in Names : TRUE
Operating(state) == [state |-> state, method |-> "initialize", process |-> 0,
                     server |-> AnyServer, found |-> {}]
Requesting(server, process, method, found) ==
    [state |-> "send", method |-> method, process |-> process, server |-> server, found |-> found]

\* from_loaded_config begins with a reload.
McpInit ==
    /\ merged = (Plugged = {})
    /\ servers = [name \in Names |-> Absent]
    /\ next = [name \in Names |-> Absent]
    /\ todo = Configured
    /\ op = Operating("reload")
    /\ processes = [p \in Processes |-> UnbornProcess]
    /\ spawned = 0 /\ calls = 0 /\ reloads = 0
    /\ abandoned = {} /\ unkilled = {}

Live(states) == {states[name].process : name \in Names} \ {0}

Exited(process) ==
    [process EXCEPT !.phase = "gone", !.stdin = "closed", !.unread = {}, !.reading = FALSE]

\* A process whose handle is dropped with its connection.
Unheld(phase) == [UnbornProcess EXCEPT !.phase = phase]

\* Such processes; those of `surviving` run on.
Dropped(these, surviving) ==
    [p \in Processes |->
        IF p \in these THEN Unheld(IF p \in surviving THEN "running" ELSE "gone")
                       ELSE processes[p]]

--------------------------------------------------------------------------------
(***************************************************************************)
(* Reload.                                                                 *)
(***************************************************************************)

\* combined_entries
BeginReload ==
    /\ op.state = "none"
    /\ op' = Operating("reload")
    /\ UNCHANGED <<servers, next, processes, spawned, calls, history>>

\* set_plugin_servers, once, when the program starts.
SetPluginServers ==
    /\ ~ merged
    /\ BeginReload
    /\ merged' = TRUE
    /\ todo' = Names
    /\ UNCHANGED reloads

ReloadCommand ==
    /\ merged
    /\ reloads < MaxReloads
    /\ BeginReload
    /\ reloads' = reloads + 1
    /\ todo' = Names
    /\ UNCHANGED merged

frameOfConnecting == <<merged, servers, calls, reloads, history>>

Listed(name, state) == next' = [next EXCEPT ![name] = state]

\* The entry does not validate, or its process cannot be started.
ServerNotStarted(name) ==
    /\ op.state = "reload"
    /\ name \in todo
    /\ todo' = todo \ {name}
    /\ Listed(name, FailedServer)
    /\ UNCHANGED <<op, processes, spawned, frameOfConnecting>>

ServerStarted(name) ==
    LET p == spawned + 1 IN
    /\ op.state = "reload"
    /\ name \in todo \ Invalid
    /\ p \in Processes
    /\ spawned' = p
    /\ todo' = todo \ {name}
    /\ processes' = [processes EXCEPT ![p].phase = "running", ![p].reading = TRUE]
    /\ op' = Requesting(name, p, "initialize", {})
    /\ UNCHANGED <<next, frameOfConnecting>>

\* Mutant: the old servers are replaced and their processes left alone.
ReloadKeepsOldProcesses ==
    /\ op.state = "reload"
    /\ todo = {}
    /\ servers' = next
    /\ next' = [name \in Names |-> Absent]
    /\ op' = Operating("none")
    /\ UNCHANGED <<merged, todo, processes, counters, history>>

\* disconnect_servers ignores what kill returns, and the new servers take the place of the old ones:
\* a process that could not be killed runs on without a handle.
ReloadEnds ==
    /\ op.state = "reload"
    /\ todo = {}
    /\ \E surviving \in SUBSET {p \in Live(servers) : processes[p].phase = "running"} :
        /\ processes' = Dropped(Live(servers), surviving)
        /\ unkilled' = unkilled \cup surviving
    /\ servers' = next
    /\ next' = [name \in Names |-> Absent]
    /\ op' = Operating("none")
    /\ UNCHANGED <<merged, todo, counters, abandoned>>

--------------------------------------------------------------------------------
(***************************************************************************)
(* Requests.                                                               *)
(***************************************************************************)

\* call_tool and read_resource on a server with a process; otherwise they return an error at once.
BeginCall ==
    /\ op.state = "none" /\ merged
    /\ calls < MaxCalls
    /\ calls' = calls + 1
    /\ \E name \in Names, method \in {"call", "read"} :
        /\ servers[name].process # 0
        /\ method = "call" => servers[name].tools
        /\ op' = Requesting(name, servers[name].process, method, {})
    /\ UNCHANGED <<merged, servers, next, todo, processes, spawned, reloads, history>>

frameOfRequest == <<merged, servers, todo, counters, unkilled>>

\* The process of the request.
Peer == processes[op.process]
Channel == Peer.channel

\* Mutant: a server that failed to connect keeps its process.
RequestFailsKeepingProcess(left) ==
    IF op.method \in Connecting
    THEN /\ op' = Operating("reload")
         /\ Listed(op.server, [FailedServer EXCEPT !.process = op.process])
         /\ processes' = [processes EXCEPT ![op.process] = left]
         /\ UNCHANGED abandoned
    ELSE /\ op' = Operating("none")
         /\ processes' = [processes EXCEPT ![op.process] = left]
         /\ UNCHANGED <<next, abandoned>>

\* A call returns; connecting goes on to the next server, its process is dropped but not killed.
RequestFails(left) ==
    IF op.method \in Connecting
    THEN /\ op' = Operating("reload")
         /\ Listed(op.server, FailedServer)
         /\ abandoned' = abandoned \cup {op.process}
         /\ processes' = [processes EXCEPT ![op.process] = Unheld(left.phase)]
    ELSE /\ op' = Operating("none")
         /\ processes' = [processes EXCEPT ![op.process] = left]
         /\ UNCHANGED <<next, abandoned>>

\* write_all of the request, or of the notification, which takes no id and is not waited for.  It
\* fails without a reader, and does not return while the pipe of a process that runs is full.
WriteBlocks == op.state = "send" /\ Peer.stdin = "full"

RequestNotWritten ==
    /\ op.state = "send"
    /\ Peer.stdin = "closed"
    /\ RequestFails(IF op.method = "initialized" THEN Peer ELSE [Peer EXCEPT !.nextId = @ + 1])
    /\ UNCHANGED frameOfRequest

RequestWritten ==
    /\ op.state = "send"
    /\ op.method # "initialized"
    /\ Peer.stdin = "room"
    /\ op' = [op EXCEPT !.state = "wait"]
    /\ processes' = [processes EXCEPT ![op.process].nextId = @ + 1,
                                      ![op.process].unread = @ \cup {processes[op.process].nextId}]
    /\ UNCHANGED <<next, abandoned, frameOfRequest>>

Rest == [Peer EXCEPT !.channel = Tail(@)]
Received == processes' = [processes EXCEPT ![op.process] = Rest]

\* A message with another id is passed over.
OtherMessageSkipped ==
    /\ op.state = "wait"
    /\ Channel # <<>>
    /\ Head(Channel) # processes[op.process].nextId - 1
    /\ Received
    /\ UNCHANGED <<op, next, abandoned, frameOfRequest>>

Connected(found) ==
    [status |-> "Connected", process |-> op.process,
     tools |-> "tools" \in found, resources |-> "resources" \in found]

\* What connecting still asks for, tools first, of what the server has offered.
Wanted(offered) ==
    CASE op.method = "initialized" -> offered
      [] op.method = "tools" -> offered \ {"tools"}
      [] OTHER -> {}

GoesOn(offered) ==
    \/ /\ Wanted(offered) = {}
       /\ op' = Operating("reload")
       /\ Listed(op.server, Connected(offered))
    \/ /\ \E method \in Wanted(offered) :
            /\ method = "tools" \/ "tools" \notin Wanted(offered)
            /\ op' = Requesting(op.server, op.process, method, offered)
       /\ UNCHANGED next

\* notify_initialized; then the lists the server has offered.
InitializedWritten ==
    /\ op.state = "send"
    /\ op.method = "initialized"
    /\ Peer.stdin = "room"
    /\ GoesOn(op.found)
    /\ UNCHANGED <<processes, abandoned, frameOfRequest>>

\* A result, or an error.  A call returns with either.
Answered ==
    /\ op.state = "wait"
    /\ Channel # <<>>
    /\ Head(Channel) = processes[op.process].nextId - 1
    /\ \/ RequestFails(Rest)
       \/ /\ op.method = "initialize"
          /\ \E offered \in SUBSET {"tools", "resources"} :
                op' = Requesting(op.server, op.process, "initialized", offered)
          /\ Received /\ UNCHANGED <<next, abandoned>>
       \/ /\ op.method \in {"tools", "resources"}
          /\ GoesOn(op.found)
          /\ Received /\ UNCHANGED abandoned
    /\ UNCHANGED frameOfRequest

\* Mutant: without an answer the caller waits again.
TimeoutWaitsAgain ==
    /\ op.state = "wait"
    /\ Channel = <<>>
    /\ processes[op.process].reading
    /\ UNCHANGED mcpVars

\* REQUEST_TIMEOUT without a message; killing may fail as well.
Timeout ==
    /\ op.state = "wait"
    /\ Channel = <<>>
    /\ processes[op.process].reading
    /\ RequestFails(Peer) \/ RequestFails(Exited(Peer))
    /\ UNCHANGED frameOfRequest

\* The reader has ended, with or without an error of its own.
Disconnected ==
    /\ op.state = "wait"
    /\ Channel = <<>>
    /\ ~ processes[op.process].reading
    /\ RequestFails(Peer)
    /\ UNCHANGED frameOfRequest

ManagerStep ==
    \/ \E name \in Names : ServerNotStarted(name) \/ ServerStarted(name)
    \/ ReloadEnds \/ RequestNotWritten \/ RequestWritten \/ InitializedWritten
    \/ OtherMessageSkipped \/ Answered \/ Timeout \/ Disconnected

--------------------------------------------------------------------------------
(***************************************************************************)
(* The processes and their readers.                                        *)
(***************************************************************************)

processFrame == <<merged, servers, next, todo, op, counters, history>>
Running(p) == processes[p].phase = "running" /\ processes[p].reading

ProcessAnswers(p) ==
    /\ Running(p)
    /\ \E id \in processes[p].unread :
        processes' = [processes EXCEPT ![p].unread = @ \ {id}, ![p].channel = Append(@, id)]
    /\ UNCHANGED processFrame

\* A notification or a message with an unknown id.
ProcessNotifies(p) ==
    /\ Running(p)
    /\ Len(processes[p].channel) < MaxBacklog
    /\ processes' = [processes EXCEPT ![p].channel = Append(@, 0)]
    /\ UNCHANGED processFrame

\* The process stops reading its stdin, goes on reading it or closes it.  Nothing depends on it but
\* a write, so it does when somebody is about to write or blocked.
StdinChanges(p) ==
    /\ op.state = "send" /\ p = op.process
    /\ processes[p].phase = "running"
    /\ processes[p].stdin # "closed"
    /\ \E stdin \in {"room", "full", "closed"} :
        processes' = [processes EXCEPT ![p].stdin = stdin]
    /\ UNCHANGED processFrame

\* A frame that cannot be read ends the reader and leaves the process alone.
ReaderFails(p) ==
    /\ Running(p)
    /\ processes' = [processes EXCEPT ![p].reading = FALSE]
    /\ UNCHANGED processFrame

ProcessExits(p) ==
    /\ processes[p].phase = "running"
    /\ processes' = [processes EXCEPT ![p] = Exited(processes[p])]
    /\ UNCHANGED processFrame

McpNext ==
    \/ SetPluginServers \/ ReloadCommand \/ BeginCall
    \/ ManagerStep
    \/ \E p \in Processes :
        \/ ProcessAnswers(p) \/ ProcessNotifies(p) \/ StdinChanges(p)
        \/ ReaderFails(p) \/ ProcessExits(p)

\* The caller's thread runs; the servers owe nothing.
McpSpec == McpInit /\ [][McpNext]_mcpVars /\ WF_mcpVars(ManagerStep)

--------------------------------------------------------------------------------
(***************************************************************************)
(* Properties.                                                             *)
(***************************************************************************)

\* Type invariant.
McpTypeOK ==
    /\ merged \in BOOLEAN
    /\ servers \in [Names -> ServerState] /\ next \in [Names -> ServerState]
    /\ \A name \in Names : (servers[name].process # 0) <=> (servers[name].status = "Connected")
    /\ todo \subseteq Names
    /\ op \in Operation
    /\ processes \in [Processes -> Process]
    /\ \A p \in Processes : p > spawned => processes[p] = UnbornProcess
    /\ spawned \in 0 .. MaxSpawns /\ calls \in 0 .. MaxCalls /\ reloads \in 0 .. MaxReloads
    /\ abandoned \subseteq Processes /\ unkilled \subseteq Processes

\* A process that runs belongs to a server, or its connection is being made, or it was given up half
\* way, or a reload tried to kill it in vain: none is left behind that nobody meant to stop.  Each
\* server has a process of its own, and none has one that was given up.
RunningProcessesAreOwned ==
    /\ \A p \in Processes : processes[p].phase = "running" =>
        \/ p \in Live(servers) \cup abandoned \cup unkilled
        \/ op.state # "none" /\ p \in Live(next) \cup {op.process}
    /\ \A name, other \in Names :
        servers[name].process = servers[other].process => name = other \/ servers[name].process = 0
    /\ Live(servers) \cap (abandoned \cup unkilled) = {}

\* The servers fall silent, but for what they were asked.
NoEndlessTalk == <>[][~ \E p \in Processes : ProcessNotifies(p)]_mcpVars

\* Every operation returns, whatever the servers answer, unless it blocks in a write: a process that
\* exits, closes a pipe or never answers ends it, one that runs and does not read its stdin need
\* not.  A server that sends other messages without end may hold the caller as well.
OperationsReturn ==
    NoEndlessTalk => ((op.state # "none") ~> (op.state = "none" \/ WriteBlocks))
=============================================================================
