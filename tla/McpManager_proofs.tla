--------------------------- MODULE McpManager_proofs ---------------------------
(***************************************************************************)
(* Proofs about McpManager, for any set of servers and any number of       *)
(* processes, calls, reloads and messages.                                 *)
(***************************************************************************)
EXTENDS McpManager, TLAPS

(***************************************************************************)
(* The inductive invariant.                                                *)
(***************************************************************************)

Waits == op.state \in {"send", "wait"}
IsConnecting == Waits /\ op.method \in Connecting
IsCalling == Waits /\ op.method \notin Connecting

\* The processes a list of servers names have been started, each for one server, and a server
\* has one exactly when it is connected.
Listing(states) ==
    /\ \A name \in Names : /\ (states[name].process # 0) <=> (states[name].status = "Connected")
                           /\ states[name].process \in 0 .. spawned
    /\ \A name, other \in Names :
        states[name].process = states[other].process => name = other \/ states[name].process = 0

\* What the caller does agrees with the lists: a reload names processes for the servers it is
\* done with only, the process it connects is the youngest and in no list yet, and a call goes to
\* the process of a server.
OperationAgrees ==
    /\ \A name \in todo : next[name].process = 0
    /\ op.state = "none" \/ IsCalling => \A name \in Names : next[name].process = 0
    /\ op.state \in {"none", "reload"} => op.process = 0
    /\ Waits => op.process \in 1 .. spawned
    /\ IsConnecting =>
        /\ op.server \notin todo /\ next[op.server].process = 0
        /\ \A name \in Names : next[name].process # op.process
    /\ IsCalling => \E name \in Names : servers[name].process = op.process

\* A reader runs only beside its process.
ReadersHaveProcesses == \A p \in Processes : processes[p].reading => processes[p].phase = "running"

\* A process that runs has an owner, or was given up.
OwnersAreKnown ==
    \A p \in Processes : processes[p].phase = "running" =>
        \/ p \in Live(servers) \cup abandoned \cup unkilled
        \/ op.state # "none" /\ p \in Live(next) \cup {op.process}

\* A process that was given up is in no list and not the one being connected, and the servers a
\* reload has connected share none with the old ones.
GivenUp == abandoned \cup unkilled
GivenUpIsUnused ==
    /\ GivenUp \subseteq 1 .. spawned
    /\ \A name \in Names : servers[name].process \notin GivenUp /\ next[name].process \notin GivenUp
    /\ \A name, other \in Names :
        next[name].process = servers[other].process => next[name].process = 0
    /\ IsConnecting => /\ op.process \notin GivenUp
                       /\ \A name \in Names : servers[name].process # op.process

McpInvariant ==
    /\ McpTypeOK
    /\ ReadersHaveProcesses
    /\ Listing(servers) /\ Listing(next)
    /\ OperationAgrees
    /\ OwnersAreKnown
    /\ GivenUpIsUnused


--------------------------------------------------------------------------------

LEMMA ServerRecords ==
    /\ Absent \in ServerState /\ FailedServer \in ServerState
    /\ Absent.process = 0 /\ FailedServer.process = 0
    /\ Absent.status # "Connected" /\ FailedServer.status # "Connected"
<1>1. Absent \in ServerState /\ Absent.process = 0 /\ Absent.status # "Connected"
    BY McpAssumption DEF Absent, ServerState
<1>2. FailedServer = [Absent EXCEPT !.status = "Failed"]
    BY DEF FailedServer
<1> QED
    BY <1>1, <1>2 DEF ServerState

LEMMA ProcessRecords ==
    /\ UnbornProcess \in Process /\ UnbornProcess.phase = "unborn"
    /\ \A phase \in {"unborn", "running", "gone"} :
        Unheld(phase) \in Process /\ Unheld(phase).phase = phase /\ ~ Unheld(phase).reading
<1>1. UnbornProcess \in Process /\ UnbornProcess.phase = "unborn" /\ ~ UnbornProcess.reading
    <2>1. <<>> \in Seq(Nat)
        OBVIOUS
    <2> QED
        BY <2>1 DEF UnbornProcess, Process
<1> QED
    BY <1>1 DEF Unheld, Process

LEMMA OperationRecords ==
    /\ \A state \in {"none", "reload"} :
        /\ Operating(state) \in Operation
        /\ Operating(state).state = state /\ Operating(state).process = 0
    /\ \A name \in Names, p \in 0 .. MaxSpawns, method \in Methods,
          found \in SUBSET {"tools", "resources"} :
        /\ Requesting(name, p, method, found) \in Operation
        /\ Requesting(name, p, method, found).state = "send"
        /\ Requesting(name, p, method, found).method = method
        /\ Requesting(name, p, method, found).process = p
        /\ Requesting(name, p, method, found).server = name
<1>1. AnyServer \in Names
    BY McpAssumption DEF AnyServer
<1>2. 0 \in 0 .. MaxSpawns /\ "initialize" \in Methods /\ {} \in SUBSET {"tools", "resources"}
    BY McpAssumption DEF Methods, Connecting
<1> QED
    BY <1>1, <1>2 DEF Operating, Requesting, Operation

\* The numbers of the processes.
LEMMA Numbers ==
    ASSUME McpTypeOK
    PROVE  /\ MaxSpawns \in Nat /\ spawned \in Nat
           /\ Processes = 1 .. MaxSpawns
           /\ 1 .. spawned \subseteq Processes
           /\ 0 .. spawned \subseteq 0 .. MaxSpawns
           /\ 0 \in 0 .. spawned
    BY McpAssumption DEF McpTypeOK, Processes

LEMMA McpInvariantInit == McpInit => McpInvariant
<1> SUFFICES ASSUME McpInit PROVE McpInvariant
    OBVIOUS
<1> USE ServerRecords, ProcessRecords, OperationRecords, McpAssumption
<1>1. /\ servers = [name \in Names |-> Absent] /\ next = [name \in Names |-> Absent]
      /\ op = Operating("reload") /\ spawned = 0
      /\ processes = [p \in Processes |-> UnbornProcess]
    BY DEF McpInit
<1>2. McpTypeOK
    <2>1. /\ merged \in BOOLEAN /\ todo \subseteq Names /\ abandoned \subseteq Processes
          /\ unkilled \subseteq Processes
          /\ spawned \in 0 .. MaxSpawns /\ calls \in 0 .. MaxCalls /\ reloads \in 0 .. MaxReloads
        BY DEF McpInit, Names
    <2> QED
        BY <1>1, <2>1 DEF McpTypeOK
<1>3. Listing(servers) /\ Listing(next) /\ OperationAgrees
    <2>1. todo \subseteq Names
        BY DEF McpInit, Names
    <2>2. Listing(servers) /\ Listing(next)
        BY <1>1 DEF Listing
    <2> QED
        BY <1>1, <2>1, <2>2 DEF OperationAgrees, Waits, IsConnecting, IsCalling
<1>r. ReadersHaveProcesses
    BY <1>1 DEF ReadersHaveProcesses, UnbornProcess
<1>4. OwnersAreKnown
    BY <1>1 DEF OwnersAreKnown
<1>g. GivenUpIsUnused
    <2>1. GivenUp = {}
        BY DEF McpInit, GivenUp
    <2> QED
        BY <1>1, <2>1 DEF GivenUpIsUnused, IsConnecting, Waits
<1> QED
    BY <1>2, <1>3, <1>4, <1>r, <1>g DEF McpInvariant

--------------------------------------------------------------------------------
(***************************************************************************)
(* The processes.                                                          *)
(***************************************************************************)

\* One process changes: its record stays one, and no unborn process is touched.
LEMMA OneProcessChanges ==
    ASSUME McpTypeOK, NEW p \in 1 .. spawned, NEW l \in Process,
           processes' = [processes EXCEPT ![p] = l], spawned' = spawned
    PROVE  /\ processes' \in [Processes -> Process]
           /\ \A q \in Processes : q > spawned' => processes'[q] = UnbornProcess
           /\ processes'[p] = l
           /\ \A q \in Processes \ {p} : processes'[q] = processes[q]
    BY Numbers DEF McpTypeOK

\* A process that is not new is running or gone.
LEMMA BornProcess ==
    ASSUME McpTypeOK, NEW p \in Processes, processes[p].phase = "running"
    PROVE  p \in 1 .. spawned
    BY Numbers, ProcessRecords DEF McpTypeOK

\* A process and its reader change their own record, and run no more than they did.
LEMMA ProcessChangeKeepsInvariant ==
    ASSUME McpInvariant, NEW p \in Processes, NEW l \in Process,
           processes[p].phase = "running", l.reading => l.phase = "running",
           processes' = [processes EXCEPT ![p] = l],
           UNCHANGED processFrame
    PROVE  McpInvariant'
<1>1. McpTypeOK /\ p \in 1 .. spawned
    BY BornProcess DEF McpInvariant
<1>2. /\ merged' = merged /\ servers' = servers /\ next' = next /\ todo' = todo /\ op' = op
      /\ spawned' = spawned /\ calls' = calls /\ reloads' = reloads
      /\ abandoned' = abandoned /\ unkilled' = unkilled
    BY DEF processFrame, counters, history
<1>3. /\ processes' \in [Processes -> Process]
      /\ \A q \in Processes : q > spawned' => processes'[q] = UnbornProcess
      /\ \A q \in Processes \ {p} : processes'[q] = processes[q]
    BY <1>1, <1>2, OneProcessChanges
<1>4. McpTypeOK'
    BY <1>1, <1>2, <1>3 DEF McpTypeOK
<1>5. Listing(servers)' /\ Listing(next)' /\ OperationAgrees'
    BY <1>2 DEF McpInvariant, Listing, OperationAgrees, Waits, IsConnecting, IsCalling
<1>r. ReadersHaveProcesses'
    BY <1>1, <1>3, OneProcessChanges, <1>2 DEF McpInvariant, ReadersHaveProcesses
<1>6. OwnersAreKnown'
    BY <1>2, <1>3 DEF McpInvariant, OwnersAreKnown, Live
<1>g. GivenUpIsUnused'
    BY <1>2 DEF McpInvariant, GivenUpIsUnused, GivenUp, IsConnecting, Waits
<1> QED
    BY <1>g, <1>r, <1>4, <1>5, <1>6 DEF McpInvariant

LEMMA ExitedProcess ==
    ASSUME NEW k \in Process
    PROVE  /\ Exited(k) \in Process /\ ~ Exited(k).reading /\ Exited(k).phase = "gone"
           /\ Exited(k).nextId = k.nextId
    BY DEF Exited, Process

LEMMA ProcessKeepsInvariant ==
    ASSUME McpInvariant, NEW p \in Processes,
           \/ ProcessAnswers(p) \/ ProcessNotifies(p) \/ StdinChanges(p)
           \/ ReaderFails(p) \/ ProcessExits(p)
    PROVE  McpInvariant'
<1> DEFINE k == processes[p]
<1>1. McpTypeOK /\ k \in Process
    BY DEF McpInvariant, McpTypeOK
<1>r. k.reading => k.phase = "running"
    BY DEF McpInvariant, ReadersHaveProcesses
<1>2. CASE ProcessAnswers(p)
    <2> PICK id \in k.unread :
            processes' = [processes EXCEPT ![p].unread = @ \ {id}, ![p].channel = Append(@, id)]
        BY <1>2 DEF ProcessAnswers
    <2> DEFINE l == [k EXCEPT !.unread = k.unread \ {id}, !.channel = Append(k.channel, id)]
    <2>1. id \in Nat /\ Append(k.channel, id) \in Seq(Nat) /\ k.unread \ {id} \in SUBSET Nat
        BY <1>1 DEF Process
    <2>2. l \in Process /\ l.phase = k.phase /\ l.reading = k.reading
        BY <1>1, <2>1 DEF Process
    <2>3. processes' = [processes EXCEPT ![p] = l]
        BY <1>1, <2>1 DEF Process, McpTypeOK
    <2> QED
        BY <1>1, <1>2, <2>2, <2>3, ProcessChangeKeepsInvariant DEF ProcessAnswers, Running
<1>3. CASE ProcessNotifies(p)
    <2> DEFINE l == [k EXCEPT !.channel = Append(k.channel, 0)]
    <2>1. Append(k.channel, 0) \in Seq(Nat)
        BY <1>1 DEF Process
    <2>2. l \in Process /\ l.phase = k.phase /\ l.reading = k.reading
        BY <1>1, <2>1 DEF Process
    <2>3. processes' = [processes EXCEPT ![p] = l]
        BY <1>1, <1>3 DEF ProcessNotifies, Process, McpTypeOK
    <2> QED
        BY <1>3, <2>2, <2>3, ProcessChangeKeepsInvariant DEF ProcessNotifies, Running
<1>4. CASE StdinChanges(p)
    <2> PICK stdin \in {"room", "full", "closed"} :
            processes' = [processes EXCEPT ![p].stdin = stdin]
        BY <1>4 DEF StdinChanges
    <2> DEFINE l == [k EXCEPT !.stdin = stdin]
    <2>1. l \in Process /\ l.phase = k.phase /\ l.reading = k.reading
        BY <1>1 DEF Process
    <2>2. processes' = [processes EXCEPT ![p] = l]
        BY <1>1 DEF Process, McpTypeOK
    <2>3. k.phase = "running" /\ UNCHANGED processFrame
        BY <1>4 DEF StdinChanges
    <2>4. l.reading => l.phase = "running"
        BY <1>r, <2>1
    <2> HIDE DEF l
    <2> QED
        BY <2>1, <2>2, <2>3, <2>4, ProcessChangeKeepsInvariant
<1>5. CASE ReaderFails(p)
    <2> DEFINE l == [k EXCEPT !.reading = FALSE]
    <2>1. l \in Process
        BY <1>1 DEF Process
    <2>2. processes' = [processes EXCEPT ![p] = l]
        BY <1>1, <1>5 DEF ReaderFails, Process, McpTypeOK
    <2>3. ~ l.reading /\ k.phase = "running"
        BY <1>1, <1>5 DEF Process, ReaderFails, Running
    <2> QED
        BY <1>1, <1>5, <2>1, <2>2, <2>3, ProcessChangeKeepsInvariant DEF ReaderFails
<1>6. CASE ProcessExits(p)
    BY <1>1, <1>6, ExitedProcess, ProcessChangeKeepsInvariant DEF ProcessExits
<1> QED
    BY <1>2, <1>3, <1>4, <1>5, <1>6


--------------------------------------------------------------------------------
(***************************************************************************)
(* Reload.                                                                 *)
(***************************************************************************)

LEMMA BeginReloadKeepsInvariant ==
    ASSUME McpInvariant, SetPluginServers \/ ReloadCommand
    PROVE  McpInvariant'
<1>1. /\ op.state = "none" /\ op' = Operating("reload") /\ todo' \subseteq Names
      /\ servers' = servers /\ next' = next /\ processes' = processes /\ spawned' = spawned
      /\ calls' = calls /\ abandoned' = abandoned /\ unkilled' = unkilled
    BY DEF SetPluginServers, ReloadCommand, BeginReload, history
<1>2. merged' \in BOOLEAN /\ reloads' \in 0 .. MaxReloads
    <2>1. merged' \in BOOLEAN
        BY DEF SetPluginServers, ReloadCommand, McpInvariant, McpTypeOK
    <2>2. CASE SetPluginServers
        <3>1. reloads' = reloads
            BY <2>2 DEF SetPluginServers
        <3> QED
            BY <2>1, <3>1 DEF McpInvariant, McpTypeOK
    <2>3. CASE ReloadCommand
        <3>1. reloads \in 0 .. MaxReloads /\ MaxReloads \in Nat
            BY McpAssumption DEF McpInvariant, McpTypeOK
        <3>2. reloads < MaxReloads /\ reloads' = reloads + 1
            BY <2>3 DEF ReloadCommand
        <3>3. reloads' \in 0 .. MaxReloads
            BY <3>1, <3>2
        <3> QED
            BY <2>1, <3>3
    <2> QED
        BY <2>2, <2>3
<1>3. McpTypeOK'
    BY <1>1, <1>2, OperationRecords DEF McpInvariant, McpTypeOK
<1>4. Listing(servers)' /\ Listing(next)'
    BY <1>1 DEF McpInvariant, Listing
<1>5. OperationAgrees'
    BY <1>1, OperationRecords DEF McpInvariant, OperationAgrees, Waits, IsConnecting, IsCalling
<1>r. ReadersHaveProcesses'
    BY <1>1 DEF McpInvariant, ReadersHaveProcesses
<1>6. OwnersAreKnown'
    BY <1>1, OperationRecords DEF McpInvariant, OwnersAreKnown, Live
<1>g. GivenUpIsUnused'
    BY <1>1, OperationRecords DEF McpInvariant, GivenUpIsUnused, GivenUp, IsConnecting, Waits
<1> QED
    BY <1>g, <1>r, <1>3, <1>4, <1>5, <1>6 DEF McpInvariant

LEMMA ServerNotStartedKeepsInvariant ==
    ASSUME McpInvariant, NEW name \in Names, ServerNotStarted(name)
    PROVE  McpInvariant'
<1> USE ServerRecords
<1>1. /\ op.state = "reload" /\ name \in todo /\ todo' = todo \ {name}
      /\ next' = [next EXCEPT ![name] = FailedServer]
      /\ op' = op /\ processes' = processes /\ spawned' = spawned /\ abandoned' = abandoned
      /\ unkilled' = unkilled
      /\ merged' = merged /\ servers' = servers /\ calls' = calls /\ reloads' = reloads
     
    BY DEF ServerNotStarted, Listed, frameOfConnecting, history
<1>2. next[name].process = 0
    BY <1>1 DEF McpInvariant, OperationAgrees
<1>3. next \in [Names -> ServerState] /\ next' \in [Names -> ServerState]
    BY <1>1 DEF McpInvariant, McpTypeOK
<1>4. \A other \in Names : next'[other].process = next[other].process
    BY <1>1, <1>2, <1>3
<1>5. McpTypeOK'
    BY <1>1, <1>3 DEF McpInvariant, McpTypeOK
<1>6. Listing(servers)' /\ Listing(next)'
    <2>1. \A other \in Names :
            (next'[other].process # 0) <=> (next'[other].status = "Connected")
        BY <1>1, <1>3 DEF McpInvariant, Listing
    <2> QED
        BY <1>1, <1>4, <2>1 DEF McpInvariant, Listing
<1>7. OperationAgrees'
    BY <1>1, <1>4 DEF McpInvariant, OperationAgrees, Waits, IsConnecting, IsCalling
<1>r. ReadersHaveProcesses'
    BY <1>1 DEF McpInvariant, ReadersHaveProcesses
<1>8. OwnersAreKnown'
    BY <1>1, <1>4 DEF McpInvariant, OwnersAreKnown, Live
<1>g. GivenUpIsUnused'
    BY <1>1, <1>4 DEF McpInvariant, GivenUpIsUnused, GivenUp, IsConnecting, Waits
<1> QED
    BY <1>g, <1>r, <1>5, <1>6, <1>7, <1>8 DEF McpInvariant

LEMMA ServerStartedKeepsInvariant ==
    ASSUME McpInvariant, NEW name \in Names, ServerStarted(name)
    PROVE  McpInvariant'
<1> DEFINE p == spawned + 1
           l == [processes[p] EXCEPT !.phase = "running", !.reading = TRUE]
<1>1. /\ op.state = "reload" /\ name \in todo /\ todo' = todo \ {name}
      /\ p \in Processes /\ spawned' = p
      /\ op' = Requesting(name, p, "initialize", {})
      /\ next' = next /\ abandoned' = abandoned /\ unkilled' = unkilled
      /\ merged' = merged /\ servers' = servers /\ calls' = calls /\ reloads' = reloads
     
    BY DEF ServerStarted, frameOfConnecting, history
<1>2. McpTypeOK /\ spawned \in Nat /\ Processes = 1 .. MaxSpawns /\ MaxSpawns \in Nat
    BY Numbers DEF McpInvariant
<1>3. processes[p] \in Process /\ l \in Process
    BY <1>1, <1>2 DEF McpTypeOK, Process
<1>4. processes' = [processes EXCEPT ![p] = l]
    BY <1>1, <1>2, <1>3 DEF ServerStarted, McpTypeOK, Process
<1> HIDE DEF l
<1>5. /\ op' \in Operation /\ op'.state = "send" /\ op'.method = "initialize"
      /\ op'.process = p /\ op'.server = name
    <2>1. /\ "initialize" \in Methods /\ {} \in SUBSET {"tools", "resources"}
          /\ p \in 0 .. MaxSpawns
        BY <1>1, <1>2 DEF Methods, Connecting
    <2> QED
        BY <1>1, <2>1, OperationRecords
<1>6. \A q \in 0 .. spawned : q # p /\ q \in 0 .. spawned'
    BY <1>1, <1>2
<1>7. McpTypeOK'
    <2>1. \A q \in Processes : q > spawned' => processes'[q] = UnbornProcess
        BY <1>1, <1>2, <1>4 DEF McpTypeOK
    <2>2. processes' \in [Processes -> Process] /\ spawned' \in 0 .. MaxSpawns
        BY <1>1, <1>2, <1>3, <1>4 DEF McpTypeOK
    <2> QED
        BY <1>1, <1>2, <1>5, <2>1, <2>2 DEF McpTypeOK
<1>8. Listing(servers)' /\ Listing(next)'
    BY <1>1, <1>6 DEF McpInvariant, Listing
<1>9. OperationAgrees'
    <2>1. next[name].process = 0
        BY <1>1 DEF McpInvariant, OperationAgrees
    <2>2. \A other \in Names : next[other].process # p
        BY <1>6 DEF McpInvariant, Listing
    <2>3. op'.process \in 1 .. spawned'
        BY <1>1, <1>2, <1>5
    <2> QED
        BY <1>1, <1>5, <2>1, <2>2, <2>3
        DEF McpInvariant, OperationAgrees, Waits, IsConnecting, IsCalling, Connecting
<1>r. ReadersHaveProcesses'
    <2>1. processes'[p].phase = "running"
        BY <1>1, <1>2, <1>3, <1>4 DEF McpTypeOK, l, Process
    <2>2. \A q \in Processes \ {p} : processes'[q] = processes[q]
        BY <1>2, <1>4 DEF McpTypeOK
    <2> QED
        BY <2>1, <2>2 DEF McpInvariant, ReadersHaveProcesses
<1>10. OwnersAreKnown'
    <2>1. \A q \in Processes \ {p} : processes'[q] = processes[q]
        BY <1>2, <1>4 DEF McpTypeOK
    <2>2. op.process = 0
        BY <1>1 DEF McpInvariant, OperationAgrees
    <2>3. \A q \in Processes : q # 0
        BY <1>2
    <2> QED
        BY <1>1, <1>5, <2>1, <2>2, <2>3 DEF McpInvariant, OwnersAreKnown, Live
<1>g. GivenUpIsUnused'
    <2>1. GivenUp' = GivenUp
        BY <1>1 DEF GivenUp
    <2>2. p \notin GivenUp /\ GivenUp \subseteq 1 .. spawned'
        BY <1>1, <1>2 DEF McpInvariant, GivenUpIsUnused
    <2>3. \A other \in Names : servers[other].process # p
        BY <1>6 DEF McpInvariant, Listing
    <2> QED
        BY <1>1, <1>5, <2>1, <2>2, <2>3 DEF McpInvariant, GivenUpIsUnused
<1> QED
    BY <1>g, <1>r, <1>7, <1>8, <1>9, <1>10 DEF McpInvariant

LEMMA ReloadEndsKeepsInvariant ==
    ASSUME McpInvariant, ReloadEnds
    PROVE  McpInvariant'
<1> USE ServerRecords, OperationRecords, ProcessRecords
<1>0. PICK surviving \in SUBSET {p \in Live(servers) : processes[p].phase = "running"} :
        /\ processes' = Dropped(Live(servers), surviving)
        /\ unkilled' = unkilled \cup surviving
    BY DEF ReloadEnds
<1>1. /\ op.state = "reload" /\ todo = {} /\ servers' = next
      /\ next' = [name \in Names |-> Absent] /\ op' = Operating("none")
      /\ merged' = merged /\ todo' = todo /\ abandoned' = abandoned
      /\ spawned' = spawned /\ calls' = calls /\ reloads' = reloads
    BY DEF ReloadEnds, counters
<1>2. McpTypeOK /\ Listing(servers) /\ Listing(next)
    BY DEF McpInvariant
<1>s. /\ surviving \subseteq Live(servers) /\ Live(servers) \subseteq 1 .. spawned
      /\ Live(servers) \subseteq Processes
    BY <1>0, <1>2, Numbers DEF Live, Listing
<1>3. /\ processes' \in [Processes -> Process]
      /\ \A q \in Processes : q > spawned => processes'[q] = UnbornProcess
      /\ \A q \in Processes : processes'[q].phase = "running" =>
            processes[q].phase = "running" /\ (q \notin Live(servers) \/ q \in surviving)
      /\ \A q \in Processes : processes'[q].reading => processes'[q].phase = "running"
    <2>1. \A q \in Live(servers) : ~ q > spawned
        BY <1>2, <1>s, Numbers
    <2>2. \A q \in Processes : processes[q] \in Process
        BY <1>2 DEF McpTypeOK
    <2> DEFINE after(q) == IF q \in surviving THEN "running" ELSE "gone"
    <2>3. \A q \in Processes : processes'[q] = IF q \in Live(servers)
                                              THEN Unheld(after(q))
                                              ELSE processes[q]
        BY <1>0 DEF Dropped
    <2>4. \A q : after(q) \in {"running", "gone"} /\ (after(q) = "running" <=> q \in surviving)
        OBVIOUS
    <2> HIDE DEF after
    <2>5. processes' = [q \in Processes |-> processes'[q]]
        BY <1>0 DEF Dropped
    <2>6. \A q \in Processes : processes'[q] \in Process
        BY <2>2, <2>3, <2>4
    <2>7. \A q \in surviving : processes[q].phase = "running"
        BY <1>0
    <2>8. processes' \in [Processes -> Process]
        BY <2>5, <2>6
    <2>9. \A q \in Processes : q > spawned => processes'[q] = UnbornProcess
        BY <1>2, <2>1, <2>3 DEF McpTypeOK
    <2>10. ASSUME NEW q \in Processes, processes'[q].phase = "running"
           PROVE  processes[q].phase = "running" /\ (q \notin Live(servers) \/ q \in surviving)
        <3>1. CASE q \in Live(servers)
            <4>1. processes'[q].phase = after(q)
                BY <2>3, <2>4, <3>1
            <4> QED
                BY <2>4, <2>7, <2>10, <4>1
        <3>2. CASE q \notin Live(servers)
            <4>1. processes'[q] = processes[q]
                BY <2>3, <3>2
            <4> QED
                BY <2>10, <3>2, <4>1
        <3> QED
            BY <3>1, <3>2
    <2>11. ASSUME NEW q \in Processes, processes'[q].reading
           PROVE  processes'[q].phase = "running"
        <3>1. CASE q \in Live(servers)
            <4>1. processes'[q] = Unheld(after(q)) /\ after(q) \in {"running", "gone"}
                BY <2>3, <2>4, <3>1
            <4>2. ~ processes'[q].reading
                BY <4>1
            <4> QED
                BY <2>11, <4>2
        <3>2. CASE q \notin Live(servers)
            <4>1. processes'[q] = processes[q]
                BY <2>3, <3>2
            <4>2. processes[q].reading => processes[q].phase = "running"
                BY DEF McpInvariant, ReadersHaveProcesses
            <4> QED
                BY <2>11, <4>1, <4>2
        <3> QED
            BY <3>1, <3>2
    <2> QED
        BY <2>8, <2>9, <2>10, <2>11
<1>4. McpTypeOK'
    <2>1. unkilled' \subseteq Processes
        BY <1>0, <1>2, <1>s DEF McpTypeOK
    <2> QED
        BY <1>1, <1>2, <1>3, <2>1 DEF McpTypeOK, Listing
<1>5. Listing(servers)' /\ Listing(next)'
    BY <1>1, <1>2, Numbers DEF Listing
<1>6. OperationAgrees'
    BY <1>1, <1>2 DEF McpTypeOK, OperationAgrees, Waits, IsConnecting, IsCalling
<1>r. ReadersHaveProcesses'
    BY <1>3 DEF ReadersHaveProcesses
<1>7. OwnersAreKnown'
    <2>1. op.process = 0
        BY <1>1 DEF McpInvariant, OperationAgrees
    <2>2. \A q \in Processes : q # 0
        BY <1>2, Numbers
    <2>3. \A q \in Processes : processes'[q].phase = "running" =>
            q \in Live(next) \cup abandoned \cup unkilled \cup surviving
        BY <1>3, <2>1, <2>2 DEF McpInvariant, OwnersAreKnown
    <2>4. Live(servers)' = Live(next)
        BY <1>1 DEF Live
    <2> QED
        BY <1>0, <1>1, <2>3, <2>4 DEF OwnersAreKnown
<1>g. GivenUpIsUnused'
    <2>1. GivenUp' = GivenUp \cup surviving
        BY <1>0, <1>1 DEF GivenUp
    <2>2. 0 \notin GivenUp' /\ GivenUp' \subseteq 1 .. spawned
        <3>1. GivenUp \subseteq 1 .. spawned
            BY DEF McpInvariant, GivenUpIsUnused
        <3>2. 0 \notin 1 .. spawned
            BY <1>2, Numbers
        <3> QED
            BY <1>s, <2>1, <3>1, <3>2
    <2>3. \A name \in Names : next[name].process \notin surviving
        BY <1>s DEF McpInvariant, GivenUpIsUnused, Live
    <2>4. \A name \in Names : servers'[name].process \notin GivenUp'
        BY <1>1, <2>1, <2>3 DEF McpInvariant, GivenUpIsUnused
    <2>5. \A name \in Names : next'[name].process = 0
        BY <1>1
    <2>6. ~ IsConnecting'
        BY <1>1 DEF IsConnecting, Waits
    <2> QED
        BY <1>1, <2>2, <2>4, <2>5, <2>6 DEF GivenUpIsUnused
<1> QED
    BY <1>g, <1>r, <1>4, <1>5, <1>6, <1>7 DEF McpInvariant

--------------------------------------------------------------------------------
(***************************************************************************)
(* Requests.                                                               *)
(***************************************************************************)

LEMMA BeginCallKeepsInvariant ==
    ASSUME McpInvariant, BeginCall
    PROVE  McpInvariant'
<1>1. PICK name \in Names, method \in {"call", "read"} :
        servers[name].process # 0 /\ op' = Requesting(name, servers[name].process, method, {})
    BY DEF BeginCall
<1>2. /\ op.state = "none" /\ calls' = calls + 1 /\ calls < MaxCalls
      /\ merged' = merged /\ servers' = servers /\ next' = next /\ todo' = todo
      /\ processes' = processes /\ spawned' = spawned /\ reloads' = reloads
      /\ abandoned' = abandoned /\ unkilled' = unkilled
    BY DEF BeginCall, history
<1>3. McpTypeOK
    BY DEF McpInvariant
<1>4. servers[name].process \in 1 .. spawned
    BY <1>1, <1>3, Numbers DEF McpInvariant, Listing
<1>5. /\ op' \in Operation /\ op'.state = "send" /\ op'.method = method
      /\ op'.process = servers[name].process
    <2>1. method \in Methods /\ {} \in SUBSET {"tools", "resources"}
          /\ servers[name].process \in 0 .. MaxSpawns
        BY <1>3, <1>4, Numbers DEF Methods
    <2> QED
        BY <1>1, <2>1, OperationRecords
<1>6. McpTypeOK'
    <2>1. calls' \in 0 .. MaxCalls
        BY <1>2, <1>3, McpAssumption DEF McpTypeOK
    <2> QED
        BY <1>2, <1>3, <1>5, <2>1 DEF McpTypeOK
<1>7. Listing(servers)' /\ Listing(next)'
    BY <1>2 DEF McpInvariant, Listing
<1>8. OperationAgrees'
    BY <1>2, <1>4, <1>5
    DEF McpInvariant, OperationAgrees, Waits, IsConnecting, IsCalling, Connecting
<1>r. ReadersHaveProcesses'
    BY <1>2 DEF McpInvariant, ReadersHaveProcesses
<1>9. OwnersAreKnown'
    BY <1>2 DEF McpInvariant, OwnersAreKnown, Live
<1>g. GivenUpIsUnused'
    BY <1>1, <1>2, <1>5 DEF McpInvariant, GivenUpIsUnused, GivenUp, IsConnecting, Waits, Connecting
<1> QED
    BY <1>g, <1>r, <1>6, <1>7, <1>8, <1>9 DEF McpInvariant

LEMMA FrameOfRequest ==
    ASSUME UNCHANGED frameOfRequest
    PROVE  /\ merged' = merged /\ servers' = servers /\ todo' = todo /\ spawned' = spawned
           /\ calls' = calls /\ reloads' = reloads /\ unkilled' = unkilled
    BY DEF frameOfRequest, counters

LEMMA PeerTypes ==
    ASSUME McpInvariant, Waits
    PROVE  /\ op.process \in 1 .. spawned /\ op.process \in Processes
           /\ op.process \in 0 .. MaxSpawns
           /\ Peer \in Process /\ processes[op.process] = Peer
           /\ op \in Operation /\ op.server \in Names
           /\ op.method \in Methods /\ op.found \in SUBSET {"tools", "resources"}
<1>1. McpTypeOK /\ op.process \in 1 .. spawned
    BY DEF McpInvariant, OperationAgrees
<1> QED
    BY <1>1, Numbers DEF McpTypeOK, Peer, Operation

\* The request goes on, with another record of its process.
LEMMA WaitingKeepsInvariant ==
    ASSUME McpInvariant, Waits, NEW l \in Process,
           l.phase = Peer.phase, l.reading = Peer.reading,
           processes' = [processes EXCEPT ![op.process] = l],
           op' = op \/ op' = [op EXCEPT !.state = "wait"],
           UNCHANGED <<next, abandoned, frameOfRequest>>
    PROVE  McpInvariant'
<1> USE PeerTypes, FrameOfRequest
<1>1. McpTypeOK /\ next' = next /\ abandoned' = abandoned
    BY DEF McpInvariant
<1>2. /\ op' \in Operation /\ op'.state \in {"send", "wait"} /\ op'.method = op.method
      /\ op'.process = op.process /\ op'.server = op.server
    BY DEF Operation, Waits
<1>3. /\ processes' \in [Processes -> Process]
      /\ \A q \in Processes : q > spawned' => processes'[q] = UnbornProcess
      /\ \A q \in Processes : processes'[q].phase = processes[q].phase
    BY <1>1, OneProcessChanges
<1>4. McpTypeOK'
    BY <1>1, <1>2, <1>3 DEF McpTypeOK
<1>5. Listing(servers)' /\ Listing(next)'
    BY <1>1 DEF McpInvariant, Listing
<1>6. OperationAgrees'
    BY <1>1, <1>2 DEF McpInvariant, OperationAgrees, Waits, IsConnecting, IsCalling
<1>r. ReadersHaveProcesses'
    BY <1>1, OneProcessChanges DEF McpInvariant, ReadersHaveProcesses
<1>7. OwnersAreKnown'
    BY <1>1, <1>2, <1>3 DEF McpInvariant, OwnersAreKnown, Live, Waits
<1>g. GivenUpIsUnused'
    BY <1>1, <1>2 DEF McpInvariant, GivenUpIsUnused, GivenUp, IsConnecting, Waits
<1> QED
    BY <1>g, <1>r, <1>4, <1>5, <1>6, <1>7 DEF McpInvariant


LEMMA RequestFailsKeepsInvariant ==
    ASSUME McpInvariant, Waits, NEW left \in Process,
           left.reading => left.phase = "running",
           left.phase = "running" => Peer.phase = "running",
           RequestFails(left), UNCHANGED frameOfRequest
    PROVE  McpInvariant'
<1> USE PeerTypes, FrameOfRequest, ServerRecords, OperationRecords
<1>1. McpTypeOK
    BY DEF McpInvariant
<1>2. CASE op.method \in Connecting
    <2> DEFINE l == Unheld(left.phase)
    <2>1. /\ op' = Operating("reload") /\ next' = [next EXCEPT ![op.server] = FailedServer]
          /\ abandoned' = abandoned \cup {op.process}
          /\ processes' = [processes EXCEPT ![op.process] = l]
        BY <1>2 DEF RequestFails, Listed
    <2>2. l \in Process /\ ~ l.reading
        <3>1. left.phase \in {"unborn", "running", "gone"}
            BY DEF Process
        <3> QED
            BY <3>1, ProcessRecords
    <2> HIDE DEF l
    <2>3. /\ processes' \in [Processes -> Process]
          /\ \A q \in Processes : q > spawned' => processes'[q] = UnbornProcess
          /\ processes'[op.process] = l
          /\ \A q \in Processes \ {op.process} : processes'[q] = processes[q]
        BY <1>1, <2>1, <2>2, OneProcessChanges
    <2>4. /\ op.server \notin todo /\ next[op.server].process = 0
          /\ \A name \in todo : next[name].process = 0
        BY <1>2 DEF McpInvariant, OperationAgrees, IsConnecting
    <2>5. next \in [Names -> ServerState] /\ next' \in [Names -> ServerState]
        BY <1>1, <2>1 DEF McpTypeOK
    <2>6. \A name \in Names : next'[name].process = next[name].process
        BY <2>1, <2>4, <2>5
    <2>7. McpTypeOK'
        BY <1>1, <2>1, <2>3, <2>5 DEF McpTypeOK
    <2>8. Listing(servers)' /\ Listing(next)'
        <3>1. \A name \in Names : (next'[name].process # 0) <=> (next'[name].status = "Connected")
            BY <2>1, <2>5 DEF McpInvariant, Listing
        <3> QED
            BY <2>6, <3>1 DEF McpInvariant, Listing
    <2>9. OperationAgrees'
        BY <1>1, <2>1, <2>4, <2>6 DEF McpTypeOK, OperationAgrees, Waits, IsConnecting, IsCalling
    <2>r. ReadersHaveProcesses'
        BY <2>2, <2>3 DEF McpInvariant, ReadersHaveProcesses
    <2>10. OwnersAreKnown'
        BY <2>1, <2>3, <2>6 DEF McpInvariant, OwnersAreKnown, Live
    <2>g. GivenUpIsUnused'
        <3>1. GivenUp' = GivenUp \cup {op.process}
            BY <2>1 DEF GivenUp
        <3>2. ~ IsConnecting'
            BY <2>1 DEF IsConnecting, Waits
        <3>3. \A name \in Names : /\ servers[name].process # op.process
                                  /\ next[name].process # op.process
            BY <1>2 DEF McpInvariant, GivenUpIsUnused, OperationAgrees, IsConnecting
        <3>4. servers' = servers /\ spawned' = spawned /\ op.process \in 1 .. spawned
            OBVIOUS
        <3>5. GivenUpIsUnused
            BY DEF McpInvariant
        <3> QED
            BY ONLY <2>6, <3>1, <3>2, <3>3, <3>4, <3>5 DEF GivenUpIsUnused
    <2> QED
        BY <2>g, <2>r, <2>7, <2>8, <2>9, <2>10 DEF McpInvariant
<1>3. CASE op.method \notin Connecting
    <2>1. /\ op' = Operating("none") /\ next' = next /\ abandoned' = abandoned
          /\ processes' = [processes EXCEPT ![op.process] = left]
        BY <1>3 DEF RequestFails
    <2>2. /\ processes' \in [Processes -> Process]
          /\ \A q \in Processes : q > spawned' => processes'[q] = UnbornProcess
          /\ \A q \in Processes : processes'[q].phase = "running" => processes[q].phase = "running"
        BY <1>1, <2>1, OneProcessChanges
    <2>3. /\ \A name \in Names : next[name].process = 0
          /\ op.process \in Live(servers)
        BY <1>3, Numbers, <1>1 DEF McpInvariant, OperationAgrees, IsCalling, Live
    <2>4. McpTypeOK'
        BY <1>1, <2>1, <2>2 DEF McpTypeOK
    <2>5. Listing(servers)' /\ Listing(next)'
        BY <2>1 DEF McpInvariant, Listing
    <2>6. OperationAgrees'
        BY <1>1, <2>1, <2>3 DEF McpTypeOK, OperationAgrees, Waits, IsConnecting, IsCalling
    <2>r. ReadersHaveProcesses'
        BY <1>1, <2>1, OneProcessChanges DEF McpInvariant, ReadersHaveProcesses
    <2>7. OwnersAreKnown'
        BY <2>1, <2>2, <2>3 DEF McpInvariant, OwnersAreKnown, Live
    <2>g. GivenUpIsUnused'
        BY <2>1 DEF McpInvariant, GivenUpIsUnused, GivenUp, IsConnecting, Waits
    <2> QED
        BY <2>g, <2>r, <2>4, <2>5, <2>6, <2>7 DEF McpInvariant
<1> QED
    BY <1>2, <1>3

\* Connecting goes on to another request of the same process.
LEMMA NextRequestKeepsInvariant ==
    ASSUME McpInvariant, IsConnecting, NEW method \in Connecting,
           NEW found \in SUBSET {"tools", "resources"},
           NEW l \in Process, l.phase = Peer.phase, l.reading = Peer.reading,
           processes' = [processes EXCEPT ![op.process] = l],
           op' = Requesting(op.server, op.process, method, found),
           UNCHANGED <<next, abandoned, frameOfRequest>>
    PROVE  McpInvariant'
<1>w. Waits
    BY DEF IsConnecting
<1> USE <1>w, PeerTypes, FrameOfRequest, OperationRecords
<1>1. McpTypeOK /\ next' = next /\ abandoned' = abandoned /\ op.method \in Connecting
    BY DEF McpInvariant, IsConnecting
<1>2. /\ processes' \in [Processes -> Process]
      /\ \A q \in Processes : q > spawned' => processes'[q] = UnbornProcess
      /\ \A q \in Processes : processes'[q].phase = processes[q].phase
    BY <1>1, OneProcessChanges
<1>r. ReadersHaveProcesses'
    BY <1>1, OneProcessChanges DEF McpInvariant, ReadersHaveProcesses
<1>3. /\ op' \in Operation /\ op'.state = "send" /\ op'.method = method
      /\ op'.process = op.process /\ op'.server = op.server
    <2>1. method \in Methods
        BY DEF Methods
    <2> QED
        BY <2>1
<1>4. McpTypeOK'
    BY <1>1, <1>2, <1>3 DEF McpTypeOK
<1>5. Listing(servers)' /\ Listing(next)'
    BY <1>1 DEF McpInvariant, Listing
<1>6. OperationAgrees'
    BY <1>1, <1>3 DEF McpInvariant, OperationAgrees, Waits, IsConnecting, IsCalling
<1>7. OwnersAreKnown'
    BY <1>1, <1>2, <1>3 DEF McpInvariant, OwnersAreKnown, Live, Waits
<1>g. GivenUpIsUnused'
    BY <1>1, <1>3 DEF McpInvariant, GivenUpIsUnused, GivenUp
<1> QED
    BY <1>g, <1>r, <1>4, <1>5, <1>6, <1>7 DEF McpInvariant

\* Connecting goes on, to its next request or to a connected server.
LEMMA GoesOnKeepsInvariant ==
    ASSUME McpInvariant, IsConnecting, NEW offered \in SUBSET {"tools", "resources"},
           NEW l \in Process, l.phase = Peer.phase, l.reading = Peer.reading,
           processes' = [processes EXCEPT ![op.process] = l],
           GoesOn(offered), UNCHANGED <<abandoned, frameOfRequest>>
    PROVE  McpInvariant'
<1>w. Waits
    BY DEF IsConnecting
<1> USE <1>w, PeerTypes, FrameOfRequest, OperationRecords
<1>1. McpTypeOK /\ abandoned' = abandoned /\ op.method \in Connecting
    BY DEF McpInvariant, IsConnecting
<1>2. /\ processes' \in [Processes -> Process]
      /\ \A q \in Processes : q > spawned' => processes'[q] = UnbornProcess
      /\ \A q \in Processes : processes'[q].phase = processes[q].phase
    BY <1>1, OneProcessChanges
<1>r. ReadersHaveProcesses'
    BY <1>1, OneProcessChanges DEF McpInvariant, ReadersHaveProcesses
<1>3. /\ op.server \notin todo /\ next[op.server].process = 0
      /\ \A name \in todo : next[name].process = 0
      /\ \A name \in Names : next[name].process # op.process
    BY DEF McpInvariant, OperationAgrees, IsConnecting
<1>4. CASE /\ op' = Operating("reload") /\ Listed(op.server, Connected(offered))
    <2>1. /\ Connected(offered) \in ServerState
          /\ Connected(offered).process = op.process /\ Connected(offered).status = "Connected"
        <3>1. ("tools" \in offered) \in BOOLEAN /\ ("resources" \in offered) \in BOOLEAN
            OBVIOUS
        <3> QED
            BY <3>1 DEF Connected, ServerState
    <2>2. /\ next \in [Names -> ServerState]
          /\ next' = [next EXCEPT ![op.server] = Connected(offered)]
        BY <1>1, <1>4 DEF McpTypeOK, Listed
    <2>3. /\ next' \in [Names -> ServerState]
          /\ next'[op.server] = Connected(offered)
          /\ \A name \in Names \ {op.server} : next'[name] = next[name]
        BY <2>1, <2>2
    <2>4. McpTypeOK'
        BY <1>1, <1>2, <1>4, <2>3 DEF McpTypeOK
    <2>5. Listing(servers)' /\ Listing(next)'
        <3>1. op.process # 0 /\ op.process \in 0 .. spawned
            BY <1>1, Numbers
        <3>2. ASSUME NEW name \in Names
              PROVE  /\ (next'[name].process # 0) <=> (next'[name].status = "Connected")
                     /\ next'[name].process \in 0 .. spawned'
            BY <2>1, <2>3, <3>1 DEF McpInvariant, Listing
        <3>3. ASSUME NEW name \in Names, NEW other \in Names,
                     next'[name].process = next'[other].process
              PROVE  name = other \/ next'[name].process = 0
            BY <1>3, <2>1, <2>3, <3>3 DEF McpInvariant, Listing
        <3>4. Listing(next)'
            BY <3>2, <3>3 DEF Listing
        <3> QED
            BY <3>4 DEF McpInvariant, Listing
    <2>6. OperationAgrees'
        BY <1>1, <1>3, <1>4, <2>3 DEF McpTypeOK, OperationAgrees, Waits, IsConnecting, IsCalling
    <2>7. OwnersAreKnown'
        <3>1. Live(next) \cup {op.process} \subseteq Live(next)'
            <4>1. op.process # 0
                BY <1>1, Numbers
            <4> QED
                BY <1>3, <2>1, <2>3, <4>1 DEF Live
        <3>2. op'.state # "none" /\ Live(servers)' = Live(servers)
            BY <1>4 DEF Live
        <3> QED
            BY <1>1, <1>2, <3>1, <3>2 DEF McpInvariant, OwnersAreKnown
    <2>g. GivenUpIsUnused'
        <3>1. GivenUp' = GivenUp /\ ~ IsConnecting'
            BY <1>1, <1>4 DEF GivenUp, IsConnecting, Waits
        <3>2. /\ op.process \notin GivenUp
              /\ \A name \in Names : servers[name].process # op.process
            BY DEF McpInvariant, GivenUpIsUnused
        <3>3. \A name \in Names :
                next'[name].process = op.process \/ next'[name].process = next[name].process
            BY <2>1, <2>3
        <3> QED
            BY <3>1, <3>2, <3>3 DEF McpInvariant, GivenUpIsUnused
    <2> QED
        BY <2>g, <1>r, <2>4, <2>5, <2>6, <2>7 DEF McpInvariant
<1>5. CASE /\ next' = next
           /\ \E method \in Wanted(offered) :
                op' = Requesting(op.server, op.process, method, offered)
    <2>1. Wanted(offered) \subseteq Connecting
        BY DEF Wanted, Connecting
    <2>2. PICK method \in Wanted(offered) :
            op' = Requesting(op.server, op.process, method, offered)
        BY <1>5
    <2>3. method \in Connecting
        BY <2>1
    <2>4. UNCHANGED <<next, abandoned, frameOfRequest>>
        BY <1>5
    <2> QED
        BY <2>2, <2>3, <2>4, NextRequestKeepsInvariant
<1> QED
    BY <1>4, <1>5 DEF GoesOn

LEMMA AnsweredKeepsInvariant ==
    ASSUME McpInvariant, Answered
    PROVE  McpInvariant'
<1>1. Waits /\ UNCHANGED frameOfRequest /\ Channel # <<>>
    BY DEF Answered, Waits
<1>r. Peer.reading => Peer.phase = "running"
    BY <1>1, PeerTypes DEF McpInvariant, ReadersHaveProcesses
<1>2. Rest \in Process /\ Rest.phase = Peer.phase /\ Rest.reading = Peer.reading
    <2>1. Peer \in Process
        BY <1>1, PeerTypes
    <2>2. Tail(Peer.channel) \in Seq(Nat)
        BY <1>1, <2>1 DEF Channel, Process
    <2> QED
        BY <2>1, <2>2 DEF Rest, Process
<1>3. CASE RequestFails(Rest)
    BY <1>1, <1>2, <1>3, <1>r, RequestFailsKeepsInvariant
<1>4. CASE /\ op.method = "initialize" /\ Received /\ UNCHANGED <<next, abandoned>>
           /\ \E offered \in SUBSET {"tools", "resources"} :
                op' = Requesting(op.server, op.process, "initialized", offered)
    BY <1>1, <1>2, <1>4, NextRequestKeepsInvariant DEF Received, IsConnecting, Connecting
<1>5. CASE op.method \in {"tools", "resources"} /\ GoesOn(op.found) /\ Received /\ UNCHANGED abandoned
    BY <1>1, <1>2, <1>5, PeerTypes, GoesOnKeepsInvariant DEF Received, IsConnecting, Connecting
<1> QED
    BY <1>3, <1>4, <1>5 DEF Answered

LEMMA InitializedKeepsInvariant ==
    ASSUME McpInvariant, InitializedWritten
    PROVE  McpInvariant'
<1>1. IsConnecting /\ Waits /\ UNCHANGED <<abandoned, frameOfRequest>> /\ GoesOn(op.found)
    BY DEF InitializedWritten, IsConnecting, Waits, Connecting
<1>2. Peer \in Process /\ op.found \in SUBSET {"tools", "resources"}
    BY <1>1, PeerTypes
<1>3. processes' = [processes EXCEPT ![op.process] = Peer]
    BY <1>1, PeerTypes DEF InitializedWritten, McpInvariant, McpTypeOK
<1> QED
    BY <1>1, <1>2, <1>3, GoesOnKeepsInvariant


LEMMA RequestKeepsInvariant ==
    ASSUME McpInvariant,
           \/ RequestNotWritten \/ RequestWritten \/ OtherMessageSkipped
           \/ Timeout \/ Disconnected
    PROVE  McpInvariant'
<1>1. Waits /\ UNCHANGED frameOfRequest
    BY DEF RequestNotWritten, RequestWritten, OtherMessageSkipped, Timeout, Disconnected, Waits
<1>2. /\ Peer \in Process /\ Peer = processes[op.process] /\ op.process \in Processes
      /\ processes \in [Processes -> Process]
    BY <1>1, PeerTypes DEF McpInvariant, McpTypeOK
<1>r. Peer.reading => Peer.phase = "running"
    BY <1>1, PeerTypes DEF McpInvariant, ReadersHaveProcesses
<1>3. CASE RequestNotWritten
    <2> DEFINE l == IF op.method = "initialized" THEN Peer
                    ELSE [Peer EXCEPT !.nextId = Peer.nextId + 1]
    <2>1. l \in Process /\ l.phase = Peer.phase /\ l.reading = Peer.reading
        <3>1. Peer.nextId + 1 \in Nat
            BY <1>2 DEF Process
        <3> QED
            BY <1>2, <3>1 DEF Process
    <2>2. RequestFails(l)
        BY <1>3 DEF RequestNotWritten
    <2> QED
        BY <1>1, <1>r, <2>1, <2>2, RequestFailsKeepsInvariant
<1>4. CASE RequestWritten
    <2> DEFINE l == [Peer EXCEPT !.nextId = Peer.nextId + 1,
                                 !.unread = Peer.unread \cup {Peer.nextId}]
    <2>1. l \in Process /\ l.phase = Peer.phase /\ l.reading = Peer.reading
        <3>1. Peer.nextId + 1 \in Nat /\ Peer.unread \cup {Peer.nextId} \in SUBSET Nat
            BY <1>2 DEF Process
        <3> QED
            BY <1>2, <3>1 DEF Process
    <2>2. processes' = [processes EXCEPT ![op.process] = l]
        BY <1>2, <1>4 DEF RequestWritten, Process
    <2>3. op' = [op EXCEPT !.state = "wait"] /\ UNCHANGED <<next, abandoned>>
        BY <1>4 DEF RequestWritten
    <2> QED
        BY <1>1, <2>1, <2>2, <2>3, WaitingKeepsInvariant
<1>5. CASE OtherMessageSkipped
    <2>1. Rest \in Process /\ Rest.phase = Peer.phase /\ Rest.reading = Peer.reading
        <3>1. Tail(Peer.channel) \in Seq(Nat)
            BY <1>2, <1>5 DEF OtherMessageSkipped, Channel, Process
        <3> QED
            BY <1>2, <3>1 DEF Rest, Process
    <2> QED
        BY <1>1, <1>5, <2>1, WaitingKeepsInvariant DEF OtherMessageSkipped, Received
<1>6. CASE Timeout
    <2>1. Peer.phase = "running" /\ (RequestFails(Peer) \/ RequestFails(Exited(Peer)))
        BY <1>2, <1>6, <1>r DEF Timeout
    <2> QED
        BY <1>1, <1>2, <1>r, <2>1, ExitedProcess, RequestFailsKeepsInvariant
<1>7. CASE Disconnected
    BY <1>1, <1>2, <1>7, <1>r, RequestFailsKeepsInvariant DEF Disconnected
<1> QED
    BY <1>3, <1>4, <1>5, <1>6, <1>7

--------------------------------------------------------------------------------

LEMMA McpInvariantStep == McpInvariant /\ [McpNext]_mcpVars => McpInvariant'
<1> SUFFICES ASSUME McpInvariant, [McpNext]_mcpVars PROVE McpInvariant'
    OBVIOUS
<1>1. CASE SetPluginServers \/ ReloadCommand
    BY <1>1, BeginReloadKeepsInvariant
<1>2. CASE BeginCall
    BY <1>2, BeginCallKeepsInvariant
<1>3. CASE \E name \in Names : ServerNotStarted(name) \/ ServerStarted(name)
    BY <1>3, ServerNotStartedKeepsInvariant, ServerStartedKeepsInvariant
<1>4. CASE ReloadEnds
    BY <1>4, ReloadEndsKeepsInvariant
<1>5. CASE Answered \/ InitializedWritten
    BY <1>5, AnsweredKeepsInvariant, InitializedKeepsInvariant
<1>6. CASE \/ RequestNotWritten \/ RequestWritten \/ OtherMessageSkipped
           \/ Timeout \/ Disconnected
    BY <1>6, RequestKeepsInvariant
<1>7. CASE \E p \in Processes :
            \/ ProcessAnswers(p) \/ ProcessNotifies(p) \/ StdinChanges(p)
            \/ ReaderFails(p) \/ ProcessExits(p)
    BY <1>7, ProcessKeepsInvariant
<1>8. CASE UNCHANGED mcpVars
    <2>1. /\ merged' = merged /\ servers' = servers /\ next' = next /\ todo' = todo /\ op' = op
          /\ processes' = processes /\ abandoned' = abandoned /\ unkilled' = unkilled
          /\ spawned' = spawned /\ calls' = calls /\ reloads' = reloads
        BY <1>8 DEF mcpVars, counters, history
    <2>2. McpTypeOK'
        BY <2>1 DEF McpInvariant, McpTypeOK
    <2>3. Listing(servers)' /\ Listing(next)' /\ ReadersHaveProcesses'
        BY <2>1 DEF McpInvariant, Listing, ReadersHaveProcesses
    <2>4. OperationAgrees' /\ OwnersAreKnown' /\ GivenUpIsUnused'
        BY <2>1 DEF McpInvariant, OperationAgrees, Waits, IsConnecting, IsCalling,
                    OwnersAreKnown, Live, GivenUpIsUnused, GivenUp
    <2> QED
        BY <2>2, <2>3, <2>4 DEF McpInvariant
<1> QED
    BY <1>1, <1>2, <1>3, <1>4, <1>5, <1>6, <1>7, <1>8 DEF McpNext, ManagerStep

(***************************************************************************)
(* Theorems.                                                               *)
(***************************************************************************)

\* The inductive invariant of the manager holds throughout.
THEOREM McpInvariantHolds == McpSpec => []McpInvariant
    BY McpInvariantInit, McpInvariantStep, PTL DEF McpSpec

\* The manager's variables keep their types, and a server has a process exactly when it is
\* connected.
THEOREM McpTypes == McpSpec => []McpTypeOK
<1>1. McpInvariant => McpTypeOK
    BY DEF McpInvariant
<1> QED
    BY <1>1, McpInvariantHolds, PTL

\* reload and connect_server: whatever the servers answer and whenever they exit, a
\* child process that runs belongs to a server of the current list or of the one a reload is
\* building, is being connected, was dropped half way, or outlived a reload that could not kill it;
\* no two servers share one, and none is left with a process that was given up.
THEOREM NoProcessIsLeftBehind == McpSpec => []RunningProcessesAreOwned
<1>1. ASSUME McpInvariant PROVE RunningProcessesAreOwned
    <2>1. Listing(servers) /\ OwnersAreKnown
        BY <1>1 DEF McpInvariant
    <2>2. Live(servers) \cap (abandoned \cup unkilled) = {}
        BY <1>1 DEF McpInvariant, GivenUpIsUnused, GivenUp, Live
    <2> QED
        BY <2>1, <2>2 DEF RunningProcessesAreOwned, OwnersAreKnown, Listing
<1> QED
    BY <1>1, McpInvariantHolds, PTL
=============================================================================
