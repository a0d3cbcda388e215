------------------------------- MODULE Repl_proofs -------------------------------
(***************************************************************************)
(* Proofs about Repl, for any sessions, requests and number of submits,    *)
(* messages and losses: its state is of its type, the terminal never       *)
(* refuses input for good, and it shows the session of the worker once it  *)
(* has handled its reports.                                                *)
(***************************************************************************)
EXTENDS Repl, Selection_proofs

(***************************************************************************)
(* The inductive invariant.                                                *)
(***************************************************************************)

Working == worker \in {"local", "remote"}
InQueue(kind) == \E i \in 1 .. Len(queue) : queue[i].kind = kind
FinishAfter(i) == \E j \in 1 .. Len(reports) : j > i /\ reports[j].kind = "finished"

ReplTypes ==
    /\ queue \in Seq(Commands) /\ reports \in Seq(Reports)
    /\ request \in AllRequests /\ session \in Sessions
    /\ turn # "idle" => Working

\* A turn of the client that was reported to begin runs, or its end was reported as well.
EveryStartEnds ==
    \A i \in 1 .. Len(reports) : reports[i].kind = "started" => Working \/ FinishAfter(i)

BusyEnds ==
    busy => Working \/ worker = "returned" \/ InQueue("local") \/ FinishAfter(0)

\* The last report that will be handled brings the session of the worker.
LastReportIsCurrent ==
    /\ \A i \in 1 .. Len(reports) :
        reports[i].kind = "finished" => reports[i].session = session \/ FinishAfter(i)
    /\ view = session \/ FinishAfter(0)

\* Only a UI that has gone asks the worker to return.
OnlyTheUiLeaves == leaving \/ worker = "returned" \/ InQueue("shutdown") => ui # "reading"

ReplInvariant ==
    ReplTypes /\ EveryStartEnds /\ BusyEnds /\ LastReportIsCurrent /\ OnlyTheUiLeaves

--------------------------------------------------------------------------------
(***************************************************************************)
(* The channels.                                                           *)
(***************************************************************************)

LEMMA Appending ==
    ASSUME NEW S, NEW s \in Seq(S), NEW e \in S
    PROVE  /\ Append(s, e) \in Seq(S)
           /\ \A i \in 1 .. Len(s) : i \in 1 .. Len(Append(s, e)) /\ Append(s, e)[i] = s[i]
           /\ Len(s) + 1 \in 1 .. Len(Append(s, e)) /\ Append(s, e)[Len(s) + 1] = e
           /\ \A i \in 1 .. Len(Append(s, e)) : i \in 1 .. Len(s) \/ i = Len(s) + 1
<1>1. Len(s) \in Nat
    BY LenProperties
<1>2. /\ Append(s, e) \in Seq(S) /\ Len(Append(s, e)) = Len(s) + 1
      /\ \A i \in 1 .. Len(s) : Append(s, e)[i] = s[i]
      /\ Append(s, e)[Len(s) + 1] = e
    BY AppendProperties
<1> QED
    BY <1>1, <1>2

LEMMA TakingHead ==
    ASSUME NEW S, NEW s \in Seq(S), s # <<>>
    PROVE  /\ Tail(s) \in Seq(S) /\ Head(s) \in S
           /\ 1 \in 1 .. Len(s) /\ Head(s) = s[1]
           /\ \A i \in 1 .. Len(Tail(s)) : i + 1 \in 1 .. Len(s) /\ Tail(s)[i] = s[i + 1]
           /\ \A i \in 1 .. Len(s) :
                \/ i = 1
                \/ i - 1 \in 1 .. Len(Tail(s)) /\ Tail(s)[i - 1] = s[i]
<1>1. /\ Tail(s) \in Seq(S) /\ Head(s) \in S /\ Len(Tail(s)) = Len(s) - 1
      /\ \A i \in 1 .. Len(Tail(s)) : Tail(s)[i] = s[i + 1]
    BY HeadTailProperties
<1>2. Len(s) \in Nat \ {0}
    BY LenProperties, EmptySeq
<1>3. Head(s) = s[1]
    OBVIOUS
<1>4. ASSUME NEW i \in 1 .. Len(s), i # 1
      PROVE  i - 1 \in 1 .. Len(Tail(s)) /\ Tail(s)[i - 1] = s[i]
    <2>1. i - 1 \in 1 .. Len(Tail(s)) /\ (i - 1) + 1 = i
        BY <1>1, <1>2, <1>4
    <2> QED
        BY <1>1, <2>1
<1> QED
    BY <1>1, <1>2, <1>3, <1>4

\* A command behind the head of the channel stays in it, and none is added.
LEMMA QueueTaken ==
    ASSUME ReplTypes, NEW kind, Take(kind)
    PROVE  /\ queue' \in Seq(Commands) /\ Head(queue) \in Commands /\ Head(queue).kind = kind
           /\ InQueue(kind)
           /\ \A other : other # kind => (InQueue(other)' <=> InQueue(other))
           /\ \A other : InQueue(other)' => InQueue(other)
           /\ ui' = ui /\ busy' = busy /\ view' = view /\ session' = session
<1>1. /\ queue \in Seq(Commands) /\ queue # <<>> /\ Head(queue).kind = kind /\ queue' = Tail(queue)
      /\ ui' = ui /\ busy' = busy /\ view' = view /\ session' = session
    BY DEF ReplTypes, Take, uiVars
<1>2. /\ Tail(queue) \in Seq(Commands) /\ Head(queue) \in Commands
      /\ 1 \in 1 .. Len(queue) /\ Head(queue) = queue[1]
      /\ \A i \in 1 .. Len(queue') : i + 1 \in 1 .. Len(queue) /\ queue'[i] = queue[i + 1]
      /\ \A i \in 1 .. Len(queue) :
            \/ i = 1
            \/ i - 1 \in 1 .. Len(queue') /\ queue'[i - 1] = queue[i]
    BY <1>1, TakingHead
<1>3. InQueue(kind)
    BY <1>1, <1>2 DEF InQueue
<1>4. ASSUME NEW other, \E i \in 1 .. Len(queue') : queue'[i].kind = other
      PROVE  InQueue(other)
    BY <1>2, <1>4 DEF InQueue
<1>5. ASSUME NEW other, other # kind, InQueue(other)
      PROVE  \E i \in 1 .. Len(queue') : queue'[i].kind = other
    BY <1>1, <1>2, <1>5 DEF InQueue
<1> QED
    BY <1>1, <1>2, <1>3, <1>4, <1>5 DEF InQueue

LEMMA QueueAppended ==
    ASSUME ReplTypes, NEW command \in Commands, queue' = Append(queue, command)
    PROVE  /\ queue' \in Seq(Commands)
           /\ \A kind : InQueue(kind)' <=> InQueue(kind) \/ command.kind = kind
<1>1. /\ queue' \in Seq(Commands)
      /\ \A i \in 1 .. Len(queue) : i \in 1 .. Len(queue') /\ queue'[i] = queue[i]
      /\ Len(queue) + 1 \in 1 .. Len(queue') /\ queue'[Len(queue) + 1] = command
      /\ \A i \in 1 .. Len(queue') : i \in 1 .. Len(queue) \/ i = Len(queue) + 1
    BY Appending DEF ReplTypes
<1>2. ASSUME NEW kind
      PROVE  (\E i \in 1 .. Len(queue') : queue'[i].kind = kind)
             <=> InQueue(kind) \/ command.kind = kind
    BY <1>1 DEF InQueue
<1> QED
    BY <1>1, <1>2 DEF InQueue

\* The end of a turn is reported, with the session the worker has then.
LEMMA FinishReported ==
    ASSUME ReplInvariant, NEW effect \in AllRequests \cup {"none"}, session' \in Sessions,
           reports' = Append(reports, Finished(effect, session')), view' = view
    PROVE  /\ reports' \in Seq(Reports) /\ FinishAfter(0)'
           /\ EveryStartEnds' /\ LastReportIsCurrent'
<1> DEFINE e == Finished(effect, session')
           n == Len(reports) + 1
<1>1. e \in Reports /\ e.kind = "finished" /\ e.session = session'
    BY DEF Finished, Reports
<1> HIDE DEF e
<1>2. /\ reports' \in Seq(Reports)
      /\ \A i \in 1 .. Len(reports) : i \in 1 .. Len(reports') /\ reports'[i] = reports[i]
      /\ n \in 1 .. Len(reports') /\ reports'[n] = e
      /\ \A i \in 1 .. Len(reports') : i \in 1 .. Len(reports) \/ i = n
    BY <1>1, Appending DEF ReplInvariant, ReplTypes, e
<1>3. Len(reports) \in Nat
    BY LenProperties DEF ReplInvariant, ReplTypes
<1>4. ASSUME NEW i \in 0 .. Len(reports)
      PROVE  \E j \in 1 .. Len(reports') : j > i /\ reports'[j].kind = "finished"
    BY <1>1, <1>2, <1>3
<1>5. EveryStartEnds'
    BY <1>1, <1>2, <1>4 DEF EveryStartEnds, FinishAfter
<1>6. LastReportIsCurrent'
    BY <1>1, <1>2, <1>3, <1>4 DEF LastReportIsCurrent, FinishAfter
<1> QED
    BY <1>2, <1>3, <1>4, <1>5, <1>6 DEF FinishAfter


--------------------------------------------------------------------------------
(***************************************************************************)
(* The invariant is preserved.                                             *)
(***************************************************************************)

LEMMA ReplInvariantInit == ReplInit => ReplInvariant
<1> SUFFICES ASSUME ReplInit PROVE ReplInvariant
    OBVIOUS
<1>1. /\ queue = <<>> /\ reports = <<>> /\ request = "prompt" /\ session = Home /\ turn = "idle"
      /\ ~ busy /\ view = Home /\ ~ leaving /\ worker = "idle"
    BY DEF ReplInit, TurnInit
<1>2. ReplTypes
    BY <1>1, EmptySeq, ReplAssumption DEF ReplTypes, AllRequests
<1>3. EveryStartEnds /\ BusyEnds /\ LastReportIsCurrent
    BY <1>1 DEF EveryStartEnds, BusyEnds, LastReportIsCurrent
<1>4. OnlyTheUiLeaves
    BY <1>1 DEF OnlyTheUiLeaves, InQueue
<1> QED
    BY <1>2, <1>3, <1>4 DEF ReplInvariant

\* A step without reports that leaves the worker at its request and what the UI shows as it is.
LEMMA QuietStep ==
    ASSUME ReplInvariant,
           reports' = reports, session' = session, busy' = busy, view' = view,
           worker' = worker, request' = request,
           ui' = "reading" => ui = "reading", leaving' => leaving \/ InQueue("shutdown"),
           turn' # "idle" => Working,
           queue' \in Seq(Commands),
           InQueue("local") => InQueue("local")' \/ Working,
           InQueue("shutdown")' => InQueue("shutdown")
    PROVE  ReplInvariant'
<1>1. Working' <=> Working
    BY DEF Working
<1>2. \A i : FinishAfter(i)' <=> FinishAfter(i)
    BY DEF FinishAfter
<1>3. ReplTypes'
    BY <1>1 DEF ReplInvariant, ReplTypes
<1>4. EveryStartEnds'
    BY <1>1, <1>2 DEF ReplInvariant, EveryStartEnds
<1>5. BusyEnds'
    BY <1>1, <1>2 DEF ReplInvariant, BusyEnds
<1>6. LastReportIsCurrent'
    BY <1>2 DEF ReplInvariant, LastReportIsCurrent
<1>7. OnlyTheUiLeaves'
    BY DEF ReplInvariant, OnlyTheUiLeaves
<1> QED
    BY <1>3, <1>4, <1>5, <1>6, <1>7 DEF ReplInvariant

LEMMA QueueUnchanged ==
    ASSUME queue' = queue PROVE \A kind : InQueue(kind)' <=> InQueue(kind)
    BY DEF InQueue

LEMMA CommandsOfTheClient ==
    /\ ClientMessages \subseteq Commands /\ TransportIsClosed \in Commands
    /\ ShutdownRequested \in Commands /\ ShutdownRequested.kind = "shutdown"
    /\ TransportIsClosed.kind = "closed"
    /\ \A message \in ClientMessages : message.kind # "shutdown"
    /\ \A what \in LocalRequests : Local(what) \in Commands /\ Local(what).kind = "local"
<1>1. \A message \in ClientMessages : message.kind # "shutdown"
    BY ReplAssumption DEF ClientMessages, RemoteUser, Command, AllSignals
<1> QED
    BY <1>1 DEF Commands, TransportIsClosed, ShutdownRequested, Local, Command

\* What a request asks for.
LEMMA RequestOfCommand ==
    ASSUME NEW command \in Commands, command.kind \in {"local", "user"}
    PROVE  command.what \in AllRequests
<1>1. CASE \E what \in LocalRequests : command = Local(what)
    BY <1>1, ReplAssumption DEF Local, Command
<1>2. CASE \E what \in RemoteRequests : command = RemoteUser(what)
    BY <1>2, ReplAssumption DEF RemoteUser, Command
<1>3. CASE \E signal \in Signals \ {"response"} : command = Command(signal, "Ask", 0)
    BY <1>3, ReplAssumption DEF Command, AllSignals
<1>4. CASE \E behavior \in {"Allow", "Ask"},
              id \in IF "response" \in Signals THEN RequestIds ELSE {} :
                command = Command("response", behavior, id)
    BY <1>4 DEF Command
<1>5. CASE command \in {TransportIsClosed, ShutdownRequested}
    BY <1>5 DEF TransportIsClosed, ShutdownRequested, Command
<1>6. CASE command \in ClientMessages
    BY <1>2, <1>3, <1>4, <1>6 DEF ClientMessages
<1> QED
    BY <1>1, <1>5, <1>6 DEF Commands

\* Steps that touch neither the channel of the worker nor the reports.
LEMMA OtherThreadStepKeepsInvariant ==
    ASSUME ReplInvariant,
           \/ CtrlC \/ Joins \/ OutputForwarded \/ TransportLost \/ ReconnectsOrGivesUp
           \/ TurnStarts \/ TurnRuns \/ DriverAnswers \/ PermissionRequested \/ PermissionDecided
           \/ UNCHANGED replVars
    PROVE  ReplInvariant'
<1>1. /\ reports' = reports /\ session' = session /\ busy' = busy /\ view' = view
      /\ worker' = worker /\ request' = request /\ leaving' = leaving /\ queue' = queue
      /\ ui' = "reading" => ui = "reading"
    BY DEF CtrlC, Joins, OutputForwarded, TransportLost, ReconnectsOrGivesUp, linkFrame, uiFrame,
        TurnStarts, TurnRuns, DriverAnswers, PermissionRequested, PermissionDecided, turnFrame,
        replVars, uiVars, workerVars
<1>2. turn' # "idle" => Working
    <2>1. turn' # "idle" => turn # "idle" \/ Working
        BY DEF CtrlC, Joins, OutputForwarded, TransportLost, ReconnectsOrGivesUp, linkFrame, uiFrame,
            TurnStarts, TurnRuns, DriverAnswers, PermissionRequested, PermissionDecided, TurnIsCancelled,
            TurnBegins, TurnIsPolled, TurnAwaitsModel, ModelAnswers, TurnAsks, TurnResumes,
            replVars, turnVars, Working
    <2> QED
        BY <2>1 DEF ReplInvariant, ReplTypes
<1>3. queue' \in Seq(Commands)
    BY <1>1 DEF ReplInvariant, ReplTypes
<1> QED
    BY <1>1, <1>2, <1>3, QueueUnchanged, QuietStep

LEMMA QueueStepKeepsInvariant ==
    ASSUME ReplInvariant, ClientSends \/ HostNotified
    PROVE  ReplInvariant'
<1>1. /\ reports' = reports /\ session' = session /\ busy' = busy /\ view' = view /\ ui' = ui
      /\ worker' = worker /\ request' = request /\ leaving' = leaving /\ turn' = turn
      /\ \E command \in Commands : command.kind # "shutdown" /\ queue' = Append(queue, command)
    BY CommandsOfTheClient DEF ClientSends, HostNotified, linkFrame, turnVars, uiVars, workerVars
<1>2. queue' \in Seq(Commands) /\ (InQueue("local") => InQueue("local")')
      /\ (InQueue("shutdown")' => InQueue("shutdown"))
    BY <1>1, QueueAppended DEF ReplInvariant
<1> QED
    BY <1>1, <1>2, QuietStep DEF ReplInvariant, ReplTypes

LEMMA SubmitsKeepsInvariant ==
    ASSUME ReplInvariant, Submits
    PROVE  ReplInvariant'
<1>1. /\ reports' = reports /\ session' = session /\ view' = view /\ ui' = ui
      /\ worker' = worker /\ request' = request /\ leaving' = leaving /\ turn' = turn
      /\ \E what \in LocalRequests : queue' = Append(queue, Local(what))
    BY DEF Submits, uiFrame, turnVars, workerVars
<1>2. queue' \in Seq(Commands) /\ InQueue("local")' /\ (InQueue("shutdown")' <=> InQueue("shutdown"))
    BY <1>1, QueueAppended, CommandsOfTheClient DEF ReplInvariant
<1>3. \A i : FinishAfter(i)' <=> FinishAfter(i)
    BY <1>1 DEF FinishAfter
<1>4. ReplTypes' /\ EveryStartEnds' /\ LastReportIsCurrent'
    BY <1>1, <1>2, <1>3 DEF ReplInvariant, ReplTypes, EveryStartEnds, LastReportIsCurrent, Working
<1>5. BusyEnds'
    BY <1>2 DEF BusyEnds
<1>6. OnlyTheUiLeaves'
    BY <1>1, <1>2 DEF ReplInvariant, OnlyTheUiLeaves
<1> QED
    BY <1>4, <1>5, <1>6 DEF ReplInvariant

LEMMA LeavesKeepsInvariant ==
    ASSUME ReplInvariant, Leaves
    PROVE  ReplInvariant'
<1>1. /\ reports' = reports /\ session' = session /\ view' = view /\ ui' = "joining"
      /\ worker' = worker /\ request' = request /\ leaving' = leaving /\ turn' = turn
      /\ busy' = busy /\ queue' = Append(queue, ShutdownRequested)
    BY DEF Leaves, uiFrame, turnVars, workerVars
<1>2. queue' \in Seq(Commands) /\ (InQueue("local") => InQueue("local")')
    BY <1>1, QueueAppended, CommandsOfTheClient DEF ReplInvariant
<1>3. \A i : FinishAfter(i)' <=> FinishAfter(i)
    BY <1>1 DEF FinishAfter
<1>4. ReplTypes' /\ EveryStartEnds' /\ LastReportIsCurrent' /\ BusyEnds'
    BY <1>1, <1>2, <1>3
    DEF ReplInvariant, ReplTypes, EveryStartEnds, LastReportIsCurrent, BusyEnds, Working
<1>5. OnlyTheUiLeaves'
    BY <1>1 DEF OnlyTheUiLeaves
<1> QED
    BY <1>4, <1>5 DEF ReplInvariant

\* The UI handles a report: what is behind it stays.
LEMMA ReportHandled ==
    ASSUME ReplInvariant, NEW kind, ReportTaken(kind)
    PROVE  /\ reports' \in Seq(Reports) /\ Head(reports) \in Reports /\ Head(reports).kind = kind
           /\ 1 \in 1 .. Len(reports) /\ reports[1] = Head(reports)
           /\ \A i \in 1 .. Len(reports') :
                /\ i + 1 \in 1 .. Len(reports) /\ reports'[i] = reports[i + 1]
                /\ FinishAfter(i + 1) => FinishAfter(i)'
           /\ FinishAfter(1) => FinishAfter(0)'
           /\ kind # "finished" => (FinishAfter(0) => FinishAfter(0)')
           /\ ui = "reading" /\ ui' = ui /\ turn' = turn /\ session' = session
           /\ worker' = worker /\ request' = request /\ leaving' = leaving
<1>1. /\ reports \in Seq(Reports) /\ reports # <<>> /\ reports' = Tail(reports)
      /\ Head(reports).kind = kind
      /\ ui = "reading" /\ ui' = ui /\ turn' = turn /\ session' = session
      /\ worker' = worker /\ request' = request /\ leaving' = leaving
    BY DEF ReplInvariant, ReplTypes, ReportTaken, turnVars, uiFrame, workerVars
<1>2. /\ reports' \in Seq(Reports) /\ Head(reports) \in Reports
      /\ 1 \in 1 .. Len(reports) /\ Head(reports) = reports[1]
      /\ \A i \in 1 .. Len(reports') : i + 1 \in 1 .. Len(reports) /\ reports'[i] = reports[i + 1]
      /\ \A i \in 1 .. Len(reports) :
            \/ i = 1
            \/ i - 1 \in 1 .. Len(reports') /\ reports'[i - 1] = reports[i]
    BY <1>1, TakingHead
<1>3. ASSUME NEW i \in Nat, FinishAfter(i + 1)
      PROVE  \E j \in 1 .. Len(reports') : j > i /\ reports'[j].kind = "finished"
    <2>1. PICK j \in 1 .. Len(reports) : j > i + 1 /\ reports[j].kind = "finished"
        BY <1>3 DEF FinishAfter
    <2>2. j # 1 /\ j - 1 > i
        BY <2>1
    <2> QED
        BY <1>2, <2>1, <2>2
<1>4. ASSUME kind # "finished", FinishAfter(0)
      PROVE  \E j \in 1 .. Len(reports') : j > 0 /\ reports'[j].kind = "finished"
    <2>1. PICK j \in 1 .. Len(reports) : reports[j].kind = "finished"
        BY <1>4 DEF FinishAfter
    <2>2. j # 1
        BY <1>1, <1>2, <1>4, <2>1
    <2>3. j - 1 \in 1 .. Len(reports') /\ reports'[j - 1] = reports[j] /\ j - 1 > 0
        BY <1>2, <2>2
    <2> QED
        BY <2>1, <2>3
<1>5. FinishAfter(1) => FinishAfter(0)'
    <2>1. FinishAfter(0 + 1) => \E j \in 1 .. Len(reports') : j > 0 /\ reports'[j].kind = "finished"
        BY <1>3
    <2> QED
        BY <2>1 DEF FinishAfter
<1>6. \A i \in 1 .. Len(reports') : FinishAfter(i + 1) => FinishAfter(i)'
    BY <1>3 DEF FinishAfter
<1> QED
    BY <1>1, <1>2, <1>4, <1>5, <1>6 DEF FinishAfter

\* What is left of the reports after one was handled.
LEMMA RemainingReports ==
    ASSUME ReplInvariant, NEW kind, ReportTaken(kind)
    PROVE  /\ EveryStartEnds'
           /\ \A i \in 1 .. Len(reports') : reports'[i].kind = "finished" =>
                reports'[i].session = session' \/ FinishAfter(i)'
<1>1. ASSUME NEW i \in 1 .. Len(reports'), reports'[i].kind = "started"
      PROVE  Working' \/ FinishAfter(i)'
    <2>1. i + 1 \in 1 .. Len(reports) /\ reports[i + 1].kind = "started"
        BY <1>1, ReportHandled
    <2>2. Working \/ FinishAfter(i + 1)
        BY <2>1 DEF ReplInvariant, EveryStartEnds
    <2> QED
        BY <2>2, ReportHandled DEF Working
<1>2. ASSUME NEW i \in 1 .. Len(reports'), reports'[i].kind = "finished"
      PROVE  reports'[i].session = session' \/ FinishAfter(i)'
    <2>1. i + 1 \in 1 .. Len(reports) /\ reports[i + 1] = reports'[i]
        BY ReportHandled
    <2>2. reports[i + 1].session = session \/ FinishAfter(i + 1)
        BY <1>2, <2>1 DEF ReplInvariant, LastReportIsCurrent
    <2> QED
        BY <2>1, <2>2, ReportHandled
<1> QED
    BY <1>1, <1>2 DEF EveryStartEnds


LEMMA ReportShownKeepsInvariant ==
    ASSUME ReplInvariant, TurnStartShown \/ TurnEndShown
    PROVE  ReplInvariant'
<1>1. PICK kind \in {"started", "finished"} : ReportTaken(kind)
    BY DEF TurnStartShown, TurnEndShown
<1>2. CASE TurnStartShown
    <2>1. ReportTaken("started") /\ view' = view /\ queue' = queue
        BY <1>2 DEF TurnStartShown
    <2>2. /\ reports' \in Seq(Reports) /\ 1 \in 1 .. Len(reports) /\ reports[1].kind = "started"
          /\ FinishAfter(1) => FinishAfter(0)'
          /\ FinishAfter(0) => FinishAfter(0)'
          /\ ui' = ui /\ turn' = turn /\ session' = session
          /\ worker' = worker /\ request' = request /\ leaving' = leaving
        BY <2>1, ReportHandled
    <2>3. BusyEnds'
        BY <2>2 DEF ReplInvariant, EveryStartEnds, BusyEnds, Working
    <2>4. EveryStartEnds' /\ LastReportIsCurrent'
        BY <2>1, <2>2, RemainingReports DEF ReplInvariant, LastReportIsCurrent
    <2>5. ReplTypes' /\ OnlyTheUiLeaves'
        BY <2>1, <2>2, QueueUnchanged DEF ReplInvariant, ReplTypes, OnlyTheUiLeaves, Working
    <2> QED
        BY <2>3, <2>4, <2>5 DEF ReplInvariant
<1>3. CASE TurnEndShown
    <2>1. /\ ReportTaken("finished") /\ ~ busy' /\ view' = Head(reports).session
          /\ queue' = queue \/ queue' = Append(queue, TransportIsClosed)
        BY <1>3 DEF TurnEndShown, StopBridge
    <2>2. /\ reports' \in Seq(Reports) /\ Head(reports) = reports[1] /\ 1 \in 1 .. Len(reports)
          /\ reports[1].kind = "finished"
          /\ FinishAfter(1) => FinishAfter(0)'
          /\ ui' = ui /\ turn' = turn /\ session' = session
          /\ worker' = worker /\ request' = request /\ leaving' = leaving
        BY <2>1, ReportHandled
    <2>3. BusyEnds'
        BY <2>1 DEF BusyEnds
    <2>4. view' = session' \/ FinishAfter(0)'
        BY <2>1, <2>2 DEF ReplInvariant, LastReportIsCurrent
    <2>5. EveryStartEnds' /\ LastReportIsCurrent'
        BY <2>1, <2>4, RemainingReports DEF LastReportIsCurrent
    <2>6. queue' \in Seq(Commands) /\ (InQueue("shutdown")' => InQueue("shutdown"))
        <3>1. CASE queue' = queue
            BY <3>1, QueueUnchanged DEF ReplInvariant, ReplTypes
        <3>2. CASE queue' = Append(queue, TransportIsClosed)
            BY <3>2, QueueAppended, CommandsOfTheClient DEF ReplInvariant
        <3> QED
            BY <2>1, <3>1, <3>2
    <2>7. ReplTypes' /\ OnlyTheUiLeaves'
        BY <2>2, <2>6 DEF ReplInvariant, ReplTypes, OnlyTheUiLeaves, Working
    <2> QED
        BY <2>3, <2>5, <2>7 DEF ReplInvariant
<1> QED
    BY <1>2, <1>3

LEMMA RequestTakenKeepsInvariant ==
    ASSUME ReplInvariant, RequestTaken
    PROVE  ReplInvariant'
<1>1. PICK kind \in {"local", "user"} :
        /\ Take(kind)
        /\ worker' \in {"local", "remote"}
        /\ reports' = reports \/ reports' = Append(reports, RemoteTurnStarted)
    BY DEF RequestTaken, Report
<1>2. /\ worker = "idle" /\ request' = Head(queue).what /\ turn' = turn /\ leaving' = leaving
    BY DEF RequestTaken, turnVars
<1>3. /\ queue' \in Seq(Commands) /\ Head(queue) \in Commands /\ Head(queue).kind = kind
      /\ InQueue("shutdown")' => InQueue("shutdown")
      /\ ui' = ui /\ busy' = busy /\ view' = view /\ session' = session
    BY <1>1, QueueTaken DEF ReplInvariant
<1>4. Working'
    BY <1>1 DEF Working
<1>5. EveryStartEnds' /\ BusyEnds'
    BY <1>4 DEF EveryStartEnds, BusyEnds
<1>6. CASE reports' = reports
    <2>1. reports' \in Seq(Reports) /\ LastReportIsCurrent'
        BY <1>3, <1>6 DEF ReplInvariant, ReplTypes, LastReportIsCurrent, FinishAfter
    <2>2. ReplTypes'
        BY <1>3, <1>2, <1>4, <2>1, RequestOfCommand DEF ReplInvariant, ReplTypes
    <2>3. OnlyTheUiLeaves'
        BY <1>1, <1>2, <1>3 DEF ReplInvariant, OnlyTheUiLeaves
    <2> QED
        BY <1>5, <2>1, <2>2, <2>3 DEF ReplInvariant
<1>7. CASE reports' = Append(reports, RemoteTurnStarted)
    <2>1. RemoteTurnStarted \in Reports /\ RemoteTurnStarted.kind = "started"
        BY ReplAssumption DEF RemoteTurnStarted, Reports
    <2>2. /\ reports' \in Seq(Reports)
          /\ \A i \in 1 .. Len(reports) : i \in 1 .. Len(reports') /\ reports'[i] = reports[i]
          /\ reports'[Len(reports) + 1] = RemoteTurnStarted
          /\ \A i \in 1 .. Len(reports') : i \in 1 .. Len(reports) \/ i = Len(reports) + 1
        BY <1>7, <2>1, Appending DEF ReplInvariant, ReplTypes
    <2>3. \A i : FinishAfter(i) => FinishAfter(i)'
        BY <2>2 DEF FinishAfter
    <2>4. LastReportIsCurrent'
        BY <1>3, <2>1, <2>2, <2>3 DEF ReplInvariant, LastReportIsCurrent
    <2>5. ReplTypes'
        BY <1>3, <1>2, <1>4, <2>2, RequestOfCommand DEF ReplInvariant, ReplTypes
    <2>6. OnlyTheUiLeaves'
        BY <1>1, <1>2, <1>3 DEF ReplInvariant, OnlyTheUiLeaves
    <2> QED
        BY <1>5, <2>4, <2>5, <2>6 DEF ReplInvariant
<1> QED
    BY <1>1, <1>6, <1>7

LEMMA FinishKeepsInvariant ==
    ASSUME ReplInvariant, PromptNotSaved \/ TurnFinished
    PROVE  ReplInvariant'
<1>1. CASE PromptNotSaved
    <2>1. PICK kind \in {"local", "user"} : Take(kind)
        BY <1>1 DEF PromptNotSaved
    <2>2. /\ worker' = worker /\ worker = "idle" /\ request' = request /\ leaving' = leaving
          /\ turn' = turn /\ reports' = Append(reports, Finished("none", session))
        BY <1>1 DEF PromptNotSaved, Report, turnVars
    <2>3. /\ queue' \in Seq(Commands) /\ (InQueue("shutdown")' => InQueue("shutdown"))
          /\ ui' = ui /\ view' = view /\ session' = session
        BY <2>1, QueueTaken DEF ReplInvariant
    <2>4. session' \in Sessions /\ reports' = Append(reports, Finished("none", session'))
        BY <2>2, <2>3 DEF ReplInvariant, ReplTypes
    <2>5. /\ reports' \in Seq(Reports) /\ FinishAfter(0)'
          /\ EveryStartEnds' /\ LastReportIsCurrent'
        BY <2>3, <2>4, FinishReported
    <2>6. ReplTypes' /\ BusyEnds' /\ OnlyTheUiLeaves'
        BY <2>2, <2>3, <2>5 DEF ReplInvariant, ReplTypes, BusyEnds, OnlyTheUiLeaves, Working
    <2> QED
        BY <2>5, <2>6 DEF ReplInvariant
<1>2. CASE TurnFinished
    <2>1. PICK effect \in Effects : FinishWith(effect, session')
        BY <1>2 DEF TurnFinished
    <2>2. /\ turn' = "idle" /\ worker' = (IF leaving THEN "returned" ELSE "idle")
          /\ session' \in (IF effect = "resume" THEN Sessions ELSE {session})
          /\ reports' = Append(reports, Finished(effect, session'))
          /\ ui' = ui /\ view' = view /\ queue' = queue /\ request' = "prompt" /\ leaving' = leaving
        BY <2>1 DEF FinishWith, TurnLeaves, Report, uiVars
    <2>3. effect \in AllRequests \cup {"none"} /\ session' \in Sessions
        BY <2>2 DEF Effects, ReplInvariant, ReplTypes
    <2>4. /\ reports' \in Seq(Reports) /\ FinishAfter(0)'
          /\ EveryStartEnds' /\ LastReportIsCurrent'
        BY <2>2, <2>3, FinishReported
    <2>5. ReplTypes' /\ BusyEnds' /\ OnlyTheUiLeaves'
        BY <2>2, <2>3, <2>4, QueueUnchanged
        DEF ReplInvariant, ReplTypes, BusyEnds, OnlyTheUiLeaves, AllRequests
    <2> QED
        BY <2>4, <2>5 DEF ReplInvariant
<1> QED
    BY <1>1, <1>2

\* The worker takes an input that is no request of its own.
LEMMA InputKeepsInvariant ==
    ASSUME ReplInvariant,
           \/ SubmitDropped \/ UserTurnedAway \/ Interrupt \/ Response \/ KeepAlive
           \/ TransportClosed \/ (Shutdown /\ worker # "idle")
    PROVE  ReplInvariant'
<1>1. PICK kind : /\ Take(kind)
                  /\ kind = "local" => worker # "idle"
                  /\ leaving' # leaving => kind = "shutdown"
    BY DEF SubmitDropped, UserTurnedAway, Interrupt, Response, KeepAlive, TransportClosed, Shutdown
<1>2. /\ reports' = reports /\ request' = request /\ worker' = worker
    BY DEF SubmitDropped, UserTurnedAway, Interrupt, Response, KeepAlive, TransportClosed, Shutdown,
        inputFrame, Take, ReplInvariant, ReplTypes, Working
<1>3. turn' = turn
    BY DEF SubmitDropped, UserTurnedAway, Interrupt, Response, KeepAlive, TransportClosed, Shutdown,
        turnVars, TurnIsCancelled, Take, ReplInvariant, ReplTypes, Working
<1>4. worker # "idle" => Working
    BY <1>1 DEF Take, ReplInvariant, ReplTypes
<1>5. /\ queue' \in Seq(Commands) /\ InQueue(kind)
      /\ \A other : other # kind => (InQueue(other)' <=> InQueue(other))
      /\ InQueue("shutdown")' => InQueue("shutdown")
      /\ ui' = ui /\ busy' = busy /\ view' = view /\ session' = session
    BY <1>1, QueueTaken DEF ReplInvariant
<1>6. InQueue("local") => InQueue("local")' \/ Working
    BY <1>1, <1>4, <1>5
<1>7. leaving' => leaving \/ InQueue("shutdown")
    BY <1>1, <1>5
<1>8. turn' # "idle" => Working
    BY <1>3 DEF ReplInvariant, ReplTypes
<1> QED
    BY <1>2, <1>5, <1>6, <1>7, <1>8, QuietStep

LEMMA IdleShutdownKeepsInvariant ==
    ASSUME ReplInvariant, Shutdown, worker = "idle"
    PROVE  ReplInvariant'
<1>1. /\ Take("shutdown") /\ worker' = "returned" /\ turn' = turn /\ leaving' = leaving
      /\ reports' = reports /\ request' = request
    BY DEF Shutdown, turnVars, inputFrame
<1>2. /\ queue' \in Seq(Commands) /\ InQueue("shutdown")
      /\ ui' = ui /\ busy' = busy /\ view' = view /\ session' = session
    BY <1>1, QueueTaken DEF ReplInvariant
<1>3. ~ Working
    BY DEF Working
<1>4. \A i : FinishAfter(i)' <=> FinishAfter(i)
    BY <1>1 DEF FinishAfter
<1>5. ReplTypes'
    BY <1>1, <1>2, <1>3 DEF ReplInvariant, ReplTypes
<1>6. EveryStartEnds' /\ LastReportIsCurrent'
    BY <1>1, <1>2, <1>3, <1>4 DEF ReplInvariant, EveryStartEnds, LastReportIsCurrent
<1>7. BusyEnds'
    BY <1>1 DEF BusyEnds
<1>8. OnlyTheUiLeaves'
    BY <1>2 DEF ReplInvariant, OnlyTheUiLeaves
<1> QED
    BY <1>5, <1>6, <1>7, <1>8 DEF ReplInvariant

LEMMA ReplInvariantStep == ReplInvariant /\ [ReplNext]_replVars => ReplInvariant'
<1> SUFFICES ASSUME ReplInvariant, [ReplNext]_replVars PROVE ReplInvariant'
    OBVIOUS
<1>1. CASE \/ CtrlC \/ Joins \/ OutputForwarded \/ TransportLost \/ ReconnectsOrGivesUp
           \/ TurnStarts \/ TurnRuns \/ DriverAnswers \/ PermissionRequested \/ PermissionDecided
           \/ UNCHANGED replVars
    BY <1>1, OtherThreadStepKeepsInvariant
<1>2. CASE ClientSends \/ HostNotified
    BY <1>2, QueueStepKeepsInvariant
<1>3. CASE Submits
    BY <1>3, SubmitsKeepsInvariant
<1>4. CASE Leaves
    BY <1>4, LeavesKeepsInvariant
<1>5. CASE TurnStartShown \/ TurnEndShown
    BY <1>5, ReportShownKeepsInvariant
<1>6. CASE RequestTaken
    BY <1>6, RequestTakenKeepsInvariant
<1>7. CASE PromptNotSaved \/ TurnFinished
    BY <1>7, FinishKeepsInvariant
<1>8. CASE \/ SubmitDropped \/ UserTurnedAway \/ Interrupt \/ Response \/ KeepAlive
           \/ TransportClosed \/ Shutdown
    BY <1>8, InputKeepsInvariant, IdleShutdownKeepsInvariant
<1> QED
    BY <1>1, <1>2, <1>3, <1>4, <1>5, <1>6, <1>7, <1>8 DEF ReplNext, TurnStep, InputStep

--------------------------------------------------------------------------------
(***************************************************************************)
(* The permission requests of a turn and the types.                        *)
(***************************************************************************)

TurnTypes == TurnTypeOK /\ (turn \in {"idle", "begun"} => passes = 0)

\* The one request that may be pending is the last one, of a remote turn that waits for it.
RequestTypes ==
    /\ ResolverTypeOK
    /\ worker \in {"idle", "local", "remote", "returned"}
    /\ \A id \in pending : id = CurrentRequest /\ oneshot[id] = "open"
    /\ pending # {} => worker = "remote" /\ turn = "asking"

OutMessages == [type : OutTypes, id : 0 .. MaxRequests]

ScreenTypes ==
    /\ ui \in {"reading", "joining", "exited"} /\ busy \in BOOLEAN /\ view \in Sessions
    /\ leaving \in BOOLEAN
    /\ link \in {"off", "up", "closing", "down"}
    /\ losses \in 0 .. MaxLosses /\ submits \in 0 .. MaxSubmits /\ sent \in 0 .. MaxMessages

ReplTyping == TurnTypes /\ RequestTypes /\ output \in Seq(OutMessages) /\ ScreenTypes

\* A worker that takes an input is idle or in a turn.
LEMMA ReadyWorker ==
    ASSUME ReplInvariant, RequestTypes, NEW kind, Take(kind)
    PROVE  worker \in {"idle", "local", "remote"}
    BY DEF Take, ReplInvariant, ReplTypes, Working, RequestTypes

LEMMA TurnTypesStep ==
    ASSUME TurnTypes, ReplInvariant, RequestTypes, [ReplNext]_replVars
    PROVE  TurnTypes'
<1>1. [TurnNext]_turnVars
    <2>1. CASE \/ Submits \/ CtrlC \/ Leaves \/ Joins \/ TurnStartShown \/ TurnEndShown
               \/ UNCHANGED replVars
        BY <2>1 DEF Submits, CtrlC, Leaves, Joins, TurnStartShown, TurnEndShown, ReportTaken,
            replVars, TurnNext
    <2>2. CASE \/ ClientSends \/ OutputForwarded \/ TransportLost \/ HostNotified
               \/ ReconnectsOrGivesUp
        BY <2>2 DEF ClientSends, OutputForwarded, TransportLost, HostNotified,
            ReconnectsOrGivesUp, linkFrame
    <2>3. CASE TurnStep \/ DriverAnswers
        BY <2>3 DEF TurnStep, TurnStarts, TurnRuns, DriverAnswers, PermissionRequested,
            PermissionDecided, TurnFinished, FinishWith, TurnNext
    <2>4. CASE InputStep
        <3>1. CASE \/ RequestTaken \/ PromptNotSaved \/ SubmitDropped \/ UserTurnedAway
                   \/ Response \/ KeepAlive
            BY <3>1 DEF RequestTaken, PromptNotSaved, SubmitDropped, UserTurnedAway, Response,
                KeepAlive
        <3>2. CASE Interrupt
            <4>1. worker \in {"idle", "local", "remote"}
                BY <3>2, ReadyWorker DEF Interrupt
            <4> QED
                BY <3>2, <4>1 DEF Interrupt, TurnNext
        <3>3. CASE TransportClosed
            <4>1. worker \in {"idle", "local", "remote"}
                BY <3>3, ReadyWorker DEF TransportClosed
            <4> QED
                BY <3>3, <4>1 DEF TransportClosed, TurnNext
        <3>4. CASE Shutdown
            <4>1. worker \in {"idle", "local", "remote"}
                BY <3>4, ReadyWorker DEF Shutdown
            <4> QED
                BY <3>4, <4>1 DEF Shutdown, TurnNext
        <3> QED
            BY <2>4, <3>1, <3>2, <3>3, <3>4 DEF InputStep
    <2> QED
        BY <2>1, <2>2, <2>3, <2>4 DEF ReplNext
<1>2. limit \in Limits /\ limit \in Nat /\ passes \in 0 .. limit
    BY TurnAssumption DEF TurnTypes, TurnTypeOK
<1>3. CASE TurnBegins
    <2>1. passes = 0 /\ limit' \in Nat /\ limit' \in Limits /\ passes' = 0
        BY <1>3, TurnAssumption DEF TurnBegins, TurnTypes
    <2>2. passes' \in 0 .. limit'
        BY <2>1
    <2> QED
        BY <1>3, <2>1, <2>2 DEF TurnBegins, TurnTypes, TurnTypeOK
<1>4. CASE TurnAwaitsModel
    <2>1. passes' \in 0 .. limit
        BY <1>2, <1>4 DEF TurnAwaitsModel
    <2> QED
        BY <1>4, <2>1 DEF TurnAwaitsModel, TurnTypes, TurnTypeOK
<1>5. CASE TurnLeaves
    BY <1>2, <1>5 DEF TurnLeaves, TurnTypes, TurnTypeOK
<1>6. CASE TurnIsCancelled \/ TurnIsPolled \/ ModelAnswers \/ TurnAsks \/ TurnResumes
    BY <1>6 DEF TurnIsCancelled, TurnIsPolled, ModelAnswers, TurnAsks, TurnResumes, TurnTypes,
        TurnTypeOK
<1>7. CASE UNCHANGED turnVars
    BY <1>7 DEF turnVars, TurnTypes, TurnTypeOK
<1> QED
    BY <1>1, <1>3, <1>4, <1>5, <1>6, <1>7 DEF TurnNext

\* What a step does to the requests.
RequestsKept ==
    /\ UNCHANGED resolverVars
    /\ worker' \in {"idle", "local", "remote", "returned"}
    /\ (worker' = worker /\ turn' = turn) \/ (worker # "remote") \/ (turn # "asking")

RequestOpened == OpenRequest /\ worker = "remote" /\ worker' = worker /\ turn = "running" /\ turn' = "asking"

RequestDecided ==
    \E behavior \in {"Allow", "Deny"} : ReceiveDecision(behavior) /\ worker' = worker

RequestsCancelled == CancelAll /\ worker' \in {worker, "returned"}

RequestAnswered ==
    /\ Head(queue) \in Commands /\ Head(queue).kind = "response"
    /\ ApplyResponse(Head(queue).id, Head(queue).what)
    /\ worker' = worker /\ turn' = turn

LEMMA RequestSteps ==
    ASSUME ReplInvariant, RequestTypes, [ReplNext]_replVars
    PROVE  \/ RequestsKept \/ RequestOpened \/ RequestDecided \/ RequestsCancelled
           \/ RequestAnswered
<1>1. worker \in {"idle", "local", "remote", "returned"}
    BY DEF RequestTypes
<1>2. CASE \/ Submits \/ Leaves \/ Joins \/ TurnStartShown \/ TurnEndShown
           \/ UNCHANGED replVars
    BY <1>1, <1>2 DEF Submits, Leaves, Joins, TurnStartShown, TurnEndShown, ReportTaken, uiFrame,
        replVars, turnVars, workerVars, RequestsKept
<1>3. CASE CtrlC
    BY <1>1, <1>3 DEF CtrlC, uiFrame, workerVars, TurnIsCancelled, RequestsKept
<1>4. CASE ClientSends \/ OutputForwarded \/ TransportLost \/ HostNotified \/ ReconnectsOrGivesUp
    BY <1>1, <1>4 DEF ClientSends, OutputForwarded, TransportLost, HostNotified,
        ReconnectsOrGivesUp, linkFrame, turnVars, workerVars, RequestsKept
<1>5. CASE TurnStarts \/ TurnRuns \/ DriverAnswers
    BY <1>1, <1>5 DEF TurnStarts, TurnRuns, DriverAnswers, TurnBegins, TurnIsPolled,
        TurnAwaitsModel, ModelAnswers, RequestsKept
<1>6. CASE PermissionRequested
    BY <1>6 DEF PermissionRequested, TurnAsks, RequestOpened
<1>7. CASE PermissionDecided
    BY <1>7 DEF PermissionDecided, RequestDecided
<1>8. CASE TurnFinished
    <2>1. /\ turn \in {"begun", "running", "awaiting"} /\ UNCHANGED resolverVars
          /\ worker' = IF leaving THEN "returned" ELSE "idle"
        BY <1>8 DEF TurnFinished, FinishWith
    <2> QED
        BY <2>1 DEF RequestsKept
<1>9. CASE RequestTaken
    BY <1>1, <1>9 DEF RequestTaken, RequestsKept
<1>10. CASE PromptNotSaved \/ SubmitDropped \/ UserTurnedAway \/ KeepAlive
    BY <1>1, <1>10 DEF PromptNotSaved, SubmitDropped, UserTurnedAway, KeepAlive, turnVars,
        RequestsKept
<1>11. CASE Interrupt
    <2>1. worker' = worker /\ Take("interrupt")
        BY <1>11 DEF Interrupt
    <2>2. CASE worker = "remote"
        BY <1>11, <2>1, <2>2 DEF Interrupt, RequestsCancelled
    <2>3. CASE worker # "remote"
        <3>1. UNCHANGED resolverVars
            BY <1>11, <2>3, ReadyWorker, <2>1 DEF Interrupt
        <3> QED
            BY <1>1, <2>1, <2>3, <3>1 DEF RequestsKept
    <2> QED
        BY <2>2, <2>3
<1>12. CASE TransportClosed
    <2>1. worker' = worker /\ Take("closed")
        BY <1>12 DEF TransportClosed
    <2>2. CASE worker \in {"idle", "remote"}
        BY <1>12, <2>1, <2>2 DEF TransportClosed, RequestsCancelled
    <2>3. CASE worker \notin {"idle", "remote"}
        <3>1. UNCHANGED resolverVars
            BY <1>12, <2>3, ReadyWorker, <2>1 DEF TransportClosed
        <3> QED
            BY <1>1, <2>1, <2>3, <3>1 DEF RequestsKept
    <2> QED
        BY <2>2, <2>3
<1>13. CASE Shutdown
    <2>1. Take("shutdown")
        BY <1>13 DEF Shutdown
    <2>2. CASE worker \in {"idle", "remote"}
        BY <1>13, <2>2 DEF Shutdown, RequestsCancelled
    <2>3. CASE worker \notin {"idle", "remote"}
        <3>1. UNCHANGED resolverVars /\ worker' = worker
            BY <1>13, <2>3, ReadyWorker, <2>1 DEF Shutdown
        <3> QED
            BY <1>1, <2>3, <3>1 DEF RequestsKept
    <2> QED
        BY <2>2, <2>3
<1>14. CASE Response
    <2>1. Take("response") /\ worker' = worker /\ turn' = turn
        BY <1>14 DEF Response, turnVars
    <2>2. Head(queue) \in Commands /\ Head(queue).kind = "response"
        BY <2>1, QueueTaken DEF ReplInvariant
    <2>3. CASE UNCHANGED resolverVars
        BY <1>1, <2>1, <2>3 DEF RequestsKept
    <2>4. CASE ApplyResponse(Head(queue).id, Head(queue).what)
        BY <2>1, <2>2, <2>4 DEF RequestAnswered
    <2> QED
        BY <1>14, <2>3, <2>4 DEF Response
<1> QED
    BY <1>2, <1>3, <1>4, <1>5, <1>6, <1>7, <1>8, <1>9, <1>10, <1>11, <1>12, <1>13, <1>14
    DEF ReplNext, TurnStep, InputStep

\* What a client answers.
LEMMA BehaviorOfResponse ==
    ASSUME NEW command \in Commands, command.kind = "response"
    PROVE  command.what \in {"Allow", "Ask"}
<1>1. CASE \E what \in LocalRequests : command = Local(what)
    BY <1>1 DEF Local, Command
<1>2. CASE \E what \in RemoteRequests : command = RemoteUser(what)
    BY <1>2 DEF RemoteUser, Command
<1>3. CASE \E signal \in Signals \ {"response"} : command = Command(signal, "Ask", 0)
    BY <1>3 DEF Command
<1>4. CASE \E behavior \in {"Allow", "Ask"},
              id \in IF "response" \in Signals THEN RequestIds ELSE {} :
                command = Command("response", behavior, id)
    BY <1>4 DEF Command
<1>5. CASE command \in {TransportIsClosed, ShutdownRequested}
    BY <1>5 DEF TransportIsClosed, ShutdownRequested, Command
<1>6. CASE command \in ClientMessages
    BY <1>2, <1>3, <1>4, <1>6 DEF ClientMessages
<1> QED
    BY <1>1, <1>5, <1>6 DEF Commands

LEMMA RequestTypesStep ==
    ASSUME ReplInvariant, RequestTypes, [ReplNext]_replVars
    PROVE  RequestTypes'
<1>1. /\ nextRequestId \in 1 .. MaxRequests + 1 /\ pending \subseteq RequestIds
      /\ oneshot \in [RequestIds -> OneshotStates] /\ received \subseteq RequestIds
      /\ worker \in {"idle", "local", "remote", "returned"}
      /\ \A id \in pending : id = CurrentRequest /\ oneshot[id] = "open"
      /\ pending # {} => worker = "remote" /\ turn = "asking"
      /\ MaxRequests \in Nat
    BY ResolverAssumption DEF RequestTypes, ResolverTypeOK
<1>2. CASE RequestsKept
    <2>1. UNCHANGED <<nextRequestId, pending, oneshot, received>>
        BY <1>2 DEF RequestsKept, resolverVars
    <2>2. pending # {} => worker' = worker /\ turn' = turn
        BY <1>1, <1>2 DEF RequestsKept
    <2>3. ResolverTypeOK'
        BY <1>1, <2>1 DEF ResolverTypeOK
    <2> QED
        BY <1>1, <1>2, <2>1, <2>2, <2>3 DEF RequestsKept, RequestTypes, CurrentRequest
<1>3. CASE RequestOpened
    <2>1. /\ nextRequestId <= MaxRequests /\ nextRequestId' = nextRequestId + 1
          /\ pending' = pending \cup {nextRequestId} /\ received' = received
          /\ oneshot' = [oneshot EXCEPT ![nextRequestId] = "open"]
          /\ worker' = "remote" /\ turn = "running" /\ turn' = "asking"
        BY <1>3 DEF RequestOpened, OpenRequest
    <2>2. pending' = {nextRequestId} /\ nextRequestId \in RequestIds
        BY <1>1, <2>1 DEF RequestIds
    <2>3. CurrentRequest' = nextRequestId
        BY <1>1, <2>1 DEF CurrentRequest
    <2>4. ResolverTypeOK'
        BY <1>1, <2>1, <2>2 DEF ResolverTypeOK, OneshotStates
    <2> QED
        BY <1>1, <2>1, <2>2, <2>3, <2>4 DEF RequestTypes
<1>4. CASE RequestDecided
    <2>1. /\ CurrentRequest \in RequestIds /\ oneshot[CurrentRequest] \in {"Allow", "Deny"}
          /\ received' = received \cup {CurrentRequest}
          /\ UNCHANGED <<nextRequestId, pending, oneshot>> /\ worker' = worker
        BY <1>4 DEF RequestDecided, ReceiveDecision
    <2>2. pending = {}
        BY <1>1, <2>1
    <2>3. ResolverTypeOK'
        BY <1>1, <2>1 DEF ResolverTypeOK
    <2> QED
        BY <1>1, <2>1, <2>2, <2>3 DEF RequestTypes
<1>5. CASE RequestsCancelled
    <2>1. /\ pending' = {} /\ nextRequestId' = nextRequestId /\ received' = received
          /\ oneshot' = [id \in RequestIds |-> IF id \in pending THEN "Deny" ELSE oneshot[id]]
          /\ worker' \in {worker, "returned"}
        BY <1>5 DEF RequestsCancelled, CancelAll
    <2>2. ResolverTypeOK'
        BY <1>1, <2>1 DEF ResolverTypeOK, OneshotStates
    <2> QED
        BY <1>1, <2>1, <2>2 DEF RequestTypes
<1>6. CASE RequestAnswered
    <2> DEFINE id == Head(queue).id
               behavior == Head(queue).what
    <2>1. /\ id \in pending /\ behavior # "Ask" /\ pending' = pending \ {id}
          /\ oneshot' = [oneshot EXCEPT ![id] = behavior]
          /\ nextRequestId' = nextRequestId /\ received' = received
          /\ worker' = worker /\ turn' = turn
          /\ Head(queue) \in Commands /\ Head(queue).kind = "response"
        BY <1>6 DEF RequestAnswered, ApplyResponse
    <2>2. behavior \in {"Allow", "Ask"}
        BY <2>1, BehaviorOfResponse
    <2> HIDE DEF id, behavior
    <2>3. behavior = "Allow" /\ pending' = {} /\ id \in RequestIds
        BY <1>1, <2>1, <2>2
    <2>4. ResolverTypeOK'
        BY <1>1, <2>1, <2>3 DEF ResolverTypeOK, OneshotStates
    <2> QED
        BY <1>1, <2>1, <2>3, <2>4 DEF RequestTypes
<1> QED
    BY <1>2, <1>3, <1>4, <1>5, <1>6, RequestSteps

\* What the worker sends is one message, or a notice for the request that is pending.
LEMMA NoticesAreMessages ==
    ASSUME RequestTypes
    PROVE  Notices \in Seq(OutMessages)
<1> DEFINE S == {Out("control_cancel_request", id) : id \in pending}
<1>1. S \subseteq OutMessages
    BY ResolverAssumption DEF RequestTypes, ResolverTypeOK, RequestIds, Out, OutMessages, OutTypes
<1>2. S \subseteq {Out("control_cancel_request", CurrentRequest)}
    BY DEF RequestTypes
<1>3. Notices \in Seq(S)
    BY <1>2, SmallSetToSeq DEF Notices
<1> HIDE DEF S
<1> QED
    BY <1>1, <1>3, SeqMonotonic

LEMMA SingleMessages ==
    ASSUME RequestTypes
    PROVE  /\ \A type \in {"reply", "keep_alive"} : <<Out(type, 0)>> \in Seq(OutMessages)
           /\ nextRequestId <= MaxRequests =>
                  <<Out("control_request", nextRequestId)>> \in Seq(OutMessages)
<1>1. MaxRequests \in Nat /\ nextRequestId \in Nat
    BY ResolverAssumption DEF RequestTypes, ResolverTypeOK
<1>2. \A type \in {"reply", "keep_alive"} : Out(type, 0) \in OutMessages
    BY <1>1 DEF Out, OutMessages, OutTypes
<1>3. nextRequestId <= MaxRequests => Out("control_request", nextRequestId) \in OutMessages
    BY <1>1 DEF Out, OutMessages, OutTypes
<1> QED
    BY <1>2, <1>3

LEMMA OutputSteps ==
    ASSUME ReplInvariant, RequestTypes, [ReplNext]_replVars
    PROVE  \/ output' = output
           \/ output # <<>> /\ output' = Tail(output)
           \/ \E messages \in Seq(OutMessages) : output' = output \o messages
<1>1. CASE \/ Submits \/ CtrlC \/ Leaves \/ Joins \/ TurnStartShown \/ TurnEndShown
           \/ ClientSends \/ TransportLost \/ HostNotified \/ ReconnectsOrGivesUp
           \/ UNCHANGED replVars
    BY <1>1 DEF Submits, CtrlC, Leaves, Joins, TurnStartShown, TurnEndShown, ReportTaken, uiFrame,
        ClientSends, TransportLost, HostNotified, ReconnectsOrGivesUp, replVars
<1>2. CASE OutputForwarded
    BY <1>2 DEF OutputForwarded
<1>3. CASE TurnStarts \/ TurnRuns \/ DriverAnswers \/ PermissionDecided \/ RequestTaken \/ SubmitDropped
    BY <1>3 DEF TurnStarts, TurnRuns, DriverAnswers, PermissionDecided, RequestTaken, SubmitDropped
<1>4. CASE PermissionRequested
    BY <1>4, SingleMessages DEF PermissionRequested, OpenRequest, Emit
<1>5. CASE TurnFinished
    BY <1>5, SingleMessages DEF TurnFinished, FinishWith, Emit
<1>6. CASE PromptNotSaved \/ UserTurnedAway \/ KeepAlive
    BY <1>6, SingleMessages DEF PromptNotSaved, UserTurnedAway, KeepAlive, Emit
<1>7. CASE Response
    BY <1>7, SingleMessages DEF Response, Emit
<1>8. CASE Interrupt
    <2>1. worker \in {"idle", "local", "remote"}
        BY <1>8, ReadyWorker DEF Interrupt
    <2> QED
        BY <1>8, <2>1, SingleMessages, NoticesAreMessages DEF Interrupt, Emit
<1>9. CASE TransportClosed
    <2>1. worker \in {"idle", "local", "remote"}
        BY <1>9, ReadyWorker DEF TransportClosed
    <2> QED
        BY <1>9, <2>1, NoticesAreMessages DEF TransportClosed, Emit
<1>10. CASE Shutdown
    <2>1. worker \in {"idle", "local", "remote"}
        BY <1>10, ReadyWorker DEF Shutdown
    <2> QED
        BY <1>10, <2>1, NoticesAreMessages DEF Shutdown, Emit
<1> QED
    BY <1>1, <1>2, <1>3, <1>4, <1>5, <1>6, <1>7, <1>8, <1>9, <1>10
    DEF ReplNext, TurnStep, InputStep

LEMMA OutputTypesStep ==
    ASSUME ReplInvariant, RequestTypes, output \in Seq(OutMessages), [ReplNext]_replVars
    PROVE  output' \in Seq(OutMessages)
<1>1. CASE output # <<>> /\ output' = Tail(output)
    BY <1>1, TakingHead
<1>2. CASE \E messages \in Seq(OutMessages) : output' = output \o messages
    BY <1>2, ConcatProperties
<1> QED
    BY <1>1, <1>2, OutputSteps

LEMMA ScreenTypesStep ==
    ASSUME ReplInvariant, RequestTypes, ScreenTypes, [ReplNext]_replVars
    PROVE  ScreenTypes'
<1>1. MaxLosses \in Nat /\ MaxSubmits \in Nat /\ MaxMessages \in Nat
    BY ReplAssumption
<1>2. CASE \/ CtrlC \/ TurnStep \/ DriverAnswers \/ UNCHANGED replVars
    BY <1>2 DEF CtrlC, TurnStep, TurnStarts, TurnRuns, DriverAnswers, PermissionRequested,
        PermissionDecided, TurnFinished, FinishWith, turnFrame, uiFrame, uiVars, bounds, replVars,
        workerVars, ScreenTypes
<1>3. CASE InputStep
    <2>1. UNCHANGED <<ui, busy, view, link, losses, submits, sent>>
        BY <1>3 DEF InputStep, RequestTaken, PromptNotSaved, SubmitDropped, UserTurnedAway,
            Interrupt, Response, KeepAlive, TransportClosed, Shutdown, Take, uiVars, bounds
    <2>2. leaving' \in {leaving, TRUE}
        <3>1. CASE Shutdown
            <4>1. worker \in {"idle", "local", "remote"}
                BY <3>1, ReadyWorker DEF Shutdown
            <4> QED
                BY <3>1, <4>1 DEF Shutdown
        <3> QED
            BY <1>3, <3>1 DEF InputStep, RequestTaken, PromptNotSaved, SubmitDropped,
                UserTurnedAway, Interrupt, Response, KeepAlive, TransportClosed
    <2> QED
        BY <2>1, <2>2 DEF ScreenTypes
<1>4. CASE Leaves \/ Joins
    BY <1>4 DEF Leaves, Joins, uiFrame, workerVars, ScreenTypes
<1>5. CASE Submits
    <2>1. /\ submits < MaxSubmits /\ submits' = submits + 1 /\ busy' = TRUE
          /\ UNCHANGED <<ui, view, link, leaving, losses, sent>>
        BY <1>5 DEF Submits, uiFrame, workerVars
    <2>2. submits' \in 0 .. MaxSubmits
        BY <1>1, <2>1 DEF ScreenTypes
    <2> QED
        BY <2>1, <2>2 DEF ScreenTypes
<1>6. CASE TurnStartShown
    BY <1>6 DEF TurnStartShown, ReportTaken, uiFrame, workerVars, ScreenTypes
<1>7. CASE TurnEndShown
    <2>1. /\ busy' = FALSE /\ view' = Head(reports).session /\ ReportTaken("finished")
          /\ UNCHANGED <<ui, leaving, losses, submits, sent>>
        BY <1>7 DEF TurnEndShown, ReportTaken, uiFrame, workerVars
    <2>2. view' \in Sessions
        BY <2>1, ReportHandled DEF Reports
    <2>3. link' \in {link, "off", "up"}
        BY <1>7 DEF TurnEndShown, StopBridge
    <2> QED
        BY <2>1, <2>2, <2>3 DEF ScreenTypes
<1>8. CASE ClientSends
    <2>1. sent < MaxMessages /\ sent' = sent + 1
          /\ UNCHANGED <<ui, busy, view, link, leaving, losses, submits>>
        BY <1>8 DEF ClientSends, linkFrame, uiVars, workerVars
    <2>2. sent' \in 0 .. MaxMessages
        BY <1>1, <2>1 DEF ScreenTypes
    <2> QED
        BY <2>1, <2>2 DEF ScreenTypes
<1>9. CASE OutputForwarded \/ TransportLost \/ HostNotified \/ ReconnectsOrGivesUp
    <2>1. /\ losses' = losses \/ (losses < MaxLosses /\ losses' = losses + 1)
          /\ link' \in {link, "closing", "down", "up", "off"}
          /\ UNCHANGED <<ui, busy, view, leaving, submits, sent>>
        BY <1>9 DEF OutputForwarded, TransportLost, HostNotified, ReconnectsOrGivesUp, linkFrame,
            uiVars, workerVars
    <2>2. losses' \in 0 .. MaxLosses
        BY <1>1, <2>1 DEF ScreenTypes
    <2> QED
        BY <2>1, <2>2 DEF ScreenTypes
<1> QED
    BY <1>2, <1>3, <1>4, <1>5, <1>6, <1>7, <1>8, <1>9 DEF ReplNext

LEMMA ReplTypingInit == ReplInit => ReplTyping
<1> SUFFICES ASSUME ReplInit PROVE ReplTyping
    OBVIOUS
<1>1. TurnTypes
    <2>1. limit \in Nat /\ limit \in Limits /\ turn = "idle" /\ passes = 0 /\ cancelled = FALSE
        BY TurnAssumption DEF ReplInit, TurnInit
    <2>2. passes \in 0 .. limit
        BY <2>1
    <2>3. cancelled \in BOOLEAN
        BY <2>1
    <2> QED
        BY <2>1, <2>2, <2>3 DEF TurnTypes, TurnTypeOK
<1>2. RequestTypes
    <2>1. /\ nextRequestId = 1 /\ pending = {} /\ received = {} /\ worker = "idle"
          /\ oneshot = [id \in RequestIds |-> "unused"]
        BY DEF ReplInit, ResolverInit
    <2>2. 1 \in 1 .. MaxRequests + 1
        BY ResolverAssumption
    <2> QED
        BY <2>1, <2>2 DEF RequestTypes, ResolverTypeOK, OneshotStates
<1>3. output \in Seq(OutMessages)
    BY DEF ReplInit
<1>4. ScreenTypes
    <2>1. 0 \in 0 .. MaxLosses /\ 0 \in 0 .. MaxSubmits /\ 0 \in 0 .. MaxMessages
        BY ReplAssumption
    <2> QED
        BY <2>1, ReplAssumption DEF ReplInit, ScreenTypes
<1> QED
    BY <1>1, <1>2, <1>3, <1>4 DEF ReplTyping

(***************************************************************************)
(* Theorems.                                                               *)
(***************************************************************************)

\* While the terminal refuses input, a submit in the channel, a turn or a report will clear busy,
\* for any number of submits, remote turns and reports (busy in ReplViewState, drain_worker_events).
THEOREM BusyAlwaysEnds == ReplSpec => []BusyHasAnEnd
<1>1. ReplInvariant => BusyHasAnEnd
    BY DEF ReplInvariant, BusyEnds, OnlyTheUiLeaves, BusyHasAnEnd, Working, InQueue, FinishAfter
<1> QED
    BY <1>1, ReplInvariantInit, ReplInvariantStep, PTL DEF ReplSpec

\* With an idle worker and no report left the terminal shows the worker's session, and refuses
\* input only for a submit of its own, whoever resumed another session.
THEOREM ViewFollowsTheWorker == ReplSpec => []ViewCatchesUp
<1>1. ReplInvariant => ViewCatchesUp
    <2>1. reports = <<>> => ~ FinishAfter(0)
        BY DEF FinishAfter
    <2> QED
        BY <2>1 DEF ReplInvariant, BusyEnds, LastReportIsCurrent, ViewCatchesUp, Working, InQueue
<1> QED
    BY <1>1, ReplInvariantInit, ReplInvariantStep, PTL DEF ReplSpec

\* Everything the threads of the REPL share is of its type, and a permission request is pending
\* only while a remote turn waits for its answer, whatever inputs come between.
THEOREM ReplTypesHold == ReplSpec => []ReplTypeOK
<1>1. ReplInit => ReplInvariant /\ ReplTyping
    BY ReplInvariantInit, ReplTypingInit
<1>2. ReplInvariant /\ ReplTyping /\ [ReplNext]_replVars => ReplInvariant' /\ ReplTyping'
    BY ReplInvariantStep, TurnTypesStep, RequestTypesStep, OutputTypesStep, ScreenTypesStep
    DEF ReplTyping
<1>3. ReplInvariant /\ ReplTyping => ReplTypeOK
    BY DEF ReplInvariant, ReplTypes, ReplTyping, TurnTypes, RequestTypes, ScreenTypes, OutMessages,
        Working, ReplTypeOK
<1> QED
    BY <1>1, <1>2, <1>3, PTL DEF ReplSpec
=============================================================================
