---------------------------------- MODULE Repl ----------------------------------
(***************************************************************************)
(* The terminal REPL: a UI thread (ReplController, run_repl_session) and a *)
(* worker thread that owns the engine (worker_loop), with a remote control *)
(* bridge that may be attached.                                            *)
(*                                                                         *)
(* Everything reaches the worker through one channel: what the user types, *)
(* what the remote client sends, the loss of the transport, the shutdown.  *)
(* The worker reports through another one.  The UI knows only `busy`,      *)
(* which it sets itself and a report clears.  While a turn runs, the       *)
(* select of the worker takes an input or polls the turn, in any order.    *)
(***************************************************************************)
EXTENDS TurnProtocol, PermissionResolver, Sequences, SequencesExt

CONSTANTS
    LocalRequests, RemoteRequests,  \* what the user and the client submit
    Signals,                        \* what else the client sends
    Sessions, Home,                 \* the sessions, and the one the REPL starts in
    MaxSubmits,                     \* bound: local submits
    MaxMessages,                    \* bound: messages of the client
    MaxLosses                       \* bound: losses of the transport

\* A prompt, or a slash command by its effect.
AllRequests == {"prompt", "resume", "bridgeStart", "bridgeStop"}
AllSignals == {"interrupt", "response", "keepAlive"}

ASSUME ReplAssumption ==
    /\ LocalRequests \subseteq AllRequests /\ RemoteRequests \subseteq AllRequests
    /\ Signals \subseteq AllSignals
    /\ Home \in Sessions
    /\ {MaxSubmits, MaxMessages, MaxLosses} \subseteq Nat

VARIABLES
    ui,             \* reading, joining (the controller is dropped), exited
    busy,           \* ReplViewState.busy
    view,           \* the session the UI shows
    reports,        \* event_tx .. event_rx
    queue,          \* submit_tx .. submit_rx
    worker,         \* idle, local, remote (a turn of either kind), returned
    request,        \* the request of the turn ("prompt" without one)
    leaving,        \* should_shutdown
    session,        \* the session of the worker
    link,           \* the bridge: off, up, closing, down
    output,         \* bridge_output_tx .. output_rx
    losses, submits, sent       \* counters

uiVars == <<ui, busy, view>>
workerVars == <<worker, request, leaving, session>>
bounds == <<losses, submits, sent>>
replVars == <<turnVars, resolverVars, uiVars, reports, queue, workerVars, link, output, bounds>>

Command(kind, what, id) == [kind |-> kind, what |-> what, id |-> id]
Local(what) == Command("local", what, 0)
RemoteUser(what) == Command("user", what, 0)
ClientMessages ==
    {RemoteUser(what) : what \in RemoteRequests}
    \cup {Command(signal, "Ask", 0) : signal \in Signals \ {"response"}}
    \cup {Command("response", behavior, id) :
            behavior \in {"Allow", "Ask"}, id \in IF "response" \in Signals THEN RequestIds ELSE {}}
TransportIsClosed == Command("closed", "Ask", 0)
ShutdownRequested == Command("shutdown", "Ask", 0)
Commands == {Local(what) : what \in LocalRequests} \cup ClientMessages
            \cup {TransportIsClosed, ShutdownRequested}

RemoteTurnStarted == [kind |-> "started", effect |-> "none", session |-> Home]
Finished(effect, of) == [kind |-> "finished", effect |-> effect, session |-> of]
Reports == [kind : {"started", "finished"}, effect : AllRequests \cup {"none"}, session : Sessions]

\* reply stands for a result or an error.
OutTypes == {"reply", "keep_alive", "control_request", "control_cancel_request"}
Out(type, id) == [type |-> type, id |-> id]

ReplInit ==
    /\ TurnInit /\ ResolverInit
    /\ ui = "reading" /\ busy = FALSE /\ view = Home
    /\ reports = <<>> /\ queue = <<>>
    /\ worker = "idle" /\ request = "prompt" /\ leaving = FALSE /\ session = Home
    /\ link = "off" /\ output = <<>>
    /\ losses = 0 /\ submits = 0 /\ sent = 0

--------------------------------------------------------------------------------
(***************************************************************************)
(* The UI thread.                                                          *)
(***************************************************************************)

uiFrame == <<resolverVars, workerVars, output, losses, sent>>

\* Enter: take_submittable_input and submit_input.
Submits ==
    /\ ui = "reading"
    /\ ~ busy
    /\ submits < MaxSubmits
    /\ submits' = submits + 1
    /\ busy' = TRUE
    /\ \E what \in LocalRequests : queue' = Append(queue, Local(what))
    /\ UNCHANGED <<turnVars, ui, view, reports, link, uiFrame>>

\* Ctrl-C while busy: the flag in the slot is set; before the turn begins there is none.
CtrlC ==
    /\ ui = "reading"
    /\ busy
    /\ TurnIsCancelled
    /\ UNCHANGED <<uiVars, reports, queue, link, submits, uiFrame>>

\* Ctrl-C while not busy, or the terminal fails: the controller is dropped.
Leaves ==
    /\ ui = "reading"
    /\ ui' = "joining"
    /\ queue' = Append(queue, ShutdownRequested)
    /\ UNCHANGED <<turnVars, busy, view, reports, link, submits, uiFrame>>

Joins ==
    /\ ui = "joining"
    /\ worker = "returned"
    /\ ui' = "exited"
    /\ UNCHANGED <<turnVars, busy, view, reports, queue, link, submits, uiFrame>>

ReportTaken(kind) ==
    /\ ui = "reading"
    /\ reports # <<>>
    /\ Head(reports).kind = kind
    /\ reports' = Tail(reports)
    /\ UNCHANGED <<turnVars, ui, submits, uiFrame>>

\* begin_external_submit
TurnStartShown ==
    /\ ReportTaken("started")
    /\ busy' = TRUE
    /\ UNCHANGED <<view, queue, link>>

\* A worker that has a transport tells the host before it stops.
StopBridge ==
    /\ queue' = IF link \in {"up", "closing"} THEN Append(queue, TransportIsClosed) ELSE queue
    /\ link' = "off"

\* drain_worker_events: the mirrors are replaced, complete or reset_for_restored_session clear
\* busy, and the bridge action is applied on this thread.  Starting may fail or reuse the worker.
TurnEndShown ==
    LET report == Head(reports) IN
    /\ ReportTaken("finished")
    /\ busy' = FALSE
    /\ view' = report.session
    /\ CASE report.effect = "bridgeStart" ->
                /\ link' \in IF link = "off" THEN {"off", "up"} ELSE {link}
                /\ UNCHANGED queue
         [] report.effect = "bridgeStop" -> StopBridge
         [] OTHER -> UNCHANGED <<link, queue>>

--------------------------------------------------------------------------------
(***************************************************************************)
(* The client and the bridge worker, through ReplBridgeHost.               *)
(***************************************************************************)

linkFrame == <<turnVars, resolverVars, uiVars, reports, workerVars, submits>>

ClientSends ==
    /\ link = "up"
    /\ sent < MaxMessages
    /\ sent' = sent + 1
    /\ \E message \in ClientMessages : queue' = Append(queue, message)
    /\ UNCHANGED <<link, output, losses, linkFrame>>

\* With a transport or, if its send fails, without one, the message is gone.
OutputForwarded ==
    /\ link = "up"
    /\ output # <<>>
    /\ output' = Tail(output)
    /\ \/ UNCHANGED <<link, losses>>
       \/ losses < MaxLosses /\ losses' = losses + 1 /\ link' = "closing"
    /\ UNCHANGED <<queue, sent, linkFrame>>

TransportLost ==
    /\ link = "up"
    /\ losses < MaxLosses
    /\ losses' = losses + 1
    /\ link' = "closing"
    /\ UNCHANGED <<queue, output, sent, linkFrame>>

HostNotified ==
    /\ link = "closing"
    /\ link' = "down"
    /\ queue' = Append(queue, TransportIsClosed)
    /\ UNCHANGED <<output, losses, sent, linkFrame>>

ReconnectsOrGivesUp ==
    /\ link = "down"
    /\ link' \in {"up", "off"}
    /\ UNCHANGED <<queue, output, losses, sent, linkFrame>>

--------------------------------------------------------------------------------
(***************************************************************************)
(* The worker: turns.                                                      *)
(***************************************************************************)

turnFrame == <<uiVars, queue, session, link, bounds>>

Report(report) == reports' = Append(reports, report)
Emit(messages) == output' = output \o messages

Take(kind) ==
    /\ worker = "idle" \/ turn \in {"begun", "awaiting", "asking"}
    /\ queue # <<>>
    /\ Head(queue).kind = kind
    /\ queue' = Tail(queue)
    /\ UNCHANGED <<uiVars, session, link, bounds>>

\* A request is taken from the channel and its prompt saved; the slot has no flag yet.
RequestTaken ==
    /\ worker = "idle"
    /\ \/ Take("local") /\ worker' = "local" /\ UNCHANGED reports
       \/ Take("user") /\ worker' = "remote" /\ Report(RemoteTurnStarted)
    /\ request' = Head(queue).what
    /\ UNCHANGED <<turnVars, resolverVars, leaving, output>>

\* Mutant: only the client is told.
PromptNotSavedUnreported ==
    /\ worker = "idle"
    /\ \/ Take("local") /\ UNCHANGED output
       \/ Take("user") /\ Emit(<<Out("reply", 0)>>)
    /\ Head(queue).what = "prompt"
    /\ UNCHANGED <<turnVars, resolverVars, reports, worker, request, leaving>>

PromptNotSaved ==
    /\ worker = "idle"
    /\ \/ Take("local") /\ UNCHANGED output
       \/ Take("user") /\ Emit(<<Out("reply", 0)>>)
    /\ Head(queue).what = "prompt"
    /\ Report(Finished("none", session))
    /\ UNCHANGED <<turnVars, resolverVars, worker, request, leaving>>

\* The flag enters the slot and the future is made.
TurnStarts ==
    /\ worker \in {"local", "remote"}
    /\ TurnBegins
    /\ UNCHANGED <<resolverVars, reports, worker, request, leaving, output, turnFrame>>

\* A command runs to its end inside one poll.
TurnRuns ==
    /\ \/ TurnIsPolled
       \/ request = "prompt" /\ TurnAwaitsModel
    /\ UNCHANGED <<resolverVars, reports, worker, request, leaving, output, turnFrame>>

DriverAnswers ==
    /\ ModelAnswers
    /\ UNCHANGED <<resolverVars, reports, worker, request, leaving, output, turnFrame>>

\* Mutant: a local turn asks the remote client.
AnyTurnAsks ==
    /\ request = "prompt"
    /\ TurnAsks
    /\ OpenRequest
    /\ Emit(<<Out("control_request", nextRequestId)>>)
    /\ UNCHANGED <<reports, worker, request, leaving, turnFrame>>

\* Only a remote turn has the resolver that asks; in a local one Ask is a refusal.
PermissionRequested ==
    /\ worker = "remote"
    /\ request = "prompt"
    /\ TurnAsks
    /\ OpenRequest
    /\ Emit(<<Out("control_request", nextRequestId)>>)
    /\ UNCHANGED <<reports, worker, request, leaving, turnFrame>>

PermissionDecided ==
    /\ TurnResumes
    /\ \E behavior \in {"Allow", "Deny"} : ReceiveDecision(behavior)
    /\ UNCHANGED <<reports, worker, request, leaving, output, turnFrame>>

\* What the request did, if it was a command that began before the flag was set and did not fail.
Effects == IF request # "prompt" /\ turn = "running" THEN {"none", request} ELSE {"none"}

FinishWith(effect, reported) ==
    /\ \/ turn \in {"running", "awaiting"}
       \/ turn = "begun" /\ cancelled
    /\ TurnLeaves
    /\ worker' = IF leaving THEN "returned" ELSE "idle"
    /\ session' \in IF effect = "resume" THEN Sessions ELSE {session}
    /\ Report(Finished(effect, reported))
    /\ IF worker = "remote" THEN Emit(<<Out("reply", 0)>>) ELSE UNCHANGED output
    /\ request' = "prompt"
    /\ UNCHANGED <<resolverVars, uiVars, queue, leaving, link, bounds>>

\* Mutant: the report is made before the session is restored.
TurnFinishedEarlyReport == \E effect \in Effects : FinishWith(effect, session)

\* The future is ready: the slot is emptied, the session restored or the turn saved, and reported.
TurnFinished == \E effect \in Effects : FinishWith(effect, session')

TurnStep ==
    TurnStarts \/ TurnRuns \/ PermissionRequested \/ PermissionDecided \/ TurnFinished

--------------------------------------------------------------------------------
(***************************************************************************)
(* The worker: inputs, when idle and during a turn.                        *)
(***************************************************************************)

Notices == SetToSeq({Out("control_cancel_request", id) : id \in pending})
inputFrame == <<reports, request>>

\* A local submit that raced a turn is dropped.
SubmitDropped ==
    /\ worker # "idle"
    /\ Take("local")
    /\ UNCHANGED <<turnVars, resolverVars, worker, leaving, output, inputFrame>>

\* busy
UserTurnedAway ==
    /\ worker # "idle"
    /\ Take("user")
    /\ Emit(<<Out("reply", 0)>>)
    /\ UNCHANGED <<turnVars, resolverVars, worker, leaving, inputFrame>>

Interrupt ==
    /\ Take("interrupt")
    /\ CASE worker = "idle" -> Emit(<<Out("reply", 0)>>) /\ UNCHANGED <<turnVars, resolverVars>>
         [] worker = "local" -> TurnIsCancelled /\ UNCHANGED <<resolverVars, output>>
         [] worker = "remote" -> TurnIsCancelled /\ CancelAll /\ Emit(Notices)
    /\ UNCHANGED <<worker, leaving, inputFrame>>

\* A local turn does not look at the resolver.
Response ==
    /\ Take("response")
    /\ IF worker # "local" /\ Head(queue).what # "Ask" /\ Head(queue).id \in pending
       THEN ApplyResponse(Head(queue).id, Head(queue).what) /\ UNCHANGED output
       ELSE Emit(<<Out("reply", 0)>>) /\ UNCHANGED resolverVars
    /\ UNCHANGED <<turnVars, worker, leaving, inputFrame>>

KeepAlive ==
    /\ Take("keepAlive")
    /\ Emit(<<Out("keep_alive", 0)>>)
    /\ UNCHANGED <<turnVars, resolverVars, worker, leaving, inputFrame>>

\* Mutant: a lost transport only sets the flag of a remote turn.
TransportClosedUnreleased ==
    /\ Take("closed")
    /\ CASE worker = "idle" -> CancelAll /\ UNCHANGED <<turnVars, output>>
         [] worker = "local" -> UNCHANGED <<turnVars, resolverVars, output>>
         [] worker = "remote" -> TurnIsCancelled /\ UNCHANGED <<resolverVars, output>>
    /\ UNCHANGED <<worker, leaving, inputFrame>>

TransportClosed ==
    /\ Take("closed")
    /\ CASE worker = "idle" -> CancelAll /\ UNCHANGED <<turnVars, output>>
         [] worker = "local" -> UNCHANGED <<turnVars, resolverVars, output>>
         [] worker = "remote" -> TurnIsCancelled /\ CancelAll /\ Emit(Notices)
    /\ UNCHANGED <<worker, leaving, inputFrame>>

\* A running turn is cancelled and still reported; the worker returns after it.
Shutdown ==
    /\ Take("shutdown")
    /\ CASE worker = "idle" ->
                worker' = "returned" /\ CancelAll /\ UNCHANGED <<turnVars, leaving, output>>
         [] worker = "local" ->
                leaving' = TRUE /\ TurnIsCancelled /\ UNCHANGED <<worker, resolverVars, output>>
         [] worker = "remote" ->
                leaving' = TRUE /\ TurnIsCancelled /\ CancelAll /\ Emit(Notices) /\ UNCHANGED worker
    /\ UNCHANGED inputFrame

InputStep ==
    \/ RequestTaken \/ PromptNotSaved \/ SubmitDropped \/ UserTurnedAway \/ Interrupt \/ Response
    \/ KeepAlive \/ TransportClosed \/ Shutdown

ReplNext ==
    \/ Submits \/ CtrlC \/ Leaves \/ Joins \/ TurnStartShown \/ TurnEndShown
    \/ ClientSends \/ OutputForwarded \/ TransportLost \/ HostNotified \/ ReconnectsOrGivesUp
    \/ TurnStep \/ DriverAnswers \/ InputStep

\* The threads are scheduled and a driver answers; the select takes either branch sooner or later.
ReplSpec ==
    /\ ReplInit /\ [][ReplNext]_replVars
    /\ WF_replVars(TurnStartShown \/ TurnEndShown) /\ WF_replVars(Joins)
    /\ WF_replVars(TurnStep) /\ WF_replVars(DriverAnswers) /\ SF_replVars(InputStep)
    /\ WF_replVars(HostNotified)

--------------------------------------------------------------------------------
(***************************************************************************)
(* Properties.                                                             *)
(***************************************************************************)

\* Type invariant; a permission request is pending only while a remote turn waits for it.
ReplTypeOK ==
    /\ TurnTypeOK
    /\ ResolverTypeOK
    /\ ui \in {"reading", "joining", "exited"} /\ busy \in BOOLEAN /\ view \in Sessions
    /\ reports \in Seq(Reports)
    /\ queue \in Seq(Commands)
    /\ worker \in {"idle", "local", "remote", "returned"}
    /\ request \in AllRequests /\ leaving \in BOOLEAN /\ session \in Sessions
    /\ link \in {"off", "up", "closing", "down"}
    /\ output \in Seq([type : OutTypes, id : 0 .. MaxRequests])
    /\ losses \in 0 .. MaxLosses /\ submits \in 0 .. MaxSubmits /\ sent \in 0 .. MaxMessages
    /\ turn # "idle" => worker \in {"local", "remote"}
    /\ pending # {} => worker = "remote" /\ turn = "asking"

\* While the UI refuses input, something that will clear busy is on its way: a local submit in the
\* channel, a turn, or a report; also when submits are dropped and reports of other turns come in
\* between.
BusyHasAnEnd ==
    busy /\ ui = "reading" =>
        \/ worker \in {"local", "remote"}
        \/ \E i \in 1 .. Len(queue) : queue[i].kind = "local"
        \/ \E i \in 1 .. Len(reports) : reports[i].kind = "finished"

\* When the UI has handled the last report and the worker is idle, the UI shows the session of the
\* worker and takes input or waits for its own submit, whoever resumed another session.
ViewCatchesUp ==
    worker = "idle" /\ reports = <<>> =>
        /\ view = session
        /\ busy => \E i \in 1 .. Len(queue) : queue[i].kind = "local"

\* A turn of the terminal ends whatever the remote client does or fails to do.
LocalTurnEnds == (worker = "local") ~> (worker # "local")

\* What makes the worker deny the request that waits.
ReleaseIsComing ==
    \/ link = "closing"
    \/ \E i \in 1 .. Len(queue) : queue[i].kind \in {"interrupt", "closed", "shutdown"}

\* A permission request that waits when the transport is lost, the client interrupts or the REPL
\* shuts down does not wait for ever, whatever is queued before the notice.  (Another request the
\* same turn makes afterwards may.)
PendingRequestIsReleased ==
    \A id \in RequestIds : (id \in pending /\ ReleaseIsComing) ~> (id \notin pending)
=============================================================================
