------------------------------ MODULE RemoteSession ------------------------------
(***************************************************************************)
(* `clawin remote-control`: the standalone bridge host (a thread with one  *)
(* session and a permission resolver) behind a bridge worker that loses    *)
(* and regains its transport.                                              *)
(*                                                                         *)
(* The worker forwards what the client sends into the input channel and    *)
(* what the host emits out of the output channel; the output waits while   *)
(* the transport is down.  The select of the host is not biased: whenever  *)
(* the turn is suspended, or not polled yet, an input may be handled       *)
(* first, even if the turn could go on.                                    *)
(***************************************************************************)
EXTENDS TurnProtocol, PermissionResolver, Selection, SequencesExt

CONSTANTS
    MessageKinds,       \* what the client sends
    Answers,            \* the behaviors in its control responses
    MaxMessages,        \* bound: messages of the client
    MaxLosses           \* bound: losses of the transport

AllMessageKinds == {"user", "interrupt", "response", "keepAlive"}

ASSUME RemoteAssumption ==
    /\ MessageKinds \subseteq AllMessageKinds
    /\ Answers \subseteq {"Allow", "Deny", "Ask"}
    /\ MaxMessages \in Nat /\ MaxLosses \in Nat

VARIABLES
    link,           \* the worker: up, closing (loss not told to the host), down, ended
    losses,         \* how often the transport was lost
    input,          \* input_tx .. input_rx
    output,         \* output_tx .. output_rx
    host,           \* idle, turn, returned
    main,           \* waiting, dropping (Shutdown sent, joining), exited
    seen,           \* history: the permission requests the present client has received
    lost,           \* history: the messages a failing send took from the output
    emitted,        \* history: the messages sent to the output, by type and request
    sent, taken,    \* history: messages of the client, user messages the host took
    answered,       \* history: requests decided by a control_response
    executed        \* history: requests whose tool ran

linkVars == <<link, losses, seen, lost>>
historyVars == <<sent, taken, answered, executed>>
remoteVars == <<turnVars, resolverVars, linkVars, input, output, host, main, emitted, historyVars>>

InputMessage(kind, id, behavior) == [kind |-> kind, id |-> id, behavior |-> behavior]
Plain(kind) == InputMessage(kind, 0, "Ask")
ClientMessages ==
    {Plain(kind) : kind \in MessageKinds \ {"response"}}
    \cup {InputMessage("response", id, behavior) :
            id \in IF "response" \in MessageKinds THEN RequestIds ELSE {}, behavior \in Answers}
InputMessages == ClientMessages \cup {Plain("closed"), Plain("shutdown")}

OutTypes == {"result", "error", "busy", "no_active_turn", "unexpected_control_response",
             "invalid_input_message", "keep_alive", "control_request", "control_cancel_request"}
OutMessages == [type : OutTypes, id : 0 .. MaxRequests]
Out(type, id) == [type |-> type, id |-> id]

RemoteInit ==
    /\ TurnInit
    /\ ResolverInit
    /\ link = "up" /\ losses = 0
    /\ input = <<>> /\ output = <<>>
    /\ host = "idle"
    /\ main = "waiting"
    /\ seen = {} /\ lost = {}
    /\ emitted = <<>>
    /\ sent = 0 /\ taken = 0
    /\ answered = {} /\ executed = {}

--------------------------------------------------------------------------------
(***************************************************************************)
(* The client and the bridge worker: pump_transport and the reconnect loop.*)
(***************************************************************************)

frameOfLink == <<turnVars, resolverVars, host, emitted, taken, answered, executed>>

ClientSends ==
    /\ link = "up"
    /\ sent < MaxMessages
    /\ sent' = sent + 1
    /\ \E message \in ClientMessages : input' = Append(input, message)
    /\ UNCHANGED <<linkVars, output, main, frameOfLink>>

OutputForwarded ==
    /\ link = "up"
    /\ output # <<>>
    /\ output' = Tail(output)
    /\ seen' = IF Head(output).type = "control_request" THEN seen \cup {Head(output).id} ELSE seen
    /\ UNCHANGED <<link, losses, lost, input, main, sent, frameOfLink>>

\* poll_input reports the loss, or send_output fails with a message in its hands.
TransportLost ==
    /\ link = "up"
    /\ losses < MaxLosses
    /\ losses' = losses + 1
    /\ link' = "closing"
    /\ seen' = {}
    /\ \/ UNCHANGED <<output, lost>>
       \/ output # <<>> /\ output' = Tail(output) /\ lost' = lost \cup {Head(output)}
    /\ UNCHANGED <<input, main, sent, frameOfLink>>

HostNotified ==
    /\ link = "closing"
    /\ link' = "down"
    /\ input' = Append(input, Plain("closed"))
    /\ UNCHANGED <<losses, seen, lost, output, main, sent, frameOfLink>>

Reconnects ==
    /\ link = "down"
    /\ link' = "up"
    /\ UNCHANGED <<losses, seen, lost, input, output, main, sent, frameOfLink>>

GivesUp ==
    /\ link = "down"
    /\ link' = "ended"
    /\ UNCHANGED <<losses, seen, lost, input, output, main, sent, frameOfLink>>

\* wait_for_terminal_state returns; the last handle of the host is dropped and joins its thread.
HostDropped ==
    /\ link = "ended"
    /\ main = "waiting"
    /\ main' = "dropping"
    /\ input' = Append(input, Plain("shutdown"))
    /\ UNCHANGED <<linkVars, output, sent, frameOfLink>>

HostJoined ==
    /\ main = "dropping"
    /\ host = "returned"
    /\ main' = "exited"
    /\ UNCHANGED <<linkVars, input, output, sent, frameOfLink>>

--------------------------------------------------------------------------------
(***************************************************************************)
(* The turn: execute_request and the resolver.                             *)
(***************************************************************************)

Emit(messages) ==
    /\ output' = output \o messages
    /\ emitted' = emitted \o messages

frameOfTurn == <<linkVars, input, main, sent, taken, answered>>

TurnRuns ==
    /\ host = "turn"
    /\ TurnIsPolled \/ TurnAwaitsModel
    /\ UNCHANGED <<resolverVars, host, output, emitted, executed, frameOfTurn>>

DriverAnswers ==
    /\ host = "turn"
    /\ ModelAnswers
    /\ UNCHANGED <<resolverVars, host, output, emitted, executed, frameOfTurn>>

PermissionRequested ==
    /\ host = "turn"
    /\ TurnAsks
    /\ OpenRequest
    /\ Emit(<<Out("control_request", nextRequestId)>>)
    /\ UNCHANGED <<host, executed, frameOfTurn>>

PermissionDecided ==
    /\ host = "turn"
    /\ TurnResumes
    /\ \/ ReceiveDecision("Allow") /\ executed' = executed \cup {CurrentRequest}
       \/ ReceiveDecision("Deny") /\ UNCHANGED executed
    /\ UNCHANGED <<host, output, emitted, frameOfTurn>>

\* The future is ready: a result, or an error of the engine or of saving the turn.
TurnFinished ==
    /\ host = "turn"
    /\ turn \in {"begun", "running", "awaiting"}
    /\ TurnLeaves
    /\ host' = "idle"
    /\ \E type \in {"result", "error"} : Emit(<<Out(type, 0)>>)
    /\ UNCHANGED <<resolverVars, executed, frameOfTurn>>

TurnStep == TurnRuns \/ PermissionRequested \/ PermissionDecided \/ TurnFinished

--------------------------------------------------------------------------------
(***************************************************************************)
(* The host thread: standalone_host_worker, handle_idle_input and          *)
(* handle_active_input.                                                    *)
(***************************************************************************)

Take(kinds) ==
    /\ host # "returned"
    /\ turn # "running"
    /\ input # <<>>
    /\ Head(input).kind \in kinds
    /\ input' = Tail(input)
    /\ UNCHANGED <<linkVars, main, sent, executed>>

UserBeginsTurn ==
    /\ host = "idle"
    /\ Take({"user"})
    /\ TurnBegins
    /\ host' = "turn"
    /\ taken' = taken + 1
    /\ UNCHANGED <<resolverVars, output, emitted, answered>>

\* Mutant: the message waits for no answer.
UserIgnored ==
    /\ host = "turn"
    /\ Take({"user"})
    /\ taken' = taken + 1
    /\ UNCHANGED <<turnVars, resolverVars, host, output, emitted, answered>>

UserTurnedAway ==
    /\ host = "turn"
    /\ Take({"user"})
    /\ Emit(<<Out("busy", 0)>>)
    /\ taken' = taken + 1
    /\ UNCHANGED <<turnVars, resolverVars, host, answered>>

Notices == SetToSeq({Out("control_cancel_request", id) : id \in pending})

Interrupt ==
    /\ Take({"interrupt"})
    /\ IF host = "turn"
       THEN TurnIsCancelled /\ CancelAll /\ Emit(Notices)
       ELSE Emit(<<Out("no_active_turn", 0)>>) /\ UNCHANGED <<turnVars, resolverVars>>
    /\ UNCHANGED <<host, taken, answered>>

ResponseApplied ==
    /\ Take({"response"})
    /\ ApplyResponse(Head(input).id, Head(input).behavior)
    /\ answered' = answered \cup {Head(input).id}
    /\ UNCHANGED <<turnVars, host, output, emitted, taken>>

ResponseRefused ==
    /\ Take({"response"})
    /\ Head(input).behavior = "Ask" \/ Head(input).id \notin pending
    /\ Emit(<<Out(IF Head(input).behavior = "Ask" THEN "invalid_input_message"
                  ELSE "unexpected_control_response", 0)>>)
    /\ UNCHANGED <<turnVars, resolverVars, host, taken, answered>>

KeepAlive ==
    /\ Take({"keepAlive"})
    /\ Emit(<<Out("keep_alive", 0)>>)
    /\ UNCHANGED <<turnVars, resolverVars, host, taken, answered>>

\* Mutant: only the flag is set.
TransportClosedCancelsOnly ==
    /\ Take({"closed"})
    /\ IF host = "turn" THEN TurnIsCancelled ELSE UNCHANGED turnVars
    /\ UNCHANGED <<resolverVars, host, output, emitted, taken, answered>>

TransportClosed ==
    /\ Take({"closed"})
    /\ IF host = "turn" THEN TurnIsCancelled ELSE UNCHANGED turnVars
    /\ CancelAll
    /\ Emit(Notices)
    /\ UNCHANGED <<host, taken, answered>>

\* Mutant: a shutdown during a turn waits for the turn.
ShutdownWaits ==
    /\ Take({"shutdown"})
    /\ host' = IF host = "idle" THEN "returned" ELSE host
    /\ IF host = "turn" THEN TurnIsCancelled ELSE UNCHANGED turnVars
    /\ CancelAll
    /\ UNCHANGED <<output, emitted, taken, answered>>

\* The thread returns; the future of a running turn is dropped and nothing of it is saved.
Shutdown ==
    /\ Take({"shutdown"})
    /\ host' = "returned"
    /\ IF host = "turn"
       THEN TurnLeaves /\ Emit(Notices)
       ELSE UNCHANGED <<turnVars, output, emitted>>
    /\ CancelAll
    /\ UNCHANGED <<taken, answered>>

HostStep ==
    \/ UserBeginsTurn \/ UserTurnedAway \/ Interrupt \/ ResponseApplied \/ ResponseRefused
    \/ KeepAlive \/ TransportClosed \/ Shutdown

RemoteNext ==
    \/ ClientSends \/ OutputForwarded \/ TransportLost \/ HostNotified \/ Reconnects \/ GivesUp
    \/ HostDropped \/ HostJoined
    \/ TurnStep \/ DriverAnswers \/ HostStep

\* The threads are scheduled and a driver answers.  The random choice of the select takes the
\* input branch sooner or later, however often the turn is ready.  The client owes nothing.
RemoteSpec ==
    /\ RemoteInit /\ [][RemoteNext]_remoteVars
    /\ WF_remoteVars(TurnStep) /\ WF_remoteVars(DriverAnswers) /\ SF_remoteVars(HostStep)
    /\ WF_remoteVars(HostNotified) /\ WF_remoteVars(HostDropped) /\ WF_remoteVars(HostJoined)

--------------------------------------------------------------------------------
(***************************************************************************)
(* Properties.                                                             *)
(***************************************************************************)

\* Type invariant.
RemoteTypeOK ==
    /\ TurnTypeOK
    /\ ResolverTypeOK
    /\ link \in {"up", "closing", "down", "ended"} /\ losses \in 0 .. MaxLosses
    /\ input \in Seq(InputMessages) /\ output \in Seq(OutMessages)
    /\ host \in {"idle", "turn", "returned"}
    /\ (host = "turn") <=> (turn # "idle")
    /\ main \in {"waiting", "dropping", "exited"}
    /\ seen \subseteq RequestIds /\ lost \subseteq OutMessages
    /\ emitted \in Seq(OutMessages)
    /\ sent \in 0 .. MaxMessages /\ taken \in 0 .. MaxMessages
    /\ answered \subseteq RequestIds /\ executed \subseteq RequestIds

\* A permission request that waits is one the present client knows or will get: it is in the
\* output, or was delivered over the present transport; or else (the transport it was delivered to
\* or lost with is gone) the host is about to be told, and will deny it.
WaitingRequestReachesAClient ==
    \A id \in pending :
        \/ \E i \in 1 .. Len(output) : output[i] = Out("control_request", id)
        \/ id \in seen
        \/ link = "closing"
        \/ \E i \in 1 .. Len(input) : input[i].kind = "closed"

\* Every user message the host took is answered by exactly one result, error or busy message; only
\* the one whose turn runs, or was dropped by a shutdown, is open.
EveryRemoteUserIsAnswered ==
    LET replies == Len(Selected(emitted, [type : {"result", "error", "busy"},
                                          id : 0 .. MaxRequests])) IN
    IF host = "returned" THEN taken - replies \in {0, 1}
    ELSE taken = replies + IF host = "turn" THEN 1 ELSE 0

OpenQuestion == IF pending = {} THEN 0 ELSE CHOOSE id \in pending : TRUE

Protocol == INSTANCE PermissionProtocol WITH
    asked <- CurrentRequest,
    open <- OpenQuestion,
    granted <- {id \in RequestIds : oneshot[id] = "Allow"},
    executed <- executed

\* The host keeps the permission protocol across losses of the transport: answers of an old client
\* come late, requests are delivered again to none, and nothing runs without its own grant.
RemoteKeepsProtocol == Protocol!ProtocolSpec

\* When the bridge has given up the process exits, also in the middle of a turn that waits for a
\* permission nobody can give.
GivingUpEndsTheProcess == (link = "ended") ~> (main = "exited")
=============================================================================
