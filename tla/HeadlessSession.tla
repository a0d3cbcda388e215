----------------------------- MODULE HeadlessSession -----------------------------
(***************************************************************************)
(* A stream-json headless session: run_stream_json_mode, its input thread, *)
(* the structured permission resolver and one conversation engine.         *)
(*                                                                         *)
(* The client writes lines to stdin.  The input thread turns them into     *)
(* messages on an unbounded channel.  The host, on a single-threaded       *)
(* runtime, takes a message when it is idle; while a turn runs its select  *)
(* polls the turn first (biased), so a message is handled only while the   *)
(* turn awaits the model driver or a permission decision.                  *)
(***************************************************************************)
EXTENDS ConversationEngine, PermissionResolver

CONSTANTS
    LineKinds,      \* the kinds of lines the client writes, a subset of AllLineKinds
    Answers,        \* the behaviors the client puts into a control_response
    MaxLines        \* bound: lines the client writes

AllLineKinds == {"prompt", "command", "interrupt", "response", "keepAlive", "invalid"}

ASSUME HeadlessAssumption ==
    /\ LineKinds \subseteq AllLineKinds
    /\ Answers \subseteq Behaviors
    /\ MaxLines \in Nat

\* A control_response names any request, also one that was never made.
Lines ==
    {[kind |-> kind, id |-> 0, behavior |-> "Ask"] : kind \in LineKinds \ {"response"}}
    \cup (IF "response" \in LineKinds
          THEN [kind : {"response"}, id : RequestIds, behavior : Answers] ELSE {})

Eof == [kind |-> "eof", id |-> 0, behavior |-> "Ask"]

VARIABLES
    hostPhase,      \* idle, turn, joining (left the loop), exited, aborted (left with an error)
    inputClosed,    \* input_closed
    inputThread,    \* reading, eof (Eof sent), gone (the sender is dropped)
    channel,        \* the messages between the input thread and the host
    stdoutOpen,     \* FALSE once writes to stdout fail
    out,            \* history: the messages on stdout without session_started and stream_event
    linesWritten,   \* history: lines of the client
    usersRead,      \* history: user messages the host has taken
    answered,       \* history: requests decided by a control_response
    executed        \* history: requests whose tool has run

hostVars == <<hostPhase, inputClosed>>
inputVars == <<inputThread, channel, linesWritten>>
headlessVars == <<engineVars, resolverVars, hostVars, inputVars, stdoutOpen, out, usersRead,
                  answered, executed>>

OutTypes == {"result", "turn_error", "busy", "no_active_turn", "unexpected_control_response",
             "invalid_input_message", "keep_alive", "control_request", "control_cancel_request"}
OutMessage == [type : OutTypes, id : 0 .. MaxRequests]

HeadlessInit ==
    /\ EngineInit
    /\ ResolverInit
    /\ hostPhase = "idle"
    /\ inputClosed = FALSE
    /\ inputThread = "reading"
    /\ channel = <<>>
    /\ stdoutOpen = TRUE
    /\ out = <<>>
    /\ linesWritten = 0
    /\ usersRead = 0
    /\ answered = {}
    /\ executed = {}

--------------------------------------------------------------------------------
(***************************************************************************)
(* The client and the input thread.                                        *)
(***************************************************************************)

ClientWrites(line) ==
    /\ inputThread = "reading"
    /\ linesWritten < MaxLines
    /\ linesWritten' = linesWritten + 1
    /\ channel' = Append(channel, line)
    /\ UNCHANGED <<engineVars, resolverVars, hostVars, inputThread, stdoutOpen, out, usersRead,
                   answered, executed>>

\* The end of the file, or a read error after its "invalid" line.
InputEnds ==
    /\ inputThread = "reading"
    /\ inputThread' = "eof"
    /\ channel' = Append(channel, Eof)
    /\ UNCHANGED <<engineVars, resolverVars, hostVars, linesWritten, stdoutOpen, out, usersRead,
                   answered, executed>>

\* The thread returns and drops the sender.
InputThreadReturns ==
    /\ inputThread = "eof"
    /\ inputThread' = "gone"
    /\ UNCHANGED <<engineVars, resolverVars, hostVars, channel, linesWritten, stdoutOpen, out,
                   usersRead, answered, executed>>

\* The client stops reading: from now on writes to stdout fail.
StdoutCloses ==
    /\ stdoutOpen
    /\ stdoutOpen' = FALSE
    /\ UNCHANGED <<engineVars, resolverVars, hostVars, inputVars, out, usersRead, answered,
                   executed>>

--------------------------------------------------------------------------------
(***************************************************************************)
(* The turn.                                                               *)
(***************************************************************************)

\* The future of the turn is pending.
TurnIsBlocked ==
    \/ phase = "awaitingModel"
    \/ /\ phase = "asking"
       /\ CurrentRequest \in pending

EngineRuns ==
    /\ hostPhase = "turn"
    /\ InternalStep
    /\ UNCHANGED <<resolverVars, hostVars, inputVars, stdoutOpen, out, usersRead, answered,
                   executed>>

DriverAnswers ==
    /\ hostPhase = "turn"
    /\ DriverStep
    /\ UNCHANGED <<resolverVars, hostVars, inputVars, stdoutOpen, out, usersRead, answered,
                   executed>>

\* resolve writes a control_request before it waits.
PermissionRequested ==
    /\ hostPhase = "turn"
    /\ stdoutOpen
    /\ AskPermission
    /\ OpenRequest
    /\ out' = Append(out, [type |-> "control_request", id |-> nextRequestId])
    /\ UNCHANGED <<hostVars, inputVars, stdoutOpen, usersRead, answered, executed>>

PermissionRequestLost ==
    /\ hostPhase = "turn"
    /\ ~ stdoutOpen
    /\ AskPermission
    /\ OpenRequestFails
    /\ UNCHANGED <<hostVars, inputVars, stdoutOpen, out, usersRead, answered, executed>>

LostRequestFailsTurn ==
    /\ hostPhase = "turn"
    /\ PermissionResolverFails
    /\ oneshot[CurrentRequest] = "failed"
    /\ UNCHANGED <<resolverVars, hostVars, inputVars, stdoutOpen, out, usersRead, answered,
                   executed>>

PermissionDenied ==
    /\ hostPhase = "turn"
    /\ PermissionResolved("Deny")
    /\ ReceiveDecision("Deny")
    /\ UNCHANGED <<hostVars, inputVars, stdoutOpen, out, usersRead, answered, executed>>

PermissionAllowed ==
    /\ hostPhase = "turn"
    /\ PermissionResolved("Allow") \/ AllowedToolFails
    /\ ReceiveDecision("Allow")
    /\ executed' = executed \cup {CurrentRequest}
    /\ UNCHANGED <<hostVars, inputVars, stdoutOpen, out, usersRead, answered>>

\* The host writes the outcome.  It is an error if the engine failed, or if the
\* transcript of the turn could not be saved.
TurnReported ==
    /\ hostPhase = "turn"
    /\ phase = "idle"
    /\ IF stdoutOpen
       THEN /\ \E type \in {"result", "turn_error"} :
                 /\ outcome = "Failed" => type = "turn_error"
                 /\ out' = Append(out, [type |-> type, id |-> 0])
            /\ hostPhase' = IF inputClosed THEN "joining" ELSE "idle"
       ELSE /\ hostPhase' = "aborted"
            /\ UNCHANGED out
    /\ UNCHANGED <<engineVars, resolverVars, inputClosed, inputVars, stdoutOpen, usersRead,
                   answered, executed>>

--------------------------------------------------------------------------------
(***************************************************************************)
(* The host handles a message.                                             *)
(***************************************************************************)

Receive(kinds) ==
    /\ channel # <<>>
    /\ Head(channel).kind \in kinds
    /\ channel' = Tail(channel)
    /\ UNCHANGED <<inputThread, linesWritten>>

\* A message on stdout; if the write fails the error ends the session.
Reply(type) ==
    IF stdoutOpen
    THEN out' = Append(out, [type |-> type, id |-> 0]) /\ UNCHANGED hostPhase
    ELSE hostPhase' = "aborted" /\ UNCHANGED out

UserStartsTurn ==
    /\ hostPhase = "idle"
    /\ Receive({"prompt", "command"})
    /\ \E cfg \in Configs : Submit(Head(channel).kind, cfg)
    /\ hostPhase' = "turn"
    /\ usersRead' = usersRead + 1
    /\ UNCHANGED <<resolverVars, inputClosed, stdoutOpen, out, answered, executed>>

\* Saving the prompt failed: the submission returns before the engine runs.
PromptNotSaved ==
    /\ hostPhase = "idle"
    /\ Receive({"prompt"})
    /\ Reply("turn_error")
    /\ usersRead' = usersRead + 1
    /\ UNCHANGED <<engineVars, resolverVars, inputClosed, stdoutOpen, answered, executed>>

IdleReply ==
    CASE Head(channel).kind = "interrupt" -> "no_active_turn"
      [] Head(channel).kind = "response" -> "unexpected_control_response"
      [] Head(channel).kind = "keepAlive" -> "keep_alive"
      [] Head(channel).kind = "invalid" -> "invalid_input_message"

IdleMessage ==
    /\ hostPhase = "idle"
    /\ Receive({"interrupt", "response", "keepAlive", "invalid"})
    /\ Reply(IdleReply)
    /\ UNCHANGED <<engineVars, resolverVars, inputClosed, stdoutOpen, usersRead, answered, executed>>

\* Mutant: the end of the input is skipped while no turn runs, and the loop waits for more.
IdleEofSkipped ==
    /\ hostPhase = "idle"
    /\ Receive({"eof"})
    /\ inputClosed' = TRUE
    /\ UNCHANGED <<engineVars, resolverVars, hostPhase, stdoutOpen, out, usersRead, answered,
                   executed>>

IdleEof ==
    /\ hostPhase = "idle"
    /\ Receive({"eof"})
    /\ hostPhase' = "joining"
    /\ UNCHANGED <<engineVars, resolverVars, inputClosed, stdoutOpen, out, usersRead, answered,
                   executed>>

InputThreadJoined ==
    /\ hostPhase = "joining"
    /\ inputThread = "gone"
    /\ hostPhase' = "exited"
    /\ UNCHANGED <<engineVars, resolverVars, inputClosed, inputVars, stdoutOpen, out, usersRead,
                   answered, executed>>

\* While a turn runs.
TurnReceives(kinds) ==
    /\ hostPhase = "turn"
    /\ TurnIsBlocked
    /\ Receive(kinds)

\* Mutant: a user message during a turn is dropped.
UserIsIgnored ==
    /\ TurnReceives({"prompt", "command"})
    /\ usersRead' = usersRead + 1
    /\ UNCHANGED <<engineVars, resolverVars, hostVars, stdoutOpen, out, answered, executed>>

UserIsTurnedAway ==
    /\ TurnReceives({"prompt", "command"})
    /\ Reply("busy")
    /\ usersRead' = usersRead + 1
    /\ UNCHANGED <<engineVars, resolverVars, inputClosed, stdoutOpen, answered, executed>>

\* cancel_all(.., true) announces each request it denies; on a failed write it
\* returns the error and the session ends.
CancelNotices ==
    LET ids == Selected([id \in RequestIds |-> id], pending)
    IN  [n \in DOMAIN ids |-> [type |-> "control_cancel_request", id |-> ids[n]]]

\* Mutant: the denied requests are not announced.
InterruptWithoutNotice ==
    /\ TurnReceives({"interrupt"})
    /\ Cancel
    /\ CancelAll
    /\ UNCHANGED <<hostVars, stdoutOpen, out, usersRead, answered, executed>>

Interrupt ==
    /\ TurnReceives({"interrupt"})
    /\ Cancel
    /\ CancelAll
    /\ IF stdoutOpen \/ pending = {}
       THEN out' = out \o CancelNotices /\ UNCHANGED hostPhase
       ELSE hostPhase' = "aborted" /\ UNCHANGED out
    /\ UNCHANGED <<inputClosed, stdoutOpen, usersRead, answered, executed>>

ResponseAccepted ==
    /\ TurnReceives({"response"})
    /\ ApplyResponse(Head(channel).id, Head(channel).behavior)
    /\ answered' = answered \cup {Head(channel).id}
    /\ UNCHANGED <<engineVars, hostVars, stdoutOpen, out, usersRead, executed>>

ResponseUnmatched ==
    /\ TurnReceives({"response"})
    /\ Head(channel).behavior # "Ask"
    /\ Head(channel).id \notin pending
    /\ Reply("unexpected_control_response")
    /\ UNCHANGED <<engineVars, resolverVars, inputClosed, stdoutOpen, usersRead, answered, executed>>

\* apply_response refuses the behavior Ask with an error that ends the session.
ResponseWithoutDecision ==
    /\ TurnReceives({"response"})
    /\ Head(channel).behavior = "Ask"
    /\ hostPhase' = "aborted"
    /\ UNCHANGED <<engineVars, resolverVars, inputClosed, stdoutOpen, out, usersRead, answered,
                   executed>>

TurnMessage ==
    /\ TurnReceives({"keepAlive", "invalid"})
    /\ Reply(IdleReply)
    /\ UNCHANGED <<engineVars, resolverVars, inputClosed, stdoutOpen, usersRead, answered, executed>>

\* Pending requests are denied without a notice; the turn goes on.
TurnEof ==
    /\ TurnReceives({"eof"})
    /\ inputClosed' = TRUE
    /\ CancelAll
    /\ UNCHANGED <<engineVars, hostPhase, stdoutOpen, out, usersRead, answered, executed>>

\* recv on the closed channel is ready at once, every time it is polled.
ChannelClosed ==
    /\ hostPhase = "turn"
    /\ TurnIsBlocked
    /\ channel = <<>>
    /\ inputThread = "gone"
    /\ inputClosed' = TRUE
    /\ CancelAll
    /\ UNCHANGED <<engineVars, hostPhase, inputVars, stdoutOpen, out, usersRead, answered, executed>>

--------------------------------------------------------------------------------
(***************************************************************************)
(* The specification.                                                      *)
(***************************************************************************)

ClientStep ==
    \/ \E line \in Lines : ClientWrites(line)
    \/ InputEnds
    \/ StdoutCloses

TurnStep ==
    \/ EngineRuns \/ PermissionRequested \/ PermissionRequestLost \/ LostRequestFailsTurn
    \/ PermissionDenied \/ PermissionAllowed \/ TurnReported

HostStep ==
    \/ UserStartsTurn \/ PromptNotSaved \/ IdleMessage \/ IdleEof \/ InputThreadJoined
    \/ UserIsTurnedAway \/ Interrupt \/ ResponseAccepted \/ ResponseUnmatched
    \/ ResponseWithoutDecision \/ TurnMessage \/ TurnEof \/ ChannelClosed

HeadlessNext ==
    ClientStep \/ InputThreadReturns \/ TurnStep \/ DriverAnswers \/ HostStep

\* The runtime polls the turn and the channel, the input thread is scheduled, and
\* a model driver answers in the end.  The client owes nothing.
HeadlessFairness ==
    /\ WF_headlessVars(TurnStep)
    /\ WF_headlessVars(DriverAnswers)
    /\ WF_headlessVars(HostStep)
    /\ WF_headlessVars(InputThreadReturns)

HeadlessSpec == HeadlessInit /\ [][HeadlessNext]_headlessVars /\ HeadlessFairness

--------------------------------------------------------------------------------
(***************************************************************************)
(* Properties.                                                             *)
(***************************************************************************)

HostPhases == {"idle", "turn", "joining", "exited", "aborted"}

HeadlessTypeOK ==
    /\ EngineTypeOK
    /\ ResolverTypeOK
    /\ hostPhase \in HostPhases
    /\ inputClosed \in BOOLEAN
    /\ inputThread \in {"reading", "eof", "gone"}
    /\ channel \in Seq(Lines \cup {Eof})
    /\ stdoutOpen \in BOOLEAN
    /\ out \in Seq(OutMessage)
    /\ linesWritten \in Nat
    /\ usersRead \in Nat
    /\ answered \subseteq RequestIds
    /\ executed \subseteq RequestIds

\* No lost wakeup: a tool call that waits for a permission can still be woken.  Its
\* request is in the map, or its decision (or failure) is there to be received;
\* and the map holds no other request, so no decision goes to a call that left.
AskIsAnswerable ==
    /\ pending = {id \in RequestIds : oneshot[id] = "open"}
    /\ pending \subseteq {CurrentRequest}
    /\ hostPhase = "turn" =>
         /\ phase # "asking" => pending = {}
         /\ phase = "asking" =>
              /\ CurrentRequest \in RequestIds \ received
              /\ CurrentRequest \in pending \/ oneshot[CurrentRequest] \in {"Allow", "Deny", "failed"}

Count(types) == Len(Selected(out, [type : types, id : 0 .. MaxRequests]))

\* Every user message the host took is answered by exactly one result, error or
\* busy message, whatever else arrives in between; only the one whose turn still
\* runs is open.
EveryUserMessageIsAnswered ==
    hostPhase # "aborted" =>
        usersRead = Count({"result", "turn_error", "busy"}) + (IF hostPhase = "turn" THEN 1 ELSE 0)

CancelNoticeSent(id) ==
    \E n \in DOMAIN out : out[n] = [type |-> "control_cancel_request", id |-> id]

\* The client knows what became of each of its permission requests: a decided one
\* was decided by its own response, or it got a cancel notice (never both), or
\* the client has closed the input.  Only its own response can allow.
ClientKnowsTheDecision ==
    hostPhase # "aborted" =>
        \A id \in RequestIds : oneshot[id] \in {"Allow", "Deny"} =>
            /\ oneshot[id] = "Allow" => id \in answered
            /\ id \in answered => ~ CancelNoticeSent(id)
            /\ id \in answered \/ CancelNoticeSent(id) \/ inputClosed

OpenQuestion == IF pending = {} THEN 0 ELSE CHOOSE id \in pending : TRUE

Protocol == INSTANCE PermissionProtocol WITH
    asked <- CurrentRequest,
    open <- OpenQuestion,
    granted <- {id \in RequestIds : oneshot[id] = "Allow"},
    executed <- executed

\* The session keeps the permission protocol: one question at a time, decided at
\* most once, and a tool runs on it only after it was granted and only once,
\* across turns, interrupts, late and repeated responses and the end of input.
KeepsPermissionProtocol == Protocol!ProtocolSpec

\* Once the input has ended the process ends, even if a turn is running and asks
\* for permissions nobody can grant any more.
EofEndsTheSession ==
    (inputThread # "reading") ~> (hostPhase \in {"exited", "aborted"})

\* An interrupt that was handled during a turn ends that turn, without any help
\* from the client.
InterruptEndsTheTurn ==
    (hostPhase = "turn" /\ cancelled) ~> (hostPhase # "turn")

\* No line of the client ends the session with an error; only a failed write does.
NoLineAbortsTheSession ==
    hostPhase = "aborted" => ~ stdoutOpen

================================================================================
