--------------------------- MODULE ConversationEngine ---------------------------
(***************************************************************************)
(* The turn loop of one conversation: ConversationEngine::submit_message   *)
(* and what it calls.  A submission runs through model passes; a pass may  *)
(* request tool calls, which run one after the other, each of them after a *)
(* permission decision.  The model driver, the tools, the permission       *)
(* resolver and whoever cancels the turn are the environment.              *)
(*                                                                         *)
(* phase is where the future of submit_message is:                         *)
(*   idle           no submission is running                               *)
(*   started        events emitted, the flag is not read yet               *)
(*   commanding     a slash command is parsed and executed                 *)
(*   looping        at the head of the loop of handle_prompt               *)
(*   awaitingModel  awaiting ModelDriver::stream                           *)
(*   streaming      iterating over the events the driver returned          *)
(*   calling        between two pending tool calls                         *)
(*   executing      inside execute_with_resolver, before any question      *)
(*   asking         awaiting PermissionResolver::resolve                   *)
(*   deciding       after a pass without tool calls                        *)
(***************************************************************************)
EXTENDS TokenBudget, Transcript, Selection

CONSTANTS
    Configs,            \* the TurnLoopConfig values a caller may pass
    ToolClasses,        \* which kinds of tools the model calls, a subset of AllToolClasses
    UsageLevels,        \* the token totals a driver may report
    MaxStream,          \* bound: events in the answer of one model pass
    MaxSubmissions      \* bound: turns of the conversation

\* auto: permitted without a question (or a catalog tool); ask: the permission
\* check answers Ask.  Any call may turn out to be unknown or invalid instead.
AllToolClasses == {"auto", "ask"}

TurnLoopConfig ==
    [maxTurns : Nat, budget : Nat, allow : BOOLEAN, policy : CompactionPolicy]

ASSUME EngineAssumption ==
    /\ Configs # {}
    /\ Configs \subseteq TurnLoopConfig
    /\ ToolClasses \subseteq AllToolClasses
    /\ UsageLevels \subseteq Nat
    /\ MaxStream \in Nat
    /\ MaxSubmissions \in Nat

VARIABLES
    phase,
    transcript,
    turnCount,
    budgetTracker,
    pendingToolCall,        \* the call id, or NoCall
    lastAssistantMessage,   \* a message, or NoMessage
    config,                 \* the argument of the running or last accepted submission
    request,                \* "prompt" or "command"
    cancelled,              \* the CancellationFlag of the submission
    modelPasses,
    remaining,              \* how many events the driver's answer still holds
    assistantBuffer,        \* whether the pass has brought any text
    pendingCalls,
    finishReason,           \* "None" until ModelFinished
    usageTotal,             \* NoUsage until UsageUpdated
    outcome,                \* the StopReason of the last submission
    events,                 \* history: the events the last submission emitted, without
                            \* AssistantTextDelta and AssistantMessageCompleted
    continuedAt             \* history: the totals of this turn's continuations

coreVars == <<transcript, turnCount, budgetTracker, pendingToolCall, lastAssistantMessage>>
passVars == <<remaining, assistantBuffer, finishReason, usageTotal>>
engineVars ==
    <<phase, coreVars, config, request, cancelled, modelPasses, passVars,
      pendingCalls, outcome, events, continuedAt>>

Phases == {"idle", "started", "commanding", "looping", "awaitingModel", "streaming", "calling",
           "executing", "asking", "deciding"}
FinishReasons == {"Completed", "ToolUse", "Cancelled"}
StopReasons == {"CommandHandled", "Completed", "MaxTurnsReached", "BudgetStopped",
                "Cancelled", "Failed"}
Behaviors == {"Allow", "Ask", "Deny"}
ToolCall == [id : CallIds, tool : ToolClasses]
EventTypes == {"SessionStarted", "TurnStarted", "CommandParsed", "CommandExecuted",
               "ToolRequested", "ToolPermissionResolved", "ToolCompleted",
               "BudgetContinuationSuggested", "CompactionApplied", "EngineFailed",
               "TurnFinished", "SessionFinished"}
EventDetails == StopReasons \cup Behaviors \cup {""}
EngineEvent == [type : EventTypes, call : CallIds \cup {NoCall}, detail : EventDetails]

EventOf(type, call, detail) == [type |-> type, call |-> call, detail |-> detail]
PlainEvent(type) == EventOf(type, NoCall, "")

EngineInit ==
    /\ phase = "idle"
    /\ transcript = <<>>
    /\ turnCount = 0
    /\ budgetTracker = FreshTracker
    /\ pendingToolCall = NoCall
    /\ lastAssistantMessage = NoMessage
    /\ config \in Configs
    /\ request = "prompt"
    /\ cancelled = FALSE
    /\ modelPasses = 0
    /\ remaining = 0
    /\ assistantBuffer = FALSE
    /\ pendingCalls = <<>>
    /\ finishReason = "None"
    /\ usageTotal = NoUsage
    /\ outcome = "None"
    /\ events = <<>>
    /\ continuedAt = <<>>

--------------------------------------------------------------------------------
(***************************************************************************)
(* Pieces the actions share.                                               *)
(***************************************************************************)

\* The variables local to one pass are dropped when the pass or the turn ends.
DropPass ==
    /\ remaining' = 0
    /\ assistantBuffer' = FALSE
    /\ finishReason' = "None"
    /\ usageTotal' = NoUsage

\* The message is the event's cause: it carries the current turn and pass.
NewMessage(kind, call) == MessageOf(kind, turnCount, modelPasses, call)

CompactionEvents(message) ==
    IF AppendCompacts(transcript, message, config.policy)
    THEN <<PlainEvent("CompactionApplied")>> ELSE <<>>

\* Emit `before`, append the message, and emit CompactionApplied if it compacts.
AppendAndEmit(before, message) ==
    /\ transcript' = Appended(transcript, message, config.policy)
    /\ events' = events \o before \o CompactionEvents(message)

ClosingEvents(reason) ==
    <<EventOf("TurnFinished", NoCall, reason), EventOf("SessionFinished", NoCall, reason)>>

\* Every way out of a submission drops its local variables.
LeaveTurn(reason) ==
    /\ phase' = "idle"
    /\ outcome' = reason
    /\ pendingCalls' = <<>>
    /\ modelPasses' = 0
    /\ DropPass

\* finish_success, after the events in `before`.
FinishSuccess(before, reason) ==
    /\ LeaveTurn(reason)
    /\ events' = events \o before \o ClosingEvents(reason)
    /\ UNCHANGED <<coreVars, config, request, cancelled, continuedAt>>

\* The Err branch of submit_message: pendingToolCall and a ToolUse without a
\* result are left behind.
FailTurn(before) ==
    /\ LeaveTurn("Failed")
    /\ events' = events \o before \o <<PlainEvent("EngineFailed")>> \o ClosingEvents("Failed")
    /\ UNCHANGED <<coreVars, config, request, cancelled, continuedAt>>

--------------------------------------------------------------------------------
(***************************************************************************)
(* Entering a submission.                                                  *)
(***************************************************************************)

\* max_turns = 0 is refused before anything is emitted or changed.
SubmitRejected(cfg) ==
    /\ phase = "idle"
    /\ cfg.maxTurns = 0
    /\ outcome' = "Rejected"
    /\ UNCHANGED <<phase, coreVars, config, request, cancelled, modelPasses, passVars,
                   pendingCalls, events, continuedAt>>

\* Mutant: the last assistant message is not reset.
SubmitKeepsLastMessage(req, cfg) ==
    /\ phase = "idle"
    /\ cfg.maxTurns > 0
    /\ turnCount < MaxSubmissions
    /\ phase' = "started"
    /\ turnCount' = turnCount + 1
    /\ budgetTracker' = FreshTracker
    /\ pendingToolCall' = NoCall
    /\ config' = cfg
    /\ request' = req
    /\ cancelled' = FALSE
    /\ outcome' = "Running"
    /\ events' = <<PlainEvent("SessionStarted"), PlainEvent("TurnStarted")>>
    /\ continuedAt' = <<>>
    /\ UNCHANGED <<transcript, lastAssistantMessage, modelPasses, passVars, pendingCalls>>

\* Resets, begin_turn and the two opening events.  The caller made a new flag.
Submit(req, cfg) ==
    /\ phase = "idle"
    /\ cfg.maxTurns > 0
    /\ turnCount < MaxSubmissions
    /\ phase' = "started"
    /\ turnCount' = turnCount + 1
    /\ budgetTracker' = FreshTracker
    /\ pendingToolCall' = NoCall
    /\ lastAssistantMessage' = NoMessage
    /\ config' = cfg
    /\ request' = req
    /\ cancelled' = FALSE
    /\ outcome' = "Running"
    /\ events' = <<PlainEvent("SessionStarted"), PlainEvent("TurnStarted")>>
    /\ continuedAt' = <<>>
    /\ UNCHANGED <<transcript, modelPasses, passVars, pendingCalls>>

\* Another thread or task sets the flag while the submission runs.
Cancel ==
    /\ phase # "idle"
    /\ cancelled' = TRUE
    /\ UNCHANGED <<phase, coreVars, config, request, modelPasses, passVars,
                   pendingCalls, outcome, events, continuedAt>>

StartCancelled ==
    /\ phase = "started"
    /\ cancelled
    /\ FinishSuccess(<<>>, "Cancelled")

\* handle_slash_command, after the flag was read: parse, execute, finish.  None of it reads
\* the flag again, which another thread may set meanwhile.
BeginCommand ==
    /\ phase = "started"
    /\ ~ cancelled
    /\ request = "command"
    /\ phase' = "commanding"
    /\ UNCHANGED <<coreVars, config, request, cancelled, modelPasses, passVars, pendingCalls,
                   outcome, events, continuedAt>>

CommandDoesNotParse ==
    /\ phase = "commanding"
    /\ FailTurn(<<>>)

CommandFails ==
    /\ phase = "commanding"
    /\ FailTurn(<<PlainEvent("CommandParsed")>>)

CommandHandled ==
    /\ phase = "commanding"
    /\ FinishSuccess(<<PlainEvent("CommandParsed"), PlainEvent("CommandExecuted")>>,
                     "CommandHandled")

BeginPrompt ==
    /\ phase = "started"
    /\ ~ cancelled
    /\ request = "prompt"
    /\ phase' = "looping"
    /\ AppendAndEmit(<<>>, NewMessage("User", NoCall))
    /\ UNCHANGED <<turnCount, budgetTracker, pendingToolCall, lastAssistantMessage, config,
                   request, cancelled, modelPasses, passVars, pendingCalls, outcome, continuedAt>>

--------------------------------------------------------------------------------
(***************************************************************************)
(* The loop head and the model pass.                                       *)
(***************************************************************************)

LoopCancelled ==
    /\ phase = "looping"
    /\ cancelled
    /\ FinishSuccess(<<>>, "Cancelled")

MaxTurnsReached ==
    /\ phase = "looping"
    /\ ~ cancelled
    /\ modelPasses >= config.maxTurns
    /\ FinishSuccess(<<>>, "MaxTurnsReached")

\* Mutant: the loop head does not read the flag.
BeginModelPassUnchecked ==
    /\ phase = "looping"
    /\ modelPasses < config.maxTurns
    /\ phase' = "awaitingModel"
    /\ modelPasses' = modelPasses + 1
    /\ DropPass
    /\ UNCHANGED <<coreVars, config, request, cancelled, pendingCalls, outcome, events,
                   continuedAt>>

\* Mutant: one pass too many.
BeginModelPassOnceMore ==
    /\ phase = "looping"
    /\ ~ cancelled
    /\ modelPasses <= config.maxTurns
    /\ phase' = "awaitingModel"
    /\ modelPasses' = modelPasses + 1
    /\ DropPass
    /\ UNCHANGED <<coreVars, config, request, cancelled, pendingCalls, outcome, events,
                   continuedAt>>

BeginModelPass ==
    /\ phase = "looping"
    /\ ~ cancelled
    /\ modelPasses < config.maxTurns
    /\ phase' = "awaitingModel"
    /\ modelPasses' = modelPasses + 1
    /\ DropPass
    /\ UNCHANGED <<coreVars, config, request, cancelled, pendingCalls, outcome, events,
                   continuedAt>>

ModelStreamFails ==
    /\ phase = "awaitingModel"
    /\ FailTurn(<<>>)

\* The driver answers with a vector of n events.
ModelStreamReady ==
    /\ phase = "awaitingModel"
    /\ phase' = "streaming"
    /\ \E n \in 0 .. MaxStream : remaining' = n
    /\ UNCHANGED <<coreVars, config, request, cancelled, modelPasses, assistantBuffer,
                   finishReason, usageTotal, pendingCalls, outcome, events, continuedAt>>

\* The flag is read before each event, and only then.
StreamCancelled ==
    /\ phase = "streaming"
    /\ remaining > 0
    /\ cancelled
    /\ FinishSuccess(<<>>, "Cancelled")

\* Mutant: the iteration runs past the end of the answer.
NextStreamEventUnbounded ==
    /\ phase = "streaming"
    /\ ~ cancelled
    /\ remaining' = remaining - 1
    /\ UNCHANGED <<phase, coreVars, config, request, cancelled, modelPasses, outcome, continuedAt>>

NextStreamEvent ==
    /\ phase = "streaming"
    /\ remaining > 0
    /\ ~ cancelled
    /\ remaining' = remaining - 1
    /\ UNCHANGED <<phase, coreVars, config, request, cancelled, modelPasses, outcome, continuedAt>>

TextDelta ==
    /\ NextStreamEvent
    /\ assistantBuffer' = TRUE
    /\ UNCHANGED <<finishReason, usageTotal, pendingCalls, events>>

ToolCallRequested(call) ==
    /\ NextStreamEvent
    /\ pendingCalls' = Append(pendingCalls, call)
    /\ events' = Append(events, EventOf("ToolRequested", call.id, ""))
    /\ UNCHANGED <<assistantBuffer, finishReason, usageTotal>>

UsageUpdated(total) ==
    /\ NextStreamEvent
    /\ usageTotal' = total
    /\ UNCHANGED <<assistantBuffer, finishReason, pendingCalls, events>>

\* Announces the text so far; more may follow.
AssistantMessageFinished ==
    /\ NextStreamEvent
    /\ UNCHANGED <<assistantBuffer, finishReason, usageTotal, pendingCalls, events>>

ModelFinished(reason) ==
    /\ NextStreamEvent
    /\ finishReason' = reason
    /\ UNCHANGED <<assistantBuffer, usageTotal, pendingCalls, events>>

ModelError ==
    /\ phase = "streaming"
    /\ remaining > 0
    /\ ~ cancelled
    /\ FailTurn(<<>>)

StreamWithoutFinish ==
    /\ phase = "streaming"
    /\ remaining = 0
    /\ finishReason = "None"
    /\ FailTurn(<<>>)

\* Mutant: the finish reason, not the list of calls, decides what comes next.
StreamEndsByReason ==
    /\ phase = "streaming"
    /\ remaining = 0
    /\ finishReason # "None"
    /\ phase' = IF finishReason = "ToolUse" THEN "calling" ELSE "deciding"
    /\ IF assistantBuffer
       THEN /\ lastAssistantMessage' = NewMessage("Assistant", NoCall)
            /\ AppendAndEmit(<<>>, NewMessage("Assistant", NoCall))
       ELSE UNCHANGED <<lastAssistantMessage, transcript, events>>
    /\ UNCHANGED <<turnCount, budgetTracker, pendingToolCall, config, request, cancelled,
                   modelPasses, remaining, assistantBuffer, finishReason, usageTotal,
                   pendingCalls, outcome, continuedAt>>

\* The text of the pass, if there is any, is stored.
StreamEnds ==
    /\ phase = "streaming"
    /\ remaining = 0
    /\ finishReason # "None"
    /\ phase' = IF pendingCalls # <<>> THEN "calling" ELSE "deciding"
    /\ IF assistantBuffer
       THEN /\ lastAssistantMessage' = NewMessage("Assistant", NoCall)
            /\ AppendAndEmit(<<>>, NewMessage("Assistant", NoCall))
       ELSE UNCHANGED <<lastAssistantMessage, transcript, events>>
    /\ UNCHANGED <<turnCount, budgetTracker, pendingToolCall, config, request, cancelled,
                   modelPasses, remaining, assistantBuffer, finishReason, usageTotal,
                   pendingCalls, outcome, continuedAt>>

--------------------------------------------------------------------------------
(***************************************************************************)
(* The pending tool calls, one after the other.  The flag is not read here. *)
(***************************************************************************)

BeginToolCall ==
    /\ phase = "calling"
    /\ pendingCalls # <<>>
    /\ phase' = "executing"
    /\ pendingToolCall' = Head(pendingCalls).id
    /\ AppendAndEmit(<<>>, NewMessage("ToolUse", Head(pendingCalls).id))
    /\ UNCHANGED <<turnCount, budgetTracker, lastAssistantMessage, config, request, cancelled,
                   modelPasses, passVars, pendingCalls, outcome, continuedAt>>

\* The execution returned: two events, the result, and on to the next call.
CompleteToolCall(behavior) ==
    LET call == Head(pendingCalls).id
    IN  /\ phase' = "calling"
        /\ pendingCalls' = Tail(pendingCalls)
        /\ AppendAndEmit(<<EventOf("ToolPermissionResolved", call, behavior),
                           EventOf("ToolCompleted", call, "")>>,
                         NewMessage("ToolResult", call))
        /\ UNCHANGED <<turnCount, budgetTracker, pendingToolCall, lastAssistantMessage, config,
                       request, cancelled, modelPasses, passVars, outcome, continuedAt>>

\* Unknown tool, invalid input, a failed permission check or a failed handler.
ToolCallFails ==
    /\ phase = "executing"
    /\ FailTurn(<<>>)

\* Permitted by the tool's own check, or executed by a catalog.
ToolRuns ==
    /\ phase = "executing"
    /\ Head(pendingCalls).tool = "auto"
    /\ CompleteToolCall("Allow")

AskPermission ==
    /\ phase = "executing"
    /\ Head(pendingCalls).tool = "ask"
    /\ phase' = "asking"
    /\ UNCHANGED <<coreVars, config, request, cancelled, modelPasses, passVars, pendingCalls,
                   outcome, events, continuedAt>>

\* The resolver answered.  Only Allow runs the tool, which may still fail; any
\* other answer becomes a permission_denied result.
PermissionResolved(behavior) ==
    /\ phase = "asking"
    /\ CompleteToolCall(behavior)

AllowedToolFails ==
    /\ phase = "asking"
    /\ FailTurn(<<>>)

\* The resolver itself returned an error.
PermissionResolverFails ==
    /\ phase = "asking"
    /\ FailTurn(<<>>)

ToolCallsDone ==
    /\ phase = "calling"
    /\ pendingCalls = <<>>
    /\ phase' = "looping"
    /\ pendingToolCall' = NoCall
    /\ DropPass
    /\ UNCHANGED <<transcript, turnCount, budgetTracker, lastAssistantMessage, config, request,
                   cancelled, modelPasses, pendingCalls, outcome, events, continuedAt>>

--------------------------------------------------------------------------------
(***************************************************************************)
(* After a pass without tool calls.                                        *)
(***************************************************************************)

ModelCancelled ==
    /\ phase = "deciding"
    /\ finishReason = "Cancelled"
    /\ FinishSuccess(<<>>, "Cancelled")

\* Mutant: a tool use without a call simply asks the model again.
ToolUseWithoutCallRetries ==
    /\ phase = "deciding"
    /\ finishReason = "ToolUse"
    /\ phase' = "looping"
    /\ DropPass
    /\ UNCHANGED <<coreVars, config, request, cancelled, modelPasses, pendingCalls, outcome,
                   events, continuedAt>>

\* Mutant: the same request is sent again, outside of the count of passes.
ToolUseWithoutCallAsksAgain ==
    /\ phase = "deciding"
    /\ finishReason = "ToolUse"
    /\ phase' = "awaitingModel"
    /\ DropPass
    /\ UNCHANGED <<coreVars, config, request, cancelled, modelPasses, pendingCalls, outcome,
                   events, continuedAt>>

ToolUseWithoutCall ==
    /\ phase = "deciding"
    /\ finishReason = "ToolUse"
    /\ FailTurn(<<>>)

TurnBudgetDecision ==
    BudgetDecision(budgetTracker, config.budget, usageTotal, config.allow)

NextTracker ==
    TrackerAfter(budgetTracker, config.budget, usageTotal, config.allow)

\* The model is asked to go on with a System message.
BudgetContinues ==
    /\ phase = "deciding"
    /\ finishReason = "Completed"
    /\ TurnBudgetDecision = "continue"
    /\ phase' = "looping"
    /\ budgetTracker' = NextTracker
    /\ continuedAt' = Append(continuedAt, usageTotal)
    /\ AppendAndEmit(<<PlainEvent("BudgetContinuationSuggested")>>,
                     NewMessage("System", NoCall))
    /\ DropPass
    /\ UNCHANGED <<turnCount, pendingToolCall, lastAssistantMessage, config, request, cancelled,
                   modelPasses, pendingCalls, outcome>>

\* BudgetStopped, or Completed when the budget does not apply.
TurnEnds ==
    /\ phase = "deciding"
    /\ finishReason = "Completed"
    /\ TurnBudgetDecision # "continue"
    /\ budgetTracker' = NextTracker
    /\ LET reason == IF TurnBudgetDecision = "stop" THEN "BudgetStopped" ELSE "Completed"
       IN  /\ LeaveTurn(reason)
           /\ events' = events \o ClosingEvents(reason)
    /\ UNCHANGED <<transcript, turnCount, pendingToolCall, lastAssistantMessage, config, request,
                   cancelled, continuedAt>>

--------------------------------------------------------------------------------
(***************************************************************************)
(* The specification.                                                      *)
(***************************************************************************)

\* The steps the future of submit_message takes by itself when it is polled, up
\* to the next await.
InternalStep ==
    \/ StartCancelled
    \/ BeginCommand \/ CommandDoesNotParse \/ CommandFails \/ CommandHandled
    \/ BeginPrompt
    \/ LoopCancelled \/ MaxTurnsReached \/ BeginModelPass
    \/ StreamCancelled
    \/ TextDelta
    \/ \E call \in ToolCall : ToolCallRequested(call)
    \/ \E total \in UsageLevels : UsageUpdated(total)
    \/ AssistantMessageFinished
    \/ \E reason \in FinishReasons : ModelFinished(reason)
    \/ ModelError \/ StreamWithoutFinish \/ StreamEnds
    \/ BeginToolCall \/ ToolCallFails \/ ToolRuns \/ ToolCallsDone
    \/ ModelCancelled \/ ToolUseWithoutCall \/ BudgetContinues \/ TurnEnds

EngineStep == InternalStep \/ AskPermission

\* The driver's future resolves.
DriverStep == ModelStreamFails \/ ModelStreamReady

\* The resolver's future resolves.
ResolverStep ==
    \/ \E behavior \in Behaviors : PermissionResolved(behavior)
    \/ AllowedToolFails
    \/ PermissionResolverFails

\* The owner of the engine.
CallerStep ==
    \/ \E cfg \in Configs : SubmitRejected(cfg)
    \/ \E req \in {"prompt", "command"}, cfg \in Configs : Submit(req, cfg)
    \/ Cancel

EngineNext == EngineStep \/ DriverStep \/ ResolverStep \/ CallerStep

\* A polled future runs, and the driver and the resolver answer in the end.
\* Nobody has to submit or to cancel.
EngineFairness ==
    /\ WF_engineVars(EngineStep)
    /\ WF_engineVars(DriverStep)
    /\ WF_engineVars(ResolverStep)

EngineSpec == EngineInit /\ [][EngineNext]_engineVars /\ EngineFairness

--------------------------------------------------------------------------------
(***************************************************************************)
(* Properties.                                                             *)
(***************************************************************************)

EngineTypeOK ==
    /\ phase \in Phases
    /\ transcript \in Seq(Message)
    /\ turnCount \in Nat
    /\ budgetTracker \in BudgetTracker
    /\ pendingToolCall \in CallIds \cup {NoCall}
    /\ lastAssistantMessage \in Message \cup {NoMessage}
    /\ config \in Configs
    /\ request \in {"prompt", "command"}
    /\ cancelled \in BOOLEAN
    /\ modelPasses \in Nat
    /\ remaining \in 0 .. MaxStream
    /\ assistantBuffer \in BOOLEAN
    /\ pendingCalls \in Seq(ToolCall)
    /\ finishReason \in FinishReasons \cup {"None"}
    /\ usageTotal \in UsageLevels \cup {NoUsage}
    /\ outcome \in StopReasons \cup {"None", "Running", "Rejected"}
    /\ events \in Seq(EngineEvent)
    /\ continuedAt \in Seq(Nat)

\* A tool result directly follows the use it answers, or the summary that
\* replaced that use.  A tool use directly precedes its result; it stays without
\* one only at the end of the transcript, or before the prompt of a later turn
\* when its own turn failed in the middle of the call.
ToolPairing ==
    \A i \in DOMAIN transcript :
        /\ transcript[i].kind = "ToolResult" =>
             /\ i > 1
             /\ \/ transcript[i - 1] = [transcript[i] EXCEPT !.kind = "ToolUse"]
                \/ transcript[i - 1].kind = "CompactSummary"
        /\ (transcript[i].kind = "ToolUse" /\ i < Len(transcript)) =>
             \/ transcript[i + 1] = [transcript[i] EXCEPT !.kind = "ToolResult"]
             \/ /\ transcript[i + 1].kind = "User"
                /\ transcript[i + 1].turn > transcript[i].turn

\* The model is never asked to answer itself or an open tool use: the transcript
\* of a request ends with a prompt, a tool result or a continuation message (or,
\* if the policy keeps no message at all, with a summary).
RequestEndsWithInput ==
    phase = "awaitingModel" =>
        /\ transcript # <<>>
        /\ \/ transcript[Len(transcript)].kind \in {"User", "ToolResult", "System"}
           \/ config.policy.enabled /\ config.policy.keep = 0

\* While a prompt runs under a compaction policy the transcript never holds more
\* than the trigger, or than the messages kept and one summary, however long it
\* was before this submission.
CompactionBound ==
    (phase \notin {"idle", "started", "commanding"} /\ config.policy.enabled) =>
        \/ Len(transcript) <= config.policy.trigger
        \/ Len(transcript) <= config.policy.keep + 1

IsPrefixOf(s, t) == Len(s) <= Len(t) /\ \A i \in DOMAIN s : s[i] = t[i]

CallsOf(type) ==
    LET ofType == Selected(events, [type : {type}, call : CallIds \cup {NoCall},
                                    detail : EventDetails])
    IN  [i \in DOMAIN ofType |-> ofType[i].call]

\* The calls of a turn are permitted and completed one by one in the order the
\* model requested them; a turn that neither failed nor was cancelled has
\* completed every call.
CallsCompleteInOrder ==
    /\ CallsOf("ToolPermissionResolved") = CallsOf("ToolCompleted")
    /\ IsPrefixOf(CallsOf("ToolCompleted"), CallsOf("ToolRequested"))
    /\ outcome \in {"Completed", "BudgetStopped", "MaxTurnsReached"} =>
           CallsOf("ToolCompleted") = CallsOf("ToolRequested")

\* The final assistant message of an outcome is the last one this very turn has
\* stored: never one of an earlier turn, and none when this turn has none.
FinalMessageIsOfThisTurn ==
    (phase # "idle" \/ outcome \in StopReasons) /\ ~ config.policy.enabled =>
        LET ofTurn == {i \in DOMAIN transcript :
                          /\ transcript[i].kind = "Assistant"
                          /\ transcript[i].turn = turnCount}
        IN  IF ofTurn = {}
            THEN lastAssistantMessage = NoMessage
            ELSE \E i \in ofTurn : /\ \A j \in ofTurn : j <= i
                                   /\ lastAssistantMessage = transcript[i]

\* From the fourth continuation of a turn on, one of the last two passes has
\* brought DiminishingThreshold tokens or more.
DiminishingReturnsStop ==
    LET Gain(n) == SaturatingSub(continuedAt[n], continuedAt[n - 1])
    IN  \A n \in 4 .. Len(continuedAt) :
            Gain(n) >= DiminishingThreshold \/ Gain(n - 1) >= DiminishingThreshold

\* A turn is continued only below nine tenths of its budget, in exact arithmetic,
\* although the code compares saturated products.
ContinuesOnlyBelowBudget ==
    \A n \in DOMAIN continuedAt : 10 * continuedAt[n] < 9 * config.budget

\* Once the flag is set no model pass and no slash command starts, and the turn reports
\* Cancelled (or Failed), unless the whole answer of the model was already in or a command was
\* already executing: a command is not interrupted, and is reported as handled.
CancelStopsTheTurn ==
    [][cancelled =>
         /\ phase' \in {"awaitingModel", "commanding"} => phase' = phase
         /\ (phase # "idle" /\ phase' = "idle") =>
                \/ outcome' \in {"Cancelled", "Failed"}
                \/ phase = "deciding"
                \/ phase = "commanding" /\ outcome' = "CommandHandled"]_engineVars

\* Every submission comes to an end: the passes are bounded by max_turns.
TurnTerminates == (phase # "idle") ~> (phase = "idle")

\* Where a host finds the future of the submission.
TurnPhase ==
    CASE phase = "idle" -> "idle"
      [] phase = "started" -> "begun"
      [] phase = "awaitingModel" -> "awaiting"
      [] phase = "asking" -> "asking"
      [] OTHER -> "running"

Turn == INSTANCE TurnProtocol WITH
    turn <- TurnPhase,
    passes <- modelPasses,
    limit <- config.maxTurns,
    Limits <- {cfg.maxTurns : cfg \in Configs}

\* The engine is the turn the remote hosts are built around: a prompt it was given awaits the model
\* at most max_turns times, never with the flag set, and asks only from within a pass.
KeepsTurnProtocol == Turn!TurnSpec

================================================================================
