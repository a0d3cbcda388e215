----------------------- MODULE ConversationEngine_proofs -----------------------
(***************************************************************************)
(* Proofs about ConversationEngine, for every value of its constants.      *)
(***************************************************************************)
EXTENDS ConversationEngine, Selection_proofs, SequenceTheorems, TLAPS

\* Appending a message, with or without compaction, keeps a transcript a sequence
\* of messages.
LEMMA AppendedType ==
    ASSUME NEW t \in Seq(Message), NEW m \in Message, NEW policy \in CompactionPolicy
    PROVE  Appended(t, m, policy) \in Seq(Message)
<1> DEFINE msgs == Append(t, m)
           summary == PlainMessage("CompactSummary", m.turn, m.pass)
           replaced == ReplacedCount(msgs, policy)
<1>1. msgs \in Seq(Message)
    OBVIOUS
<1>2. summary \in Message
    BY DEF Message, PlainMessage, MessageOf, MessageKinds
<1>3. replaced \in Nat /\ replaced <= Len(msgs)
    BY <1>1 DEF ReplacedCount, CompactionPolicy
<1>4. SubSeq(msgs, replaced + 1, Len(msgs)) \in Seq(Message)
    BY <1>1, <1>3
<1>5. <<summary>> \in Seq(Message)
    BY <1>2
<1>6. <<summary>> \o SubSeq(msgs, replaced + 1, Len(msgs)) \in Seq(Message)
    BY <1>4, <1>5, ConcatProperties
<1> QED
    BY <1>1, <1>6 DEF Appended, Compacted

\* append_message_and_maybe_compact leaves at most the trigger, or the messages
\* kept and one summary, whatever the length was before.
LEMMA AppendedBound ==
    ASSUME NEW t \in Seq(Message), NEW m \in Message, NEW policy \in CompactionPolicy,
           policy.enabled
    PROVE  \/ Len(Appended(t, m, policy)) <= policy.trigger
           \/ Len(Appended(t, m, policy)) <= policy.keep + 1
<1> DEFINE msgs == Append(t, m)
           summary == PlainMessage("CompactSummary", m.turn, m.pass)
           replaced == ReplacedCount(msgs, policy)
           kept == SubSeq(msgs, replaced + 1, Len(msgs))
<1>1. msgs \in Seq(Message) /\ Len(msgs) \in Nat
    OBVIOUS
<1>2. policy.trigger \in Nat /\ policy.keep \in Nat
    BY DEF CompactionPolicy
<1>3. CASE replaced = 0
    <2>1. Appended(t, m, policy) = msgs
        BY <1>3 DEF Appended, Compacted
    <2>2. Len(msgs) <= policy.trigger \/ policy.keep >= Len(msgs)
        BY <1>1, <1>2, <1>3 DEF ReplacedCount
    <2> QED
        BY <1>1, <1>2, <2>1, <2>2
<1>4. CASE replaced # 0
    <2>1. replaced = Len(msgs) - policy.keep /\ replaced \in Nat
        BY <1>1, <1>2, <1>4 DEF ReplacedCount
    <2>2. kept \in Seq(Message) /\ Len(kept) = policy.keep
        BY <1>1, <1>2, <2>1
    <2>3. Appended(t, m, policy) = <<summary>> \o kept
        BY <1>4 DEF Appended, Compacted
    <2>4. <<summary>> \in Seq(Message) /\ Len(<<summary>>) = 1
        BY DEF Message, PlainMessage, MessageOf, MessageKinds
    <2>5. Len(<<summary>> \o kept) = 1 + policy.keep
        BY <2>2, <2>4, ConcatProperties
    <2>6. Len(Appended(t, m, policy)) = 1 + policy.keep
        BY <2>3, <2>5, Zenon
    <2> QED
        BY <1>2, <2>6
<1> QED
    BY <1>3, <1>4

--------------------------------------------------------------------------------
(***************************************************************************)
(* Type correctness.  A tool call that executes or asks is the head of the *)
(* pending calls, which therefore are not empty.                           *)
(***************************************************************************)

CallInHand == phase \in {"executing", "asking"} => pendingCalls # <<>>

EngineTyping == EngineTypeOK /\ CallInHand

\* Every message the engine makes is a message.
LEMMA NewMessageType ==
    ASSUME EngineTypeOK, NEW kind \in MessageKinds, NEW call \in CallIds \cup {NoCall}
    PROVE  NewMessage(kind, call) \in Message
    BY DEF EngineTypeOK, NewMessage, MessageOf, Message

\* Every event the engine emits is an event.
LEMMA EventOfType ==
    ASSUME NEW type \in EventTypes, NEW call \in CallIds \cup {NoCall},
           NEW detail \in EventDetails
    PROVE  EventOf(type, call, detail) \in EngineEvent
    BY DEF EventOf, EngineEvent

LEMMA PlainEventType ==
    ASSUME NEW type \in EventTypes
    PROVE  PlainEvent(type) \in EngineEvent
    BY EventOfType DEF PlainEvent, EventDetails

LEMMA ConfigTypes ==
    ASSUME EngineTypeOK
    PROVE  /\ config \in TurnLoopConfig
           /\ config.policy \in CompactionPolicy
           /\ config.budget \in Nat
    BY EngineAssumption DEF EngineTypeOK, TurnLoopConfig

\* Appending a message after some events keeps the types of both histories.
LEMMA AppendAndEmitType ==
    ASSUME EngineTypeOK, NEW before \in Seq(EngineEvent), NEW m \in Message,
           AppendAndEmit(before, m)
    PROVE  transcript' \in Seq(Message) /\ events' \in Seq(EngineEvent)
<1>1. transcript' \in Seq(Message)
    BY AppendedType, ConfigTypes DEF EngineTypeOK, AppendAndEmit
<1>2. CompactionEvents(m) \in Seq(EngineEvent)
    <2>1. PlainEvent("CompactionApplied") \in EngineEvent
        BY PlainEventType DEF EventTypes
    <2> QED
        BY <2>1 DEF CompactionEvents
<1>3. events \o before \in Seq(EngineEvent)
    BY ConcatProperties DEF EngineTypeOK
<1>4. events' \in Seq(EngineEvent)
    BY <1>2, <1>3, ConcatProperties DEF AppendAndEmit
<1> QED
    BY <1>1, <1>4

\* The closing events are events.
LEMMA ClosingEventsType ==
    ASSUME NEW reason \in StopReasons
    PROVE  ClosingEvents(reason) \in Seq(EngineEvent)
<1>1. EventOf("TurnFinished", NoCall, reason) \in EngineEvent
    BY EventOfType DEF EventTypes, EventDetails
<1>2. EventOf("SessionFinished", NoCall, reason) \in EngineEvent
    BY EventOfType DEF EventTypes, EventDetails
<1> QED
    BY <1>1, <1>2 DEF ClosingEvents

\* Leaving a turn in any way re-establishes the typing of what it resets.
LEMMA LeaveTurnType ==
    ASSUME NEW reason \in StopReasons, LeaveTurn(reason)
    PROVE  /\ phase' = "idle"
           /\ outcome' \in StopReasons
           /\ pendingCalls' \in Seq(ToolCall)
           /\ modelPasses' = 0
           /\ remaining' \in 0 .. MaxStream
           /\ assistantBuffer' \in BOOLEAN
           /\ finishReason' = "None"
           /\ usageTotal' = NoUsage
<1>1. pendingCalls' \in Seq(ToolCall)
    BY EmptySeq DEF LeaveTurn
<1>2. remaining' \in 0 .. MaxStream
    BY EngineAssumption DEF LeaveTurn, DropPass
<1> QED
    BY <1>1, <1>2 DEF LeaveTurn, DropPass

\* finish_success keeps the typing.
LEMMA FinishSuccessType ==
    ASSUME EngineTyping, NEW before \in Seq(EngineEvent), NEW reason \in StopReasons,
           FinishSuccess(before, reason)
    PROVE  EngineTyping'
<1>1. LeaveTurn(reason)
    BY DEF FinishSuccess
<1>2. events' \in Seq(EngineEvent)
    <2>1. events \o before \in Seq(EngineEvent)
        BY ConcatProperties DEF EngineTyping, EngineTypeOK
    <2> QED
        BY <2>1, ClosingEventsType, ConcatProperties DEF FinishSuccess
<1> QED
    BY <1>1, <1>2, LeaveTurnType
    DEF FinishSuccess, EngineTyping, EngineTypeOK, CallInHand, coreVars, Phases

\* The error branch keeps the typing.
LEMMA FailTurnType ==
    ASSUME EngineTyping, NEW before \in Seq(EngineEvent), FailTurn(before)
    PROVE  EngineTyping'
<1>1. LeaveTurn("Failed") /\ "Failed" \in StopReasons
    BY DEF FailTurn, StopReasons
<1>2. events' \in Seq(EngineEvent)
    <2>1. events \o before \in Seq(EngineEvent)
        BY ConcatProperties DEF EngineTyping, EngineTypeOK
    <2>2. <<PlainEvent("EngineFailed")>> \in Seq(EngineEvent)
        BY PlainEventType DEF EventTypes
    <2>3. (events \o before) \o <<PlainEvent("EngineFailed")>> \in Seq(EngineEvent)
        BY <2>1, <2>2, ConcatProperties
    <2>4. ClosingEvents("Failed") \in Seq(EngineEvent)
        BY <1>1, ClosingEventsType
    <2> QED
        BY <2>3, <2>4, ConcatProperties DEF FailTurn
<1> QED
    BY <1>1, <1>2, LeaveTurnType
    DEF FailTurn, EngineTyping, EngineTypeOK, CallInHand, coreVars, Phases


LEMMA PairSeq ==
    ASSUME NEW S, NEW a \in S, NEW b \in S
    PROVE  <<a, b>> \in Seq(S)
    OBVIOUS

LEMMA DropPassType ==
    ASSUME DropPass
    PROVE  /\ remaining' \in 0 .. MaxStream
           /\ assistantBuffer' = FALSE
           /\ finishReason' = "None"
           /\ usageTotal' = NoUsage
<1>1. remaining' \in 0 .. MaxStream
    BY EngineAssumption DEF DropPass
<1> QED
    BY <1>1 DEF DropPass

\* The end of a tool call keeps the typing.
LEMMA CompleteToolCallType ==
    ASSUME EngineTyping, pendingCalls # <<>>, NEW behavior \in Behaviors,
           CompleteToolCall(behavior)
    PROVE  EngineTyping'
<1> DEFINE call == Head(pendingCalls).id
           before == <<EventOf("ToolPermissionResolved", call, behavior),
                       EventOf("ToolCompleted", call, "")>>
<1>1. call \in CallIds /\ Tail(pendingCalls) \in Seq(ToolCall)
    <2>1. Head(pendingCalls) \in ToolCall /\ Tail(pendingCalls) \in Seq(ToolCall)
        BY HeadTailProperties DEF EngineTyping, EngineTypeOK
    <2> QED
        BY <2>1 DEF ToolCall
<1>2. NewMessage("ToolResult", call) \in Message
    BY <1>1, NewMessageType DEF EngineTyping, MessageKinds
<1>3. before \in Seq(EngineEvent)
    <2>1. EventOf("ToolPermissionResolved", call, behavior) \in EngineEvent
        BY <1>1, EventOfType DEF EventTypes, EventDetails
    <2>2. EventOf("ToolCompleted", call, "") \in EngineEvent
        BY <1>1, EventOfType DEF EventTypes, EventDetails
    <2> QED
        BY <2>1, <2>2, PairSeq
<1>4. AppendAndEmit(before, NewMessage("ToolResult", call))
    BY DEF CompleteToolCall
<1>5. transcript' \in Seq(Message) /\ events' \in Seq(EngineEvent)
    BY <1>2, <1>3, <1>4, AppendAndEmitType DEF EngineTyping
<1> QED
    BY <1>1, <1>5
    DEF CompleteToolCall, EngineTyping, EngineTypeOK, CallInHand, passVars, Phases

\* evaluate_token_budget leaves a tracker, and continues only on a reported total.
LEMMA NextTrackerType ==
    ASSUME EngineTypeOK
    PROVE  NextTracker \in BudgetTracker
    BY EngineAssumption
    DEF EngineTypeOK, NextTracker, TrackerAfter, BudgetApplies, BudgetTracker, DeltaTokens,
        SaturatingSub, NoUsage

LEMMA ContinueMeansUsage ==
    ASSUME EngineTypeOK, TurnBudgetDecision = "continue"
    PROVE  usageTotal \in Nat
    BY EngineAssumption
    DEF EngineTypeOK, TurnBudgetDecision, BudgetDecision, BudgetApplies, NoUsage

LEMMA EngineTypingInit == EngineInit => EngineTyping
<1> SUFFICES ASSUME EngineInit PROVE EngineTyping
    OBVIOUS
<1>1. FreshTracker \in BudgetTracker
    BY DEF FreshTracker, BudgetTracker
<1>2. remaining \in 0 .. MaxStream
    BY EngineAssumption DEF EngineInit
<1>3. /\ transcript \in Seq(Message)
      /\ pendingCalls \in Seq(ToolCall)
      /\ events \in Seq(EngineEvent)
      /\ continuedAt \in Seq(Nat)
    BY EmptySeq DEF EngineInit
<1> QED
    BY <1>1, <1>2, <1>3
    DEF EngineInit, EngineTyping, EngineTypeOK, CallInHand, Phases

LEMMA EngineTypingStep ==
    ASSUME EngineTyping, [EngineNext]_engineVars
    PROVE  EngineTyping'
<1>1. CASE \E cfg \in Configs : SubmitRejected(cfg)
    BY <1>1
    DEF SubmitRejected, EngineTyping, EngineTypeOK, CallInHand, coreVars, passVars,
        Phases
<1>2. CASE \E req \in {"prompt", "command"}, cfg \in Configs : Submit(req, cfg)
    <2>1. PICK req \in {"prompt", "command"}, cfg \in Configs : Submit(req, cfg)
        BY <1>2
    <2>2. FreshTracker \in BudgetTracker
        BY DEF FreshTracker, BudgetTracker
    <2>3. events' \in Seq(EngineEvent)
        <3>1. PlainEvent("SessionStarted") \in EngineEvent /\ PlainEvent("TurnStarted") \in EngineEvent
            BY PlainEventType DEF EventTypes
        <3> QED
            BY <2>1, <3>1, PairSeq DEF Submit
    <2>4. continuedAt' \in Seq(Nat)
        BY <2>1, EmptySeq DEF Submit
    <2>5. /\ turnCount' \in Nat
          /\ request' \in {"prompt", "command"}
          /\ config' \in Configs
        BY <2>1 DEF Submit, EngineTyping, EngineTypeOK
    <2> QED
        BY <2>1, <2>2, <2>3, <2>4, <2>5
        DEF Submit, EngineTyping, EngineTypeOK, CallInHand, coreVars, passVars, Phases
<1>3. CASE Cancel
    BY <1>3 DEF Cancel, EngineTyping, EngineTypeOK, CallInHand, coreVars, passVars, Phases
<1>4. CASE StartCancelled
    BY <1>4, FinishSuccessType, EmptySeq DEF StartCancelled, StopReasons
<1>5. CASE CommandDoesNotParse
    BY <1>5, FailTurnType, EmptySeq DEF CommandDoesNotParse
<1>6. CASE CommandFails
    <2>1. <<PlainEvent("CommandParsed")>> \in Seq(EngineEvent)
        BY PlainEventType DEF EventTypes
    <2> QED
        BY <1>6, <2>1, FailTurnType DEF CommandFails
<1>7. CASE CommandHandled
    <2>1. <<PlainEvent("CommandParsed"), PlainEvent("CommandExecuted")>> \in Seq(EngineEvent)
        <3>1. PlainEvent("CommandParsed") \in EngineEvent /\ PlainEvent("CommandExecuted") \in EngineEvent
            BY PlainEventType DEF EventTypes
        <3> QED
            BY <3>1
    <2> QED
        BY <1>7, <2>1, FinishSuccessType DEF CommandHandled, StopReasons
<1>8. CASE BeginPrompt
    <2>1. NewMessage("User", NoCall) \in Message
        BY NewMessageType DEF EngineTyping, MessageKinds
    <2>2. transcript' \in Seq(Message) /\ events' \in Seq(EngineEvent)
        BY <1>8, <2>1, AppendAndEmitType, EmptySeq DEF BeginPrompt, EngineTyping
    <2> QED
        BY <1>8, <2>2
        DEF BeginPrompt, EngineTyping, EngineTypeOK, CallInHand, coreVars, passVars,
            Phases
<1>9. CASE LoopCancelled
    BY <1>9, FinishSuccessType, EmptySeq DEF LoopCancelled, StopReasons
<1>10. CASE MaxTurnsReached
    BY <1>10, FinishSuccessType, EmptySeq DEF MaxTurnsReached, StopReasons
<1>11. CASE BeginModelPass
    BY <1>11, DropPassType
    DEF BeginModelPass, EngineTyping, EngineTypeOK, CallInHand, coreVars, passVars,
        Phases
<1>12. CASE ModelStreamFails
    BY <1>12, FailTurnType, EmptySeq DEF ModelStreamFails
<1>13. CASE ModelStreamReady
    BY <1>13
    DEF ModelStreamReady, EngineTyping, EngineTypeOK, CallInHand, coreVars, passVars,
        Phases
<1>14. CASE StreamCancelled
    BY <1>14, FinishSuccessType, EmptySeq DEF StreamCancelled, StopReasons
<1>15. CASE TextDelta
    BY <1>15, EngineAssumption
    DEF TextDelta, EngineTyping, EngineTypeOK, CallInHand, coreVars, passVars, Phases,
        NextStreamEvent
<1>16. CASE \E call \in ToolCall : ToolCallRequested(call)
    <2>1. PICK call \in ToolCall : ToolCallRequested(call)
        BY <1>16
    <2>2. EventOf("ToolRequested", call.id, "") \in EngineEvent
        BY EventOfType DEF EventTypes, EventDetails, ToolCall
    <2>3. events' \in Seq(EngineEvent)
        BY <2>1, <2>2, AppendProperties DEF ToolCallRequested, EngineTyping, EngineTypeOK
    <2>4. pendingCalls' \in Seq(ToolCall)
        BY <2>1, AppendProperties DEF ToolCallRequested, EngineTyping, EngineTypeOK
    <2>5. NextStreamEvent /\ UNCHANGED <<assistantBuffer, finishReason, usageTotal>>
        BY <2>1 DEF ToolCallRequested
    <2>6. remaining' \in 0 .. MaxStream
        BY <2>5, EngineAssumption DEF NextStreamEvent, EngineTyping, EngineTypeOK
    <2> QED
        BY <2>3, <2>4, <2>5, <2>6
        DEF NextStreamEvent, EngineTyping, EngineTypeOK, CallInHand, coreVars, passVars, Phases
<1>17. CASE \E total \in UsageLevels : UsageUpdated(total)
    BY <1>17, EngineAssumption
    DEF UsageUpdated, EngineTyping, EngineTypeOK, CallInHand, coreVars, passVars,
        Phases, NextStreamEvent
<1>18. CASE AssistantMessageFinished
    BY <1>18, EngineAssumption
    DEF AssistantMessageFinished, EngineTyping, EngineTypeOK, CallInHand, coreVars,
        passVars, Phases, NextStreamEvent
<1>19. CASE \E reason \in FinishReasons : ModelFinished(reason)
    BY <1>19, EngineAssumption
    DEF ModelFinished, EngineTyping, EngineTypeOK, CallInHand, coreVars, passVars,
        Phases, NextStreamEvent
<1>20. CASE ModelError
    BY <1>20, FailTurnType, EmptySeq DEF ModelError
<1>21. CASE StreamWithoutFinish
    BY <1>21, FailTurnType, EmptySeq DEF StreamWithoutFinish
<1>22. CASE StreamEnds
    <2>1. NewMessage("Assistant", NoCall) \in Message
        BY NewMessageType DEF EngineTyping, MessageKinds
    <2>2. /\ transcript' \in Seq(Message)
          /\ events' \in Seq(EngineEvent)
          /\ lastAssistantMessage' \in Message \cup {NoMessage}
        <3>1. CASE assistantBuffer
            BY <1>22, <2>1, <3>1, AppendAndEmitType, EmptySeq DEF StreamEnds, EngineTyping
        <3>2. CASE ~ assistantBuffer
            BY <1>22, <3>2 DEF StreamEnds, EngineTyping, EngineTypeOK
        <3> QED
            BY <3>1, <3>2
    <2> QED
        BY <1>22, <2>2
        DEF StreamEnds, EngineTyping, EngineTypeOK, CallInHand, coreVars, passVars,
            Phases
<1>23. CASE BeginToolCall
    <2>1. Head(pendingCalls) \in ToolCall
        BY <1>23 DEF BeginToolCall, EngineTyping, EngineTypeOK
    <2>2. Head(pendingCalls).id \in CallIds
        BY <2>1 DEF ToolCall
    <2>3. NewMessage("ToolUse", Head(pendingCalls).id) \in Message
        BY <2>2, NewMessageType DEF EngineTyping, MessageKinds
    <2>4. transcript' \in Seq(Message) /\ events' \in Seq(EngineEvent)
        BY <1>23, <2>3, AppendAndEmitType, EmptySeq DEF BeginToolCall, EngineTyping
    <2> QED
        BY <1>23, <2>2, <2>4
        DEF BeginToolCall, EngineTyping, EngineTypeOK, CallInHand, coreVars,
            passVars, Phases
<1>24. CASE ToolCallFails
    BY <1>24, FailTurnType, EmptySeq DEF ToolCallFails
<1>25. CASE ToolRuns
    BY <1>25, CompleteToolCallType DEF ToolRuns, EngineTyping, CallInHand, Behaviors
<1>26. CASE AskPermission
    BY <1>26
    DEF AskPermission, EngineTyping, EngineTypeOK, CallInHand, coreVars, passVars,
        Phases
<1>27. CASE \E behavior \in Behaviors : PermissionResolved(behavior)
    BY <1>27, CompleteToolCallType DEF PermissionResolved, EngineTyping, CallInHand
<1>28. CASE AllowedToolFails
    BY <1>28, FailTurnType, EmptySeq DEF AllowedToolFails
<1>29. CASE PermissionResolverFails
    BY <1>29, FailTurnType, EmptySeq DEF PermissionResolverFails
<1>30. CASE ToolCallsDone
    BY <1>30, DropPassType
    DEF ToolCallsDone, EngineTyping, EngineTypeOK, CallInHand, coreVars, passVars,
        Phases
<1>31. CASE ModelCancelled
    BY <1>31, FinishSuccessType, EmptySeq DEF ModelCancelled, StopReasons
<1>32. CASE ToolUseWithoutCall
    BY <1>32, FailTurnType, EmptySeq DEF ToolUseWithoutCall
<1>33. CASE BudgetContinues
    <2>1. NewMessage("System", NoCall) \in Message
        BY NewMessageType DEF EngineTyping, MessageKinds
    <2>2. <<PlainEvent("BudgetContinuationSuggested")>> \in Seq(EngineEvent)
        BY PlainEventType DEF EventTypes
    <2>3. transcript' \in Seq(Message) /\ events' \in Seq(EngineEvent)
        BY <1>33, <2>1, <2>2, AppendAndEmitType DEF BudgetContinues, EngineTyping
    <2>4. NextTracker \in BudgetTracker /\ usageTotal \in Nat
        BY <1>33, NextTrackerType, ContinueMeansUsage DEF BudgetContinues, EngineTyping
    <2>5. continuedAt' \in Seq(Nat)
        BY <1>33, <2>4 DEF BudgetContinues, EngineTyping, EngineTypeOK
    <2> QED
        BY <1>33, <2>3, <2>4, <2>5, DropPassType
        DEF BudgetContinues, EngineTyping, EngineTypeOK, CallInHand, coreVars, passVars, Phases
<1>34. CASE TurnEnds
    <2>1. PICK reason \in StopReasons :
              LeaveTurn(reason) /\ events' = events \o ClosingEvents(reason)
        BY <1>34 DEF TurnEnds, StopReasons
    <2>2. events' \in Seq(EngineEvent)
        BY <2>1, ClosingEventsType, ConcatProperties DEF EngineTyping, EngineTypeOK
    <2>3. NextTracker \in BudgetTracker
        BY NextTrackerType DEF EngineTyping
    <2> QED
        BY <1>34, <2>1, <2>2, <2>3, LeaveTurnType
        DEF TurnEnds, EngineTyping, EngineTypeOK, CallInHand, coreVars, passVars, Phases
<1>35. CASE UNCHANGED engineVars
    BY <1>35 DEF engineVars, EngineTyping, EngineTypeOK, CallInHand, coreVars, passVars, Phases
<1>36. CASE BeginCommand
    BY <1>36 DEF BeginCommand, EngineTyping, EngineTypeOK, CallInHand, coreVars, passVars, Phases
<1> QED
    BY <1>1, <1>2, <1>3, <1>4, <1>5, <1>6, <1>7, <1>8, <1>9, <1>10, <1>11, <1>12, <1>13,
       <1>14, <1>15, <1>16, <1>17, <1>18, <1>19, <1>20, <1>21, <1>22, <1>23, <1>24, <1>25,
       <1>26, <1>27, <1>28, <1>29, <1>30, <1>31, <1>32, <1>33, <1>34, <1>35,
       <1>36
    DEF EngineNext, EngineStep, InternalStep, DriverStep, ResolverStep, CallerStep

\* Every value of the engine's state is of its type, and an executing tool call is
\* the first pending one.
THEOREM EngineTypingInvariant == EngineSpec => []EngineTyping
<1>1. EngineInit => EngineTyping
    BY EngineTypingInit
<1>2. EngineTyping /\ [EngineNext]_engineVars => EngineTyping'
    BY EngineTypingStep
<1> QED
    BY <1>1, <1>2, PTL DEF EngineSpec

\* The engine is type correct: EngineTypeOK holds throughout.
THEOREM EngineTypeCorrect == EngineSpec => []EngineTypeOK
<1>1. EngineTyping => EngineTypeOK
    BY DEF EngineTyping
<1> QED
    BY <1>1, EngineTypingInvariant, PTL

--------------------------------------------------------------------------------
(***************************************************************************)
(* The compaction bound.  It is inductive once the types are known: only   *)
(* AppendAndEmit changes the transcript, and only Submit the policy.       *)
(***************************************************************************)

\* Any append under the current policy establishes the bound for this policy.
LEMMA AppendAndEmitBound ==
    ASSUME EngineTypeOK, NEW before, NEW m \in Message, AppendAndEmit(before, m),
           config.policy.enabled
    PROVE  \/ Len(transcript') <= config.policy.trigger
           \/ Len(transcript') <= config.policy.keep + 1
    BY AppendedBound, ConfigTypes DEF EngineTypeOK, AppendAndEmit

LEMMA CompactionBoundStep ==
    ASSUME EngineTyping, CompactionBound, [EngineNext]_engineVars
    PROVE  CompactionBound'
<1> SUFFICES ASSUME phase' \notin {"idle", "started", "commanding"}, config'.policy.enabled
             PROVE  \/ Len(transcript') <= config'.policy.trigger
                    \/ Len(transcript') <= config'.policy.keep + 1
    BY DEF CompactionBound
<1>1. config' = config /\ phase \notin {"idle", "commanding"}
    BY DEF EngineNext, EngineStep, InternalStep, DriverStep, ResolverStep, CallerStep,
        SubmitRejected, Submit, Cancel, StartCancelled, BeginCommand, CommandDoesNotParse,
        CommandFails, CommandHandled, BeginPrompt, LoopCancelled, MaxTurnsReached,
        BeginModelPass, ModelStreamFails, ModelStreamReady, StreamCancelled,
        NextStreamEvent, TextDelta, ToolCallRequested, UsageUpdated,
        AssistantMessageFinished, ModelFinished, ModelError, StreamWithoutFinish,
        StreamEnds, BeginToolCall, CompleteToolCall, ToolCallFails, ToolRuns,
        AskPermission, PermissionResolved, AllowedToolFails, PermissionResolverFails,
        ToolCallsDone, ModelCancelled, ToolUseWithoutCall, BudgetContinues, TurnEnds,
        FinishSuccess, FailTurn, LeaveTurn, coreVars, engineVars
<1>2. ASSUME NEW before, NEW m \in Message, AppendAndEmit(before, m)
      PROVE  \/ Len(transcript') <= config.policy.trigger
             \/ Len(transcript') <= config.policy.keep + 1
    BY <1>1, <1>2, AppendAndEmitBound DEF EngineTyping
<1>3. CASE BeginPrompt
    <2>1. NewMessage("User", NoCall) \in Message
        BY NewMessageType DEF EngineTyping, MessageKinds
    <2> QED
        BY <1>1, <1>2, <1>3, <2>1 DEF BeginPrompt
<1>4. CASE StreamEnds
    <2>1. NewMessage("Assistant", NoCall) \in Message
        BY NewMessageType DEF EngineTyping, MessageKinds
    <2>2. CASE assistantBuffer
        BY <1>1, <1>2, <1>4, <2>1, <2>2 DEF StreamEnds
    <2>3. CASE ~ assistantBuffer
        BY <1>1, <1>4, <2>3 DEF StreamEnds, CompactionBound
    <2> QED
        BY <2>2, <2>3
<1>5. CASE BeginToolCall
    <2>1. Head(pendingCalls) \in ToolCall
        BY <1>5 DEF BeginToolCall, EngineTyping, EngineTypeOK
    <2>2. NewMessage("ToolUse", Head(pendingCalls).id) \in Message
        BY <2>1, NewMessageType DEF EngineTyping, MessageKinds, ToolCall
    <2> QED
        BY <1>1, <1>2, <1>5, <2>2 DEF BeginToolCall
<1>6. ASSUME NEW behavior \in Behaviors, phase \in {"executing", "asking"},
             CompleteToolCall(behavior)
      PROVE  \/ Len(transcript') <= config.policy.trigger
             \/ Len(transcript') <= config.policy.keep + 1
    <2>1. Head(pendingCalls) \in ToolCall
        BY <1>6 DEF EngineTyping, EngineTypeOK, CallInHand
    <2>2. NewMessage("ToolResult", Head(pendingCalls).id) \in Message
        BY <2>1, NewMessageType DEF EngineTyping, MessageKinds, ToolCall
    <2> QED
        BY <1>2, <1>6, <2>2 DEF CompleteToolCall
<1>7. CASE ToolRuns \/ \E behavior \in Behaviors : PermissionResolved(behavior)
    BY <1>1, <1>6, <1>7 DEF ToolRuns, PermissionResolved, Behaviors
<1>8. CASE BudgetContinues
    <2>1. NewMessage("System", NoCall) \in Message
        BY NewMessageType DEF EngineTyping, MessageKinds
    <2> QED
        BY <1>1, <1>2, <1>8, <2>1 DEF BudgetContinues
<1>9. CASE UNCHANGED transcript /\ phase # "started"
    BY <1>1, <1>9 DEF CompactionBound
<1>10. \/ BeginPrompt \/ StreamEnds \/ BeginToolCall \/ ToolRuns \/ BudgetContinues
       \/ \E behavior \in Behaviors : PermissionResolved(behavior)
       \/ UNCHANGED transcript /\ phase # "started"
    BY DEF EngineNext, EngineStep, InternalStep, DriverStep, ResolverStep, CallerStep,
        SubmitRejected, Submit, Cancel, StartCancelled, BeginCommand, CommandDoesNotParse,
        CommandFails, CommandHandled, BeginPrompt, LoopCancelled, MaxTurnsReached,
        BeginModelPass, ModelStreamFails, ModelStreamReady, StreamCancelled,
        NextStreamEvent, TextDelta, ToolCallRequested, UsageUpdated,
        AssistantMessageFinished, ModelFinished, ModelError, StreamWithoutFinish,
        StreamEnds, BeginToolCall, ToolCallFails, ToolRuns, AskPermission,
        PermissionResolved, AllowedToolFails, PermissionResolverFails, ToolCallsDone,
        ModelCancelled, ToolUseWithoutCall, BudgetContinues, TurnEnds, FinishSuccess,
        FailTurn, LeaveTurn, coreVars, engineVars
<1> QED
    BY <1>3, <1>4, <1>5, <1>7, <1>8, <1>9, <1>10

\* While a prompt runs under a compaction policy, its transcript stays within the
\* trigger or the messages kept and one summary.
THEOREM CompactionIsBounded == EngineSpec => []CompactionBound
<1>1. EngineInit => CompactionBound
    BY DEF EngineInit, CompactionBound
<1>2. EngineTyping /\ CompactionBound /\ [EngineNext]_engineVars => CompactionBound'
    BY CompactionBoundStep
<1> QED
    BY <1>1, <1>2, EngineTypingInvariant, PTL DEF EngineSpec

--------------------------------------------------------------------------------
(***************************************************************************)
(* What the model is asked: where an appended message is found in the      *)
(* transcript.                                                             *)
(***************************************************************************)

\* What an append makes of a transcript: the message behind it, or a summary and the last
\* policy.keep messages of that.
LEMMA AppendedShape ==
    ASSUME NEW t \in Seq(Message), NEW m \in Message, NEW policy \in CompactionPolicy
    PROVE  \/ Appended(t, m, policy) = Append(t, m)
           \/ \E r \in 1 .. Len(t) + 1 :
                /\ policy.enabled /\ r = Len(t) + 1 - policy.keep
                /\ Len(Appended(t, m, policy)) = Len(t) + 2 - r
                /\ DOMAIN Appended(t, m, policy) = 1 .. Len(t) + 2 - r
                /\ Appended(t, m, policy)[1] = PlainMessage("CompactSummary", m.turn, m.pass)
                /\ \A i \in 2 .. Len(t) + 2 - r :
                        Appended(t, m, policy)[i] = Append(t, m)[r + i - 1]
<1> DEFINE msgs == Append(t, m)
           summary == PlainMessage("CompactSummary", m.turn, m.pass)
           front == <<summary>>
           r == ReplacedCount(msgs, policy)
           kept == SubSeq(msgs, r + 1, Len(msgs))
<1>1. msgs \in Seq(Message) /\ Len(msgs) = Len(t) + 1 /\ Len(t) \in Nat
    OBVIOUS
<1>2. CASE r = 0
    BY <1>2 DEF Appended, Compacted
<1>3. CASE r # 0
    <2>1. policy.enabled /\ r = Len(t) + 1 - policy.keep /\ r \in 1 .. Len(t) + 1
        BY <1>1, <1>3 DEF ReplacedCount, CompactionPolicy
    <2>2. Appended(t, m, policy) = front \o kept
        BY <1>3 DEF Appended, Compacted
    <2>3. front \in Seq(Message) /\ Len(front) = 1 /\ front[1] = summary
        BY DEF Message, PlainMessage, MessageOf, MessageKinds
    <2> HIDE DEF msgs, front, r, summary
    <2>4. /\ kept \in Seq(Message)
          /\ Len(kept) = IF r + 1 <= Len(msgs) THEN Len(msgs) - (r + 1) + 1 ELSE 0
          /\ \A i \in 1 .. Len(msgs) - (r + 1) + 1 : kept[i] = msgs[r + 1 + i - 1]
        <3>1. \A i \in r + 1 .. Len(msgs) : msgs[i] \in Message
            BY <1>1, <2>1
        <3>2. r + 1 \in Int /\ Len(msgs) \in Int
            BY <1>1, <2>1
        <3> QED
            BY <3>1, <3>2, SubSeqProperties
    <2> HIDE DEF kept
    <2>5. Len(kept) = Len(t) + 1 - r
        <3>1. Len(kept) = IF r + 1 <= Len(msgs) THEN Len(msgs) - (r + 1) + 1 ELSE 0
            BY <2>4, Zenon
        <3> QED
            BY <1>1, <2>1, <3>1
    <2>6. /\ front \o kept \in Seq(Message) /\ Len(front \o kept) = Len(front) + Len(kept)
          /\ \A i \in 1 .. Len(front) + Len(kept) :
                (front \o kept)[i] = IF i <= Len(front) THEN front[i] ELSE kept[i - Len(front)]
        BY <2>3, <2>4, ConcatProperties, Zenon
    <2>7. /\ Len(front \o kept) = Len(t) + 2 - r /\ DOMAIN (front \o kept) = 1 .. Len(t) + 2 - r
          /\ (front \o kept)[1] = summary
        BY <1>1, <2>1, <2>3, <2>5, <2>6
    <2>8. ASSUME NEW i \in 2 .. Len(t) + 2 - r
          PROVE  (front \o kept)[i] = msgs[r + i - 1]
        <3>1. (front \o kept)[i] = kept[i - 1]
            <4>1. /\ i \in 1 .. Len(front) + Len(kept) /\ ~ (i <= Len(front))
                  /\ i - Len(front) = i - 1
                BY <1>1, <2>1, <2>3, <2>5
            <4> QED
                BY <2>6, <4>1, Zenon
        <3>2. i - 1 \in 1 .. Len(msgs) - (r + 1) + 1 /\ r + 1 + (i - 1) - 1 = r + i - 1
            BY <1>1, <2>1
        <3>3. kept[i - 1] = msgs[r + 1 + (i - 1) - 1]
            BY <2>4, <3>2, Zenon
        <3> QED
            BY <3>1, <3>2, <3>3, Zenon
    <2> QED
        BY <2>1, <2>2, <2>7, <2>8, Zenon DEF msgs, summary
<1> QED
    BY <1>2, <1>3

\* The message just appended is the last one, unless the policy keeps no message at all.
LEMMA AppendedLast ==
    ASSUME NEW t \in Seq(Message), NEW m \in Message, NEW policy \in CompactionPolicy
    PROVE  LET new == Appended(t, m, policy)
           IN  /\ new # <<>>
               /\ \/ new[Len(new)] = m
                  \/ /\ policy.enabled /\ policy.keep = 0
                     /\ new[Len(new)].kind = "CompactSummary"
<1> DEFINE new == Appended(t, m, policy)
<1>1. CASE new = Append(t, m)
    BY <1>1
<1>2. ASSUME NEW r \in 1 .. Len(t) + 1, policy.enabled, r = Len(t) + 1 - policy.keep,
             Len(new) = Len(t) + 2 - r, DOMAIN new = 1 .. Len(t) + 2 - r,
             new[1] = PlainMessage("CompactSummary", m.turn, m.pass),
             \A i \in 2 .. Len(t) + 2 - r : new[i] = Append(t, m)[r + i - 1]
      PROVE  /\ new # <<>>
             /\ new[Len(new)] = m \/ (policy.keep = 0 /\ new[Len(new)].kind = "CompactSummary")
    <2> HIDE DEF new
    <2>1. policy.keep \in Nat /\ Len(t) \in Nat /\ Append(t, m)[Len(t) + 1] = m
        BY DEF CompactionPolicy
    <2>2. new # <<>>
        BY <1>2, <2>1
    <2>3. CASE policy.keep = 0
        BY <1>2, <2>1, <2>2, <2>3 DEF PlainMessage, MessageOf
    <2>4. CASE policy.keep # 0
        <3>1. /\ Len(new) \in 2 .. Len(t) + 2 - r
              /\ r + Len(new) - 1 = Len(t) + 1
            <4>1. r \in Nat /\ r + policy.keep = Len(t) + 1
                BY <1>2, <2>1
            <4>2. Len(new) = Len(t) + 2 - r
                BY <1>2, Zenon
            <4> QED
                BY <2>1, <2>4, <4>1, <4>2
        <3>2. new[Len(new)] = Append(t, m)[Len(t) + 1]
            BY <1>2, <3>1, Zenon
        <3> QED
            BY <2>1, <2>2, <3>2, Zenon
    <2> QED
        BY <2>3, <2>4
<1> QED
    BY <1>1, <1>2, AppendedShape, Zenon

EndsWithInput ==
    /\ transcript # <<>>
    /\ \/ transcript[Len(transcript)].kind \in {"User", "ToolResult", "System"}
       \/ config.policy.enabled /\ config.policy.keep = 0

\* Whenever the loop may come to its head next, the transcript is one the model can be asked with.
InputInvariant ==
    /\ phase \in {"looping", "awaitingModel"} => EndsWithInput
    /\ phase = "calling" /\ pendingCalls = <<>> => EndsWithInput

LEMMA AppendEndsWithInput ==
    ASSUME EngineTypeOK, NEW before, NEW kind \in {"User", "ToolResult", "System"},
           NEW call \in CallIds \cup {NoCall},
           AppendAndEmit(before, NewMessage(kind, call)), config' = config
    PROVE  EndsWithInput'
<1> DEFINE m == NewMessage(kind, call)
           new == Appended(transcript, m, config.policy)
<1>1. m \in Message /\ m.kind = kind
    BY NewMessageType DEF MessageKinds, NewMessage, MessageOf
<1>2. transcript \in Seq(Message) /\ config.policy \in CompactionPolicy
    BY ConfigTypes DEF EngineTypeOK
<1>3. transcript' = new
    BY DEF AppendAndEmit
<1> HIDE DEF m
<1>4. /\ new # <<>>
      /\ \/ new[Len(new)] = m
         \/ config.policy.enabled /\ config.policy.keep = 0
    BY <1>1, <1>2, AppendedLast, Zenon
<1> HIDE DEF new
<1>5. \/ new[Len(new)].kind \in {"User", "ToolResult", "System"}
      \/ config.policy.enabled /\ config.policy.keep = 0
    BY <1>1, <1>4, Zenon
<1>6. config'.policy = config.policy
    OBVIOUS
<1>7. transcript' # <<>>
    BY <1>3, <1>4, Zenon
<1>8. transcript'[Len(transcript')] = new[Len(new)]
    BY <1>3, Zenon
<1> QED
    BY <1>5, <1>6, <1>7, <1>8, Zenon DEF EndsWithInput

LEMMA InputInvariantStep ==
    ASSUME EngineTyping, InputInvariant, [EngineNext]_engineVars
    PROVE  InputInvariant'
<1> USE DEF EngineTyping
<1>1. CASE BeginPrompt
    BY <1>1, AppendEndsWithInput DEF BeginPrompt, InputInvariant
<1>2. CASE BudgetContinues
    BY <1>2, AppendEndsWithInput DEF BudgetContinues, InputInvariant
<1>3. ASSUME NEW behavior \in Behaviors, phase \in {"executing", "asking"},
             CompleteToolCall(behavior)
      PROVE  InputInvariant'
    <2>1. Head(pendingCalls) \in ToolCall
        BY <1>3 DEF EngineTypeOK, CallInHand
    <2>2. Head(pendingCalls).id \in CallIds \cup {NoCall}
        BY <2>1 DEF ToolCall
    <2> QED
        BY <1>3, <2>2, AppendEndsWithInput DEF CompleteToolCall, InputInvariant
<1>4. CASE ToolRuns \/ \E behavior \in Behaviors : PermissionResolved(behavior)
    BY <1>3, <1>4 DEF ToolRuns, PermissionResolved, Behaviors
<1>5. CASE StreamEnds \/ BeginToolCall
    BY <1>5 DEF StreamEnds, BeginToolCall, InputInvariant
<1>6. CASE BeginModelPass \/ ToolCallsDone
    BY <1>6 DEF BeginModelPass, ToolCallsDone, InputInvariant, EndsWithInput, coreVars
<1>7. CASE /\ phase' = phase /\ pendingCalls' = pendingCalls
           /\ transcript' = transcript /\ config' = config
    BY <1>7 DEF InputInvariant, EndsWithInput
<1>8. CASE phase' \notin {"looping", "awaitingModel", "calling"}
    BY <1>8 DEF InputInvariant
<1>9. \/ BeginPrompt \/ StreamEnds \/ BeginToolCall \/ ToolRuns \/ BudgetContinues
      \/ \E behavior \in Behaviors : PermissionResolved(behavior)
      \/ BeginModelPass \/ ToolCallsDone
      \/ /\ phase' = phase /\ pendingCalls' = pendingCalls
         /\ transcript' = transcript /\ config' = config
      \/ phase' \notin {"looping", "awaitingModel", "calling"}
    BY DEF EngineNext, EngineStep, InternalStep, DriverStep, ResolverStep, CallerStep,
        SubmitRejected, Submit, Cancel, StartCancelled, BeginCommand, CommandDoesNotParse,
        CommandFails, CommandHandled, LoopCancelled, MaxTurnsReached,
        ModelStreamFails, ModelStreamReady, StreamCancelled,
        NextStreamEvent, TextDelta, ToolCallRequested, UsageUpdated,
        AssistantMessageFinished, ModelFinished, ModelError, StreamWithoutFinish,
        ToolCallFails, AskPermission,
        AllowedToolFails, PermissionResolverFails,
        ModelCancelled, ToolUseWithoutCall, TurnEnds, FinishSuccess,
        FailTurn, LeaveTurn, coreVars, engineVars
<1> QED
    BY <1>1, <1>2, <1>4, <1>5, <1>6, <1>7, <1>8, <1>9

\* Every request to the model ends with a prompt, a tool result or a continuation, for any
\* sequence of calls, failures, continuations and compactions before it.
THEOREM RequestsEndWithInput == EngineSpec => []RequestEndsWithInput
<1>1. EngineInit => InputInvariant
    BY DEF EngineInit, InputInvariant
<1>2. EngineTyping /\ InputInvariant /\ [EngineNext]_engineVars => InputInvariant'
    BY InputInvariantStep
<1>3. InputInvariant => RequestEndsWithInput
    BY DEF InputInvariant, EndsWithInput, RequestEndsWithInput
<1> QED
    BY <1>1, <1>2, <1>3, EngineTypingInvariant, PTL DEF EngineSpec

--------------------------------------------------------------------------------
(***************************************************************************)
(* What a turn reports.                                                    *)
(***************************************************************************)

\* `last` is the last message of the assistant that turn n left in t, or none.
IsLastOf(last, t, n) ==
    LET ofTurn == {i \in DOMAIN t : t[i].kind = "Assistant" /\ t[i].turn = n}
    IN  IF ofTurn = {}
        THEN last = NoMessage
        ELSE \E i \in ofTurn : (\A j \in ofTurn : j <= i) /\ last = t[i]

TurnsUpTo(t, n) == \A i \in DOMAIN t : t[i].turn <= n

FinalInvariant == TurnsUpTo(transcript, turnCount) /\ FinalMessageIsOfThisTurn

LEMMA FinalMessageMeans ==
    FinalMessageIsOfThisTurn <=>
        ((phase # "idle" \/ outcome \in StopReasons) /\ ~ config.policy.enabled =>
            IsLastOf(lastAssistantMessage, transcript, turnCount))
    BY Zenon DEF FinalMessageIsOfThisTurn, IsLastOf

LEMMA AppendKeepsLast ==
    ASSUME NEW t \in Seq(Message), NEW m \in Message, NEW n, NEW last,
           m.kind # "Assistant", IsLastOf(last, t, n)
    PROVE  IsLastOf(last, Append(t, m), n)
<1> DEFINE Of(s) == {i \in DOMAIN s : s[i].kind = "Assistant" /\ s[i].turn = n}
           u == Append(t, m)
<1>1. /\ u \in Seq(Message) /\ Len(u) = Len(t) + 1 /\ Len(t) \in Nat
      /\ DOMAIN t = 1 .. Len(t) /\ DOMAIN u = 1 .. Len(t) + 1
      /\ u[Len(t) + 1] = m /\ \A i \in 1 .. Len(t) : u[i] = t[i]
    OBVIOUS
<1> HIDE DEF u
<1>2. Of(u) = Of(t)
    BY <1>1
<1>3. \A i \in Of(t) : u[i] = t[i]
    BY <1>1
<1>4. IF Of(t) = {} THEN last = NoMessage
      ELSE \E i \in Of(t) : (\A j \in Of(t) : j <= i) /\ last = t[i]
    BY Zenon DEF IsLastOf
<1> HIDE DEF Of
<1>5. IF Of(u) = {} THEN last = NoMessage
      ELSE \E i \in Of(u) : (\A j \in Of(u) : j <= i) /\ last = u[i]
    BY <1>2, <1>3, <1>4, Zenon
<1> QED
    BY <1>5, Zenon DEF IsLastOf, Of, u

LEMMA AppendSetsLast ==
    ASSUME NEW t \in Seq(Message), NEW m \in Message, m.kind = "Assistant"
    PROVE  IsLastOf(m, Append(t, m), m.turn)
<1> DEFINE u == Append(t, m)
           Of == {i \in DOMAIN u : u[i].kind = "Assistant" /\ u[i].turn = m.turn}
<1>1. /\ Len(t) \in Nat /\ DOMAIN u = 1 .. Len(t) + 1 /\ u[Len(t) + 1] = m
    OBVIOUS
<1> HIDE DEF u
<1>2. Len(t) + 1 \in Of /\ \A j \in Of : j <= Len(t) + 1
    BY <1>1
<1> HIDE DEF Of
<1>3. IF Of = {} THEN m = NoMessage ELSE \E i \in Of : (\A j \in Of : j <= i) /\ m = u[i]
    BY <1>1, <1>2, Zenon
<1> QED
    BY <1>3, Zenon DEF IsLastOf, Of, u

\* A turn that begins has left nothing.
LEMMA NothingOfALaterTurn ==
    ASSUME NEW t \in Seq(Message), NEW n \in Nat, TurnsUpTo(t, n)
    PROVE  IsLastOf(NoMessage, t, n + 1) /\ TurnsUpTo(t, n + 1)
<1>1. \A i \in DOMAIN t : t[i].turn \in Nat /\ t[i].turn <= n
    <2>1. \A i \in DOMAIN t : t[i] \in Message
        OBVIOUS
    <2>2. \A message \in Message : message.turn \in Nat
        BY DEF Message
    <2> QED
        BY <2>1, <2>2 DEF TurnsUpTo
<1>2. \A i \in DOMAIN t : t[i].turn # n + 1 /\ t[i].turn <= n + 1
    BY <1>1
<1> QED
    BY <1>2, Zenon DEF IsLastOf, TurnsUpTo

LEMMA AppendedTurns ==
    ASSUME NEW t \in Seq(Message), NEW m \in Message, NEW policy \in CompactionPolicy,
           TurnsUpTo(t, m.turn)
    PROVE  TurnsUpTo(Appended(t, m, policy), m.turn)
<1> DEFINE msgs == Append(t, m)
           new == Appended(t, m, policy)
<1>1. /\ Len(t) \in Nat /\ DOMAIN msgs = 1 .. Len(t) + 1
      /\ \A i \in 1 .. Len(t) + 1 : msgs[i].turn <= m.turn
    <2>1. /\ Len(t) \in Nat /\ DOMAIN msgs = 1 .. Len(t) + 1 /\ DOMAIN t = 1 .. Len(t)
          /\ msgs[Len(t) + 1] = m /\ \A i \in 1 .. Len(t) : msgs[i] = t[i]
        OBVIOUS
    <2>2. m.turn \in Nat
        BY DEF Message
    <2> HIDE DEF msgs
    <2> QED
        BY <2>1, <2>2 DEF TurnsUpTo
<1>2. CASE new = msgs
    BY <1>1, <1>2, Zenon DEF TurnsUpTo
<1>3. ASSUME NEW r \in 1 .. Len(t) + 1, DOMAIN new = 1 .. Len(t) + 2 - r,
             new[1] = PlainMessage("CompactSummary", m.turn, m.pass),
             \A i \in 2 .. Len(t) + 2 - r : new[i] = msgs[r + i - 1]
      PROVE  TurnsUpTo(new, m.turn)
    <2> HIDE DEF new, msgs
    <2> SUFFICES ASSUME NEW i \in 1 .. Len(t) + 2 - r PROVE new[i].turn <= m.turn
        BY <1>3, Zenon DEF TurnsUpTo
    <2>1. CASE i = 1
        BY <1>3, <2>1 DEF PlainMessage, MessageOf, Message
    <2>2. CASE i # 1
        <3>1. i \in 2 .. Len(t) + 2 - r /\ r + i - 1 \in 1 .. Len(t) + 1
            BY <1>1, <2>2
        <3> QED
            BY <1>1, <1>3, <3>1, Zenon
    <2> QED
        BY <2>1, <2>2
<1> QED
    BY <1>2, <1>3, AppendedShape, Zenon

\* Without a policy nothing is removed.
LEMMA AppendedWithoutPolicy ==
    ASSUME NEW t, NEW m, NEW policy, ~ policy.enabled
    PROVE  Appended(t, m, policy) = Append(t, m)
    BY DEF Appended, Compacted, ReplacedCount

\* An append keeps the invariant, if the last message is changed by those of the assistant only.
LEMMA AppendKeepsFinal ==
    ASSUME EngineTypeOK, FinalInvariant, phase # "idle",
           NEW before, NEW kind \in MessageKinds, NEW call \in CallIds \cup {NoCall},
           AppendAndEmit(before, NewMessage(kind, call)),
           config' = config, turnCount' = turnCount,
           lastAssistantMessage' = IF kind = "Assistant" THEN NewMessage(kind, call)
                                   ELSE lastAssistantMessage
    PROVE  FinalInvariant'
<1> DEFINE m == NewMessage(kind, call)
           new == Appended(transcript, m, config.policy)
<1>1. m \in Message /\ m.kind = kind /\ m.turn = turnCount
    BY NewMessageType DEF NewMessage, MessageOf
<1>2. transcript \in Seq(Message) /\ config.policy \in CompactionPolicy
    BY ConfigTypes DEF EngineTypeOK
<1>3. transcript' = new
    BY DEF AppendAndEmit
<1> HIDE DEF m
<1>4. TurnsUpTo(new, turnCount)
    BY <1>1, <1>2, AppendedTurns DEF FinalInvariant
<1>5. ASSUME ~ config.policy.enabled
      PROVE  IsLastOf(lastAssistantMessage', new, turnCount)
    <2>1. new = Append(transcript, m)
        BY <1>5, AppendedWithoutPolicy
    <2>2. CASE kind = "Assistant"
        BY <1>1, <1>2, <2>1, <2>2, AppendSetsLast DEF m
    <2>3. CASE kind # "Assistant"
        <3>1. IsLastOf(lastAssistantMessage, transcript, turnCount)
            BY <1>5, FinalMessageMeans DEF FinalInvariant
        <3> QED
            BY <1>1, <1>2, <2>1, <2>3, <3>1, AppendKeepsLast
    <2> QED
        BY <2>2, <2>3
<1> HIDE DEF new
<1>6. TurnsUpTo(transcript, turnCount)'
    BY <1>3, <1>4, Zenon DEF TurnsUpTo
<1>7. ~ config'.policy.enabled => IsLastOf(lastAssistantMessage, transcript, turnCount)'
    BY <1>3, <1>5, Zenon DEF IsLastOf
<1>8. FinalMessageIsOfThisTurn'
    BY <1>7, Zenon DEF FinalMessageIsOfThisTurn, IsLastOf
<1> QED
    BY <1>6, <1>8 DEF FinalInvariant

LEMMA FinalInvariantStep ==
    ASSUME EngineTyping, FinalInvariant, [EngineNext]_engineVars
    PROVE  FinalInvariant'
<1> USE DEF EngineTyping
<1>1. CASE BeginPrompt
    BY <1>1, AppendKeepsFinal DEF BeginPrompt, MessageKinds
<1>2. CASE BudgetContinues
    BY <1>2, AppendKeepsFinal DEF BudgetContinues, MessageKinds
<1>3. ASSUME NEW behavior \in Behaviors, phase \in {"executing", "asking"},
             CompleteToolCall(behavior)
      PROVE  FinalInvariant'
    <2>1. Head(pendingCalls) \in ToolCall
        BY <1>3 DEF EngineTypeOK, CallInHand
    <2>2. Head(pendingCalls).id \in CallIds \cup {NoCall}
        BY <2>1 DEF ToolCall
    <2> QED
        BY <1>3, <2>2, AppendKeepsFinal DEF CompleteToolCall, MessageKinds
<1>4. CASE ToolRuns \/ \E behavior \in Behaviors : PermissionResolved(behavior)
    BY <1>3, <1>4 DEF ToolRuns, PermissionResolved, Behaviors
<1>5. CASE BeginToolCall
    <2>1. Head(pendingCalls) \in ToolCall
        BY <1>5 DEF BeginToolCall, EngineTypeOK
    <2>2. Head(pendingCalls).id \in CallIds \cup {NoCall}
        BY <2>1 DEF ToolCall
    <2> QED
        BY <1>5, <2>2, AppendKeepsFinal DEF BeginToolCall, MessageKinds
<1>6. CASE StreamEnds /\ assistantBuffer
    BY <1>6, AppendKeepsFinal DEF StreamEnds, MessageKinds
<1>7. CASE /\ UNCHANGED <<transcript, turnCount, lastAssistantMessage, config>>
           /\ phase # "idle"
    BY <1>7, Zenon DEF FinalInvariant, TurnsUpTo, FinalMessageIsOfThisTurn
<1>8. CASE /\ UNCHANGED <<transcript, turnCount, lastAssistantMessage, config>>
           /\ phase' = "idle" /\ outcome' = "Rejected"
    <2>1. "Rejected" \notin StopReasons
        BY DEF StopReasons
    <2> QED
        BY <1>8, <2>1, Zenon DEF FinalInvariant, TurnsUpTo, FinalMessageIsOfThisTurn
<1>9. CASE UNCHANGED engineVars
    BY <1>9, Zenon DEF engineVars, coreVars, FinalInvariant, TurnsUpTo, FinalMessageIsOfThisTurn
<1>10. CASE \E req \in {"prompt", "command"}, cfg \in Configs : Submit(req, cfg)
    <2>1. /\ transcript' = transcript /\ turnCount' = turnCount + 1
          /\ lastAssistantMessage' = NoMessage
        BY <1>10 DEF Submit
    <2>2. IsLastOf(NoMessage, transcript, turnCount + 1) /\ TurnsUpTo(transcript, turnCount + 1)
        BY NothingOfALaterTurn DEF EngineTypeOK, FinalInvariant
    <2>3. TurnsUpTo(transcript, turnCount)'
        BY <2>1, <2>2, Zenon DEF TurnsUpTo
    <2>4. FinalMessageIsOfThisTurn'
        BY <2>1, <2>2, Zenon DEF FinalMessageIsOfThisTurn, IsLastOf
    <2> QED
        BY <2>3, <2>4 DEF FinalInvariant
<1>11. \/ BeginPrompt \/ BeginToolCall \/ ToolRuns \/ BudgetContinues
       \/ StreamEnds /\ assistantBuffer
       \/ \E behavior \in Behaviors : PermissionResolved(behavior)
       \/ \E req \in {"prompt", "command"}, cfg \in Configs : Submit(req, cfg)
       \/ UNCHANGED engineVars
       \/ /\ UNCHANGED <<transcript, turnCount, lastAssistantMessage, config>>
          /\ phase # "idle"
       \/ /\ UNCHANGED <<transcript, turnCount, lastAssistantMessage, config>>
          /\ phase' = "idle" /\ outcome' = "Rejected"
    BY DEF EngineNext, EngineStep, InternalStep, DriverStep, ResolverStep, CallerStep,
        SubmitRejected, Cancel, StartCancelled, BeginCommand, CommandDoesNotParse,
        CommandFails, CommandHandled, LoopCancelled, MaxTurnsReached,
        BeginModelPass, ModelStreamFails, ModelStreamReady, StreamCancelled,
        NextStreamEvent, TextDelta, ToolCallRequested, UsageUpdated,
        AssistantMessageFinished, ModelFinished, ModelError, StreamWithoutFinish,
        StreamEnds, ToolCallFails, AskPermission,
        AllowedToolFails, PermissionResolverFails, ToolCallsDone,
        ModelCancelled, ToolUseWithoutCall, TurnEnds, FinishSuccess,
        FailTurn, LeaveTurn, coreVars, engineVars
<1> QED
    BY <1>1, <1>2, <1>4, <1>5, <1>6, <1>7, <1>8, <1>9, <1>10, <1>11

\* Every message is of a turn that has begun, and the final one of the last turn.
THEOREM FinalInvariantHolds == EngineSpec => []FinalInvariant
<1>1. EngineInit => FinalInvariant
    <2> SUFFICES ASSUME EngineInit PROVE FinalInvariant
        OBVIOUS
    <2>1. TurnsUpTo(transcript, turnCount)
        BY DEF EngineInit, TurnsUpTo
    <2>2. phase = "idle" /\ outcome \notin StopReasons
        BY DEF EngineInit, StopReasons
    <2> QED
        BY <2>1, <2>2 DEF FinalInvariant, FinalMessageIsOfThisTurn
<1>2. EngineTyping /\ FinalInvariant /\ [EngineNext]_engineVars => FinalInvariant'
    BY FinalInvariantStep
<1> QED
    BY <1>1, <1>2, EngineTypingInvariant, PTL DEF EngineSpec

\* An outcome never reports the answer of an earlier turn, and always the last one of its own,
\* for any number of turns and passes.
THEOREM FinalMessageIsCurrent == EngineSpec => []FinalMessageIsOfThisTurn
<1>1. FinalInvariant => FinalMessageIsOfThisTurn
    BY DEF FinalInvariant
<1> QED
    BY <1>1, FinalInvariantHolds, PTL

--------------------------------------------------------------------------------
(***************************************************************************)
(* Tool uses and their results.                                            *)
(***************************************************************************)

\* What may come directly before a result, and directly after a use.
MayPrecede(message, result) ==
    message = [result EXCEPT !.kind = "ToolUse"] \/ message.kind = "CompactSummary"
MayFollow(message, use) ==
    \/ message = [use EXCEPT !.kind = "ToolResult"]
    \/ message.kind = "User" /\ message.turn > use.turn

PairedAt(t, i) ==
    /\ t[i].kind = "ToolResult" => i > 1 /\ MayPrecede(t[i - 1], t[i])
    /\ t[i].kind = "ToolUse" /\ i < Len(t) => MayFollow(t[i + 1], t[i])

Paired(t) == \A i \in 1 .. Len(t) : PairedAt(t, i)

\* The message m fits behind the last message of t.
Fits(t, m) ==
    /\ m.kind = "ToolResult" => t # <<>> /\ MayPrecede(t[Len(t)], m)
    /\ t # <<>> /\ t[Len(t)].kind = "ToolUse" => MayFollow(m, t[Len(t)])

LEMMA PairingMeans ==
    ASSUME transcript \in Seq(Message)
    PROVE  ToolPairing <=> Paired(transcript)
<1>1. DOMAIN transcript = 1 .. Len(transcript)
    OBVIOUS
<1> QED
    BY <1>1, Zenon DEF ToolPairing, Paired, PairedAt, MayPrecede, MayFollow

LEMMA AppendKeepsPairs ==
    ASSUME NEW t \in Seq(Message), NEW m \in Message, Paired(t), Fits(t, m)
    PROVE  Paired(Append(t, m))
<1> DEFINE u == Append(t, m)
<1>1. /\ Len(t) \in Nat /\ Len(u) = Len(t) + 1 /\ u[Len(t) + 1] = m
      /\ \A i \in 1 .. Len(t) : u[i] = t[i]
      /\ t # <<>> <=> Len(t) # 0
    OBVIOUS
<1> HIDE DEF u
<1> SUFFICES ASSUME NEW i \in 1 .. Len(t) + 1 PROVE PairedAt(u, i)
    BY <1>1, Zenon DEF Paired, u
<1>2. CASE i = Len(t) + 1
    <2>1. u[i] = m /\ ~ (i < Len(u))
        BY <1>1, <1>2
    <2>2. ASSUME m.kind = "ToolResult" PROVE i > 1 /\ MayPrecede(u[i - 1], m)
        <3>1. t # <<>> /\ MayPrecede(t[Len(t)], m)
            BY <2>2 DEF Fits
        <3>2. i > 1 /\ u[i - 1] = t[Len(t)]
            BY <1>1, <1>2, <3>1
        <3> QED
            BY <3>1, <3>2, Zenon
    <2> QED
        BY <2>1, <2>2, Zenon DEF PairedAt
<1>3. CASE i # Len(t) + 1
    <2>1. i \in 1 .. Len(t) /\ u[i] = t[i] /\ (i > 1 => u[i - 1] = t[i - 1])
        BY <1>1, <1>3
    <2>2. PairedAt(t, i)
        BY <2>1 DEF Paired
    <2>3. ASSUME t[i].kind = "ToolUse" PROVE MayFollow(u[i + 1], t[i])
        <3>1. CASE i < Len(t)
            <4>1. u[i + 1] = t[i + 1]
                BY <1>1, <2>1, <3>1
            <4> QED
                BY <2>2, <2>3, <3>1, <4>1, Zenon DEF PairedAt
        <3>2. CASE ~ (i < Len(t))
            <4>1. i = Len(t) /\ t # <<>> /\ u[i + 1] = m
                BY <1>1, <2>1, <3>2
            <4> QED
                BY <2>3, <4>1, Zenon DEF Fits
        <3> QED
            BY <3>1, <3>2
    <2> QED
        BY <2>1, <2>2, <2>3, Zenon DEF PairedAt
<1> QED
    BY <1>2, <1>3

\* Compaction cuts the front off: a result whose use is gone follows the summary.
LEMMA AppendedKeepsPairs ==
    ASSUME NEW t \in Seq(Message), NEW m \in Message, NEW policy \in CompactionPolicy,
           Paired(t), Fits(t, m)
    PROVE  Paired(Appended(t, m, policy))
<1> DEFINE u == Append(t, m)
           new == Appended(t, m, policy)
<1>1. Paired(u)
    BY AppendKeepsPairs
<1>2. Len(t) \in Nat /\ Len(u) = Len(t) + 1
    OBVIOUS
<1>3. CASE new = u
    BY <1>1, <1>3, Zenon
<1>4. ASSUME NEW r \in 1 .. Len(t) + 1, Len(new) = Len(t) + 2 - r,
             new[1] = PlainMessage("CompactSummary", m.turn, m.pass),
             \A i \in 2 .. Len(t) + 2 - r : new[i] = u[r + i - 1]
      PROVE  Paired(new)
    <2> HIDE DEF u, new
    <2>1. new[1].kind = "CompactSummary"
        BY <1>4 DEF PlainMessage, MessageOf
    <2> SUFFICES ASSUME NEW i \in 1 .. Len(t) + 2 - r PROVE PairedAt(new, i)
        BY <1>4, Zenon DEF Paired
    <2>2. CASE i = 1
        BY <2>1, <2>2 DEF PairedAt
    <2>3. CASE i # 1
        <3> DEFINE j == r + i - 1
        <3>1. i \in 2 .. Len(t) + 2 - r /\ j \in 1 .. Len(u) /\ i > 1 /\ j > 1
            BY <1>2, <2>3
        <3>2. new[i] = u[j] /\ PairedAt(u, j)
            BY <1>1, <1>4, <3>1, Zenon DEF Paired
        <3>3. MayPrecede(u[j - 1], u[j]) => MayPrecede(new[i - 1], new[i])
            <4>1. CASE i = 2
                BY <2>1, <4>1 DEF MayPrecede
            <4>2. CASE i # 2
                <5>1. i - 1 \in 2 .. Len(t) + 2 - r /\ r + (i - 1) - 1 = j - 1
                    BY <1>2, <3>1, <4>2
                <5>2. new[i - 1] = u[j - 1]
                    BY <1>4, <5>1, Zenon
                <5> QED
                    BY <3>2, <5>2, Zenon
            <4> QED
                BY <4>1, <4>2
        <3>4. i < Len(new) => j < Len(u) /\ new[i + 1] = u[j + 1]
            <4> SUFFICES ASSUME i < Len(new) PROVE j < Len(u) /\ new[i + 1] = u[j + 1]
                OBVIOUS
            <4>1. Len(new) = Len(t) + 2 - r
                BY <1>4, Zenon
            <4>2. /\ i + 1 \in 2 .. Len(t) + 2 - r /\ r + (i + 1) - 1 = j + 1
                  /\ j < Len(u)
                BY <1>2, <3>1, <4>1
            <4>3. i + 1 \in 2 .. Len(t) + 2 - r /\ r + (i + 1) - 1 = j + 1
                BY <4>2, Zenon
            <4>4. new[i + 1] = u[r + (i + 1) - 1]
                BY <1>4, <4>3, Zenon
            <4>5. new[i + 1] = u[j + 1]
                BY <4>3, <4>4, Zenon
            <4> QED
                BY <4>2, <4>5, Zenon
        <3> HIDE DEF j
        <3> QED
            BY <3>1, <3>2, <3>3, <3>4, Zenon DEF PairedAt
    <2> QED
        BY <2>2, <2>3
<1> QED
    BY <1>3, <1>4, AppendedShape, Zenon

\* A use is the last message exactly while its call is in hand, or after its turn failed; the
\* messages before a turn that starts are of earlier turns.
LastMessage == transcript[Len(transcript)]

PairingInvariant ==
    /\ Paired(transcript)
    /\ phase \in {"executing", "asking"} =>
        /\ transcript # <<>>
        /\ \/ LastMessage = NewMessage("ToolUse", Head(pendingCalls).id)
           \/ LastMessage.kind = "CompactSummary"
    /\ phase \in {"looping", "awaitingModel", "streaming", "calling", "deciding"} =>
        (transcript # <<>> => LastMessage.kind # "ToolUse")
    /\ phase = "started" => \A i \in DOMAIN transcript : transcript[i].turn < turnCount

LEMMA AppendKeepsPairing ==
    ASSUME EngineTypeOK, NEW before, NEW m \in Message, AppendAndEmit(before, m),
           Paired(transcript), Fits(transcript, m)
    PROVE  /\ Paired(transcript)'
           /\ transcript' # <<>>
           /\ LastMessage' = m \/ LastMessage'.kind = "CompactSummary"
<1> DEFINE new == Appended(transcript, m, config.policy)
<1>1. transcript \in Seq(Message) /\ config.policy \in CompactionPolicy
    BY ConfigTypes DEF EngineTypeOK
<1>2. transcript' = new
    BY DEF AppendAndEmit
<1>3. Paired(new)
    BY <1>1, AppendedKeepsPairs
<1>4. new # <<>> /\ (new[Len(new)] = m \/ new[Len(new)].kind = "CompactSummary")
    BY <1>1, AppendedLast, Zenon
<1> HIDE DEF new
<1>5. transcript' # <<>> /\ LastMessage' = new[Len(new)]
    BY <1>2, <1>4, Zenon DEF LastMessage
<1> QED
    BY <1>2, <1>3, <1>4, <1>5, Zenon DEF Paired, PairedAt

LEMMA PairingStep ==
    ASSUME EngineTyping, FinalInvariant, PairingInvariant, [EngineNext]_engineVars
    PROVE  PairingInvariant'
<1> USE DEF EngineTyping
<1>t. /\ transcript \in Seq(Message) /\ turnCount \in Nat
      /\ transcript # <<>> => LastMessage \in Message /\ Len(transcript) \in DOMAIN transcript
    BY DEF EngineTypeOK, LastMessage
<1>k. ASSUME NEW kind \in MessageKinds, NEW call \in CallIds \cup {NoCall}
      PROVE  /\ NewMessage(kind, call) \in Message /\ NewMessage(kind, call).kind = kind
             /\ NewMessage(kind, call).turn = turnCount
    BY NewMessageType DEF NewMessage, MessageOf
<1>1. ASSUME NEW before, NEW kind \in {"Assistant", "System", "ToolUse"},
             NEW call \in CallIds \cup {NoCall},
             phase \in {"looping", "awaitingModel", "streaming", "calling", "deciding"}
      PROVE  Fits(transcript, NewMessage(kind, call))
    BY <1>1, <1>k DEF Fits, PairingInvariant, LastMessage, MessageKinds
<1>2. CASE BeginPrompt
    <2> DEFINE m == NewMessage("User", NoCall)
    <2>1. m \in Message /\ m.kind = "User" /\ m.turn = turnCount
        BY <1>k DEF MessageKinds
    <2>2. transcript # <<>> => turnCount > LastMessage.turn
        <3>1. transcript # <<>> => LastMessage.turn < turnCount
            BY <1>t, <1>2 DEF BeginPrompt, PairingInvariant, LastMessage
        <3>2. \A message \in Message : message.turn \in Nat
            BY DEF Message
        <3> QED
            BY <1>t, <3>1, <3>2
    <2> HIDE DEF m
    <2>3. Fits(transcript, m)
        BY <2>1, <2>2 DEF Fits, MayFollow, LastMessage
    <2>4. /\ Paired(transcript)' /\ transcript' # <<>>
          /\ LastMessage' = m \/ LastMessage'.kind = "CompactSummary"
          /\ phase' = "looping"
        BY <1>2, <2>1, <2>3, AppendKeepsPairing DEF BeginPrompt, PairingInvariant, m
    <2> QED
        BY <2>1, <2>4 DEF PairingInvariant
<1>3. CASE BudgetContinues
    <2> DEFINE m == NewMessage("System", NoCall)
    <2>1. m \in Message /\ m.kind = "System"
        BY <1>k DEF MessageKinds
    <2> HIDE DEF m
    <2>2. /\ Paired(transcript)' /\ transcript' # <<>>
          /\ LastMessage' = m \/ LastMessage'.kind = "CompactSummary"
          /\ phase' = "looping"
        BY <1>1, <1>3, <2>1, AppendKeepsPairing DEF BudgetContinues, PairingInvariant, m
    <2> QED
        BY <2>1, <2>2 DEF PairingInvariant
<1>4. CASE StreamEnds /\ assistantBuffer
    <2> DEFINE m == NewMessage("Assistant", NoCall)
    <2>1. m \in Message /\ m.kind = "Assistant"
        BY <1>k DEF MessageKinds
    <2> HIDE DEF m
    <2>2. /\ Paired(transcript)' /\ transcript' # <<>>
          /\ LastMessage' = m \/ LastMessage'.kind = "CompactSummary"
          /\ phase' \in {"calling", "deciding"}
        BY <1>1, <1>4, <2>1, AppendKeepsPairing DEF StreamEnds, PairingInvariant, m
    <2> QED
        BY <2>1, <2>2 DEF PairingInvariant
<1>5. CASE BeginToolCall
    <2> DEFINE call == Head(pendingCalls).id
               m == NewMessage("ToolUse", call)
    <2>1. call \in CallIds \cup {NoCall}
        <3>1. Head(pendingCalls) \in ToolCall
            BY <1>5 DEF BeginToolCall, EngineTypeOK
        <3> QED
            BY <3>1 DEF ToolCall
    <2>2. m \in Message
        BY <1>k, <2>1 DEF MessageKinds
    <2>3. /\ turnCount' = turnCount /\ modelPasses' = modelPasses /\ pendingCalls' = pendingCalls
          /\ phase' = "executing"
        BY <1>5 DEF BeginToolCall
    <2>4. NewMessage("ToolUse", Head(pendingCalls).id)' = m
        BY <2>3 DEF NewMessage, MessageOf
    <2> HIDE DEF m
    <2>5. /\ Paired(transcript)' /\ transcript' # <<>>
          /\ LastMessage' = m \/ LastMessage'.kind = "CompactSummary"
        BY <1>1, <1>5, <2>1, <2>2, AppendKeepsPairing DEF BeginToolCall, PairingInvariant, m
    <2> QED
        BY <2>3, <2>4, <2>5 DEF PairingInvariant
<1>6. ASSUME NEW behavior \in Behaviors, phase \in {"executing", "asking"},
             CompleteToolCall(behavior)
      PROVE  PairingInvariant'
    <2> DEFINE call == Head(pendingCalls).id
               m == NewMessage("ToolResult", call)
               use == NewMessage("ToolUse", call)
    <2>1. call \in CallIds \cup {NoCall}
        <3>1. Head(pendingCalls) \in ToolCall
            BY <1>6 DEF EngineTypeOK, CallInHand
        <3> QED
            BY <3>1 DEF ToolCall
    <2>2. m \in Message /\ m.kind = "ToolResult"
        BY <1>k, <2>1 DEF MessageKinds
    <2>3. use = [m EXCEPT !.kind = "ToolUse"] /\ m = [use EXCEPT !.kind = "ToolResult"]
        BY DEF NewMessage, MessageOf
    <2>4. transcript # <<>> /\ (LastMessage = use \/ LastMessage.kind = "CompactSummary")
        BY <1>6 DEF PairingInvariant
    <2> HIDE DEF m, use
    <2>5. Fits(transcript, m)
        BY <2>3, <2>4 DEF Fits, MayPrecede, MayFollow, LastMessage
    <2>6. /\ Paired(transcript)' /\ transcript' # <<>>
          /\ LastMessage' = m \/ LastMessage'.kind = "CompactSummary"
          /\ phase' = "calling"
        BY <1>6, <2>2, <2>5, AppendKeepsPairing DEF CompleteToolCall, PairingInvariant, m
    <2> QED
        BY <2>2, <2>6 DEF PairingInvariant
<1>7. CASE ToolRuns \/ \E behavior \in Behaviors : PermissionResolved(behavior)
    BY <1>6, <1>7 DEF ToolRuns, PermissionResolved, Behaviors
<1>8. CASE \E req \in {"prompt", "command"}, cfg \in Configs : Submit(req, cfg)
    <2>1. transcript' = transcript /\ turnCount' = turnCount + 1 /\ phase' = "started"
        BY <1>8 DEF Submit
    <2>2. \A i \in DOMAIN transcript : transcript[i].turn < turnCount + 1
        <3>1. \A i \in DOMAIN transcript : transcript[i] \in Message /\ transcript[i].turn <= turnCount
            BY <1>t DEF FinalInvariant, TurnsUpTo
        <3>2. \A message \in Message : message.turn \in Nat
            BY DEF Message
        <3> QED
            BY <1>t, <3>1, <3>2
    <2> QED
        BY <2>1, <2>2 DEF PairingInvariant, Paired, PairedAt
<1>9. CASE /\ UNCHANGED <<transcript, turnCount, modelPasses, pendingCalls>>
           /\ phase' = phase \/ (phase = "executing" /\ phase' = "asking")
    BY <1>9 DEF PairingInvariant, Paired, PairedAt, LastMessage, NewMessage
<1>10. CASE /\ transcript' = transcript
            /\ \/ phase' \in {"idle", "commanding"}
               \/ /\ phase \in {"looping", "awaitingModel", "streaming", "calling", "deciding"}
                  /\ phase' \in {"looping", "awaitingModel", "streaming", "calling", "deciding"}
    BY <1>10 DEF PairingInvariant, Paired, PairedAt, LastMessage
<1>11. \/ BeginPrompt \/ BeginToolCall \/ ToolRuns \/ BudgetContinues
       \/ StreamEnds /\ assistantBuffer
       \/ \E behavior \in Behaviors : PermissionResolved(behavior)
       \/ \E req \in {"prompt", "command"}, cfg \in Configs : Submit(req, cfg)
       \/ /\ UNCHANGED <<transcript, turnCount, modelPasses, pendingCalls>>
          /\ phase' = phase \/ (phase = "executing" /\ phase' = "asking")
       \/ /\ transcript' = transcript
          /\ \/ phase' \in {"idle", "commanding"}
             \/ /\ phase \in {"looping", "awaitingModel", "streaming", "calling", "deciding"}
                /\ phase' \in {"looping", "awaitingModel", "streaming", "calling", "deciding"}
    BY DEF EngineNext, EngineStep, InternalStep, DriverStep, ResolverStep, CallerStep,
        SubmitRejected, Cancel, StartCancelled, BeginCommand, CommandDoesNotParse,
        CommandFails, CommandHandled, LoopCancelled, MaxTurnsReached,
        BeginModelPass, ModelStreamFails, ModelStreamReady, StreamCancelled,
        NextStreamEvent, TextDelta, ToolCallRequested, UsageUpdated,
        AssistantMessageFinished, ModelFinished, ModelError, StreamWithoutFinish,
        StreamEnds, ToolCallFails, AskPermission,
        AllowedToolFails, PermissionResolverFails, ToolCallsDone,
        ModelCancelled, ToolUseWithoutCall, TurnEnds, FinishSuccess,
        FailTurn, LeaveTurn, coreVars, engineVars
<1> QED
    BY <1>2, <1>3, <1>4, <1>5, <1>7, <1>8, <1>9, <1>10, <1>11

\* A tool result directly follows its use or the summary that replaced it, and a use is followed
\* by its result unless its turn failed, under every policy and after every failure.
THEOREM ResultsFollowTheirUses == EngineSpec => []ToolPairing
<1>1. EngineInit => PairingInvariant
    BY DEF EngineInit, PairingInvariant, Paired
<1>2. EngineTyping /\ FinalInvariant /\ PairingInvariant /\ [EngineNext]_engineVars
        => PairingInvariant'
    BY PairingStep
<1>3. EngineTyping /\ PairingInvariant => ToolPairing
    BY PairingMeans DEF PairingInvariant, EngineTyping, EngineTypeOK
<1> QED
    BY <1>1, <1>2, <1>3, EngineTypingInvariant, FinalInvariantHolds, PTL DEF EngineSpec

--------------------------------------------------------------------------------
(***************************************************************************)
(* Cancellation, as a property of single steps.                            *)
(***************************************************************************)

\* After the flag is set no model pass and no command begins, and the turn ends as Cancelled or
\* Failed unless the whole answer of the model was in, or a command was executing already.
THEOREM CancelIsObeyed == EngineSpec => CancelStopsTheTurn
<1> DEFINE NothingBegins ==
            phase' \in {"awaitingModel", "commanding"} => phase' = phase
           EndsAsCancelled ==
            (phase # "idle" /\ phase' = "idle") =>
                \/ outcome' \in {"Cancelled", "Failed"}
                \/ phase = "deciding"
                \/ phase = "commanding" /\ outcome' = "CommandHandled"
<1>1. ASSUME [EngineNext]_engineVars
      PROVE  [cancelled => NothingBegins /\ EndsAsCancelled]_engineVars
    <2> SUFFICES ASSUME EngineNext, cancelled PROVE NothingBegins /\ EndsAsCancelled
        BY <1>1
    <2>1. NothingBegins
        BY DEF EngineNext, EngineStep, InternalStep, DriverStep, ResolverStep, CallerStep,
        SubmitRejected, Submit, Cancel, StartCancelled, BeginCommand, CommandDoesNotParse,
        CommandFails, CommandHandled, BeginPrompt, LoopCancelled, MaxTurnsReached,
        BeginModelPass, ModelStreamFails, ModelStreamReady, StreamCancelled,
        NextStreamEvent, TextDelta, ToolCallRequested, UsageUpdated,
        AssistantMessageFinished, ModelFinished, ModelError, StreamWithoutFinish,
        StreamEnds, BeginToolCall, CompleteToolCall, ToolCallFails, ToolRuns,
        AskPermission, PermissionResolved, AllowedToolFails, PermissionResolverFails,
        ToolCallsDone, ModelCancelled, ToolUseWithoutCall, BudgetContinues, TurnEnds,
        FinishSuccess, FailTurn, LeaveTurn, coreVars, engineVars
    <2>2. EndsAsCancelled
        BY DEF EngineNext, EngineStep, InternalStep, DriverStep, ResolverStep, CallerStep,
        SubmitRejected, Submit, Cancel, StartCancelled, BeginCommand, CommandDoesNotParse,
        CommandFails, CommandHandled, BeginPrompt, LoopCancelled, MaxTurnsReached,
        BeginModelPass, ModelStreamFails, ModelStreamReady, StreamCancelled,
        NextStreamEvent, TextDelta, ToolCallRequested, UsageUpdated,
        AssistantMessageFinished, ModelFinished, ModelError, StreamWithoutFinish,
        StreamEnds, BeginToolCall, CompleteToolCall, ToolCallFails, ToolRuns,
        AskPermission, PermissionResolved, AllowedToolFails, PermissionResolverFails,
        ToolCallsDone, ModelCancelled, ToolUseWithoutCall, BudgetContinues, TurnEnds,
        FinishSuccess, FailTurn, LeaveTurn, coreVars, engineVars
    <2> QED
        BY <2>1, <2>2
<1> QED
    BY <1>1, PTL DEF EngineSpec, CancelStopsTheTurn

--------------------------------------------------------------------------------
(***************************************************************************)
(* Token budgets.  The tracker remembers what the history continuedAt      *)
(* tells: the number of continuations, the last total and the last gain.   *)
(***************************************************************************)

\* Below the threshold in saturating arithmetic means below it in exact
\* arithmetic: if the total's product saturates, the comparison is false.
LEMMA SaturationIsSafe ==
    ASSUME NEW budget \in Nat, NEW total \in Nat, BelowCompletionThreshold(budget, total)
    PROVE  10 * total < 9 * budget
    BY TokenBudgetAssumption DEF BelowCompletionThreshold, SaturatingMul

\* What the decision to continue says of the budget, the tracker and the history.
LEMMA ContinuationFacts ==
    ASSUME EngineTypeOK, BudgetContinues
    PROVE  /\ usageTotal \in Nat
           /\ continuedAt' = Append(continuedAt, usageTotal)
           /\ 10 * usageTotal < 9 * config.budget
           /\ ~ DiminishingReturns(budgetTracker, usageTotal)
           /\ budgetTracker' = [count |-> budgetTracker.count + 1,
                                lastDelta |-> DeltaTokens(budgetTracker, usageTotal),
                                lastTotal |-> usageTotal]
<1>1. usageTotal \in Nat
    BY ContinueMeansUsage DEF BudgetContinues
<1>2. /\ BudgetApplies(config.budget, usageTotal)
      /\ MayContinue(budgetTracker, config.budget, usageTotal, config.allow)
    BY DEF BudgetContinues, TurnBudgetDecision, BudgetDecision
<1>3. 10 * usageTotal < 9 * config.budget
    BY <1>1, <1>2, SaturationIsSafe, ConfigTypes DEF MayContinue
<1> QED
    BY <1>1, <1>2, <1>3 DEF BudgetContinues, MayContinue, NextTracker, TrackerAfter

\* The only other steps that touch the histories of the budget.
LEMMA OtherStepsKeepTheHistory ==
    ASSUME [EngineNext]_engineVars, ~ BudgetContinues
    PROVE  \/ continuedAt' = <<>> /\ budgetTracker' = FreshTracker
           \/ /\ UNCHANGED <<continuedAt, config>>
              /\ UNCHANGED budgetTracker \/ phase' = "idle"
              /\ phase' # "idle" => phase # "idle"
    BY DEF EngineNext, EngineStep, InternalStep, DriverStep, ResolverStep, CallerStep,
        SubmitRejected, Submit, Cancel, StartCancelled, BeginCommand, CommandDoesNotParse,
        CommandFails, CommandHandled, BeginPrompt, LoopCancelled, MaxTurnsReached,
        BeginModelPass, ModelStreamFails, ModelStreamReady, StreamCancelled,
        NextStreamEvent, TextDelta, ToolCallRequested, UsageUpdated,
        AssistantMessageFinished, ModelFinished, ModelError, StreamWithoutFinish,
        StreamEnds, BeginToolCall, CompleteToolCall, ToolCallFails, ToolRuns,
        AskPermission, PermissionResolved, AllowedToolFails, PermissionResolverFails,
        ToolCallsDone, ModelCancelled, ToolUseWithoutCall, TurnEnds, FinishSuccess,
        FailTurn, LeaveTurn, coreVars, engineVars

\* Every continuation happens below nine tenths of the budget, for every word size
\* and every budget.
THEOREM ContinuationsStayBelowBudget == EngineSpec => []ContinuesOnlyBelowBudget
<1>1. EngineInit => ContinuesOnlyBelowBudget
    BY DEF EngineInit, ContinuesOnlyBelowBudget
<1>2. ASSUME EngineTyping, ContinuesOnlyBelowBudget, [EngineNext]_engineVars
      PROVE  ContinuesOnlyBelowBudget'
    <2>1. CASE BudgetContinues
        <3>1. config' = config
            BY <2>1 DEF BudgetContinues
        <3>2. /\ continuedAt \in Seq(Nat)
              /\ usageTotal \in Nat
              /\ continuedAt' = Append(continuedAt, usageTotal)
              /\ 10 * usageTotal < 9 * config.budget
            BY <1>2, <2>1, ContinuationFacts DEF EngineTyping, EngineTypeOK
        <3>3. ASSUME NEW n \in DOMAIN continuedAt' PROVE 10 * continuedAt'[n] < 9 * config.budget
            <4>1. CASE n = Len(continuedAt) + 1
                BY <3>2, <4>1
            <4>2. CASE n \in DOMAIN continuedAt
                BY <1>2, <3>2, <4>2 DEF ContinuesOnlyBelowBudget
            <4> QED
                BY <3>2, <3>3, <4>1, <4>2
        <3> QED
            BY <3>1, <3>3 DEF ContinuesOnlyBelowBudget
    <2>2. CASE ~ BudgetContinues
        BY <1>2, <2>2, OtherStepsKeepTheHistory DEF ContinuesOnlyBelowBudget
    <2> QED
        BY <2>1, <2>2
<1> QED
    BY <1>1, <1>2, EngineTypingInvariant, PTL DEF EngineSpec

\* While a turn runs the tracker agrees with the history of its continuations.
TrackerAgrees ==
    phase # "idle" =>
        LET n == Len(continuedAt)
        IN  /\ budgetTracker.count = n
            /\ n >= 1 => budgetTracker.lastTotal = continuedAt[n]
            /\ n >= 2 => budgetTracker.lastDelta = SaturatingSub(continuedAt[n], continuedAt[n - 1])

LEMMA TrackerAgreesStep ==
    ASSUME EngineTyping, TrackerAgrees, [EngineNext]_engineVars
    PROVE  TrackerAgrees'
<1>1. CASE BudgetContinues
    <2> DEFINE n == Len(continuedAt)
    <2>1. /\ continuedAt \in Seq(Nat)
          /\ usageTotal \in Nat
          /\ continuedAt' = Append(continuedAt, usageTotal)
          /\ budgetTracker' = [count |-> budgetTracker.count + 1,
                               lastDelta |-> DeltaTokens(budgetTracker, usageTotal),
                               lastTotal |-> usageTotal]
        BY <1>1, ContinuationFacts DEF EngineTyping, EngineTypeOK
    <2>2. /\ n \in Nat
          /\ Len(continuedAt') = n + 1
          /\ continuedAt'[n + 1] = usageTotal
          /\ n >= 1 => continuedAt'[n] = continuedAt[n]
        BY <2>1
    <2>3. budgetTracker.count = n /\ (n >= 1 => budgetTracker.lastTotal = continuedAt[n])
        BY <1>1 DEF TrackerAgrees, BudgetContinues
    <2> QED
        BY <2>1, <2>2, <2>3 DEF TrackerAgrees, DeltaTokens
<1>2. CASE ~ BudgetContinues
    BY <1>2, OtherStepsKeepTheHistory DEF TrackerAgrees, FreshTracker
<1> QED
    BY <1>1, <1>2

LEMMA DiminishingReturnsStep ==
    ASSUME EngineTyping, TrackerAgrees, DiminishingReturnsStop, [EngineNext]_engineVars
    PROVE  DiminishingReturnsStop'
<1>1. CASE BudgetContinues
    <2> DEFINE n == Len(continuedAt)
    <2>1. /\ continuedAt \in Seq(Nat)
          /\ usageTotal \in Nat
          /\ continuedAt' = Append(continuedAt, usageTotal)
          /\ ~ DiminishingReturns(budgetTracker, usageTotal)
        BY <1>1, ContinuationFacts DEF EngineTyping, EngineTypeOK
    <2>2. /\ n \in Nat
          /\ Len(continuedAt') = n + 1
          /\ continuedAt'[n + 1] = usageTotal
          /\ \A k \in 1 .. n : continuedAt'[k] = continuedAt[k]
        BY <2>1
    <2>3. /\ budgetTracker.count = n
          /\ n >= 1 => budgetTracker.lastTotal = continuedAt[n]
          /\ n >= 2 => budgetTracker.lastDelta = SaturatingSub(continuedAt[n], continuedAt[n - 1])
        BY <1>1 DEF TrackerAgrees, BudgetContinues
    <2>4. budgetTracker.lastDelta \in Nat /\ budgetTracker.lastTotal \in Nat
        BY DEF EngineTyping, EngineTypeOK, BudgetTracker
    <2>5. n + 1 >= 4 =>
             \/ SaturatingSub(usageTotal, continuedAt[n]) >= DiminishingThreshold
             \/ SaturatingSub(continuedAt[n], continuedAt[n - 1]) >= DiminishingThreshold
        BY <2>1, <2>2, <2>3, <2>4, TokenBudgetAssumption
        DEF DiminishingReturns, DeltaTokens, SaturatingSub
    <2>6. ASSUME NEW k \in 4 .. n + 1
          PROVE  \/ SaturatingSub(continuedAt'[k], continuedAt'[k - 1]) >= DiminishingThreshold
                 \/ SaturatingSub(continuedAt'[k - 1], continuedAt'[k - 2]) >= DiminishingThreshold
        <3>1. CASE k = n + 1
            BY <2>2, <2>5, <2>6, <3>1
        <3>2. CASE k \in 4 .. n
            <4>1. /\ continuedAt'[k] = continuedAt[k]
                  /\ continuedAt'[k - 1] = continuedAt[k - 1]
                  /\ continuedAt'[k - 2] = continuedAt[k - 2]
                BY <2>2, <3>2
            <4> QED
                BY <3>2, <4>1 DEF DiminishingReturnsStop
        <3> QED
            BY <2>2, <2>6, <3>1, <3>2
    <2> QED
        BY <2>2, <2>6 DEF DiminishingReturnsStop
<1>2. CASE ~ BudgetContinues
    BY <1>2, OtherStepsKeepTheHistory DEF DiminishingReturnsStop
<1> QED
    BY <1>1, <1>2

\* A turn that brought too few tokens in two passes running is not continued a
\* fourth time or later.
THEOREM DiminishingReturnsAreStopped == EngineSpec => []DiminishingReturnsStop
<1>1. EngineInit => TrackerAgrees /\ DiminishingReturnsStop
    BY DEF EngineInit, TrackerAgrees, DiminishingReturnsStop
<1>2. EngineTyping /\ TrackerAgrees /\ [EngineNext]_engineVars => TrackerAgrees'
    BY TrackerAgreesStep
<1>3. /\ EngineTyping /\ TrackerAgrees /\ DiminishingReturnsStop /\ [EngineNext]_engineVars
      => DiminishingReturnsStop'
    BY DiminishingReturnsStep
<1> QED
    BY <1>1, <1>2, <1>3, EngineTypingInvariant, PTL DEF EngineSpec

--------------------------------------------------------------------------------
(***************************************************************************)
(* The engine implements TurnProtocol.  A step either leaves the turn as   *)
(* the host sees it alone, or is one step of the protocol.                 *)
(***************************************************************************)

LEMMA TurnRefinementInit == EngineInit => Turn!TurnInit
    BY DEF EngineInit, TurnPhase, Turn!TurnInit

\* The steps that end the submission are the protocol's TurnLeaves.
LEMMA LeavingSteps ==
    ASSUME NEW reason, phase # "idle", LeaveTurn(reason), UNCHANGED <<config, cancelled>>
    PROVE  Turn!TurnLeaves
<1>1. TurnPhase # "idle"
    BY DEF TurnPhase
<1>2. TurnPhase' = "idle" /\ modelPasses' = 0 /\ config'.maxTurns = config.maxTurns
    BY DEF TurnPhase, LeaveTurn
<1> QED
    BY <1>1, <1>2 DEF Turn!TurnLeaves

\* What the completion of a tool call does to the turn.
LEMMA CompletedCall ==
    ASSUME NEW behavior, CompleteToolCall(behavior)
    PROVE  phase' = "calling" /\ UNCHANGED <<config, cancelled, modelPasses>>
    BY Zenon DEF CompleteToolCall

\* Every event of the stream leaves the turn in the pass.
LEMMA StreamedEvent ==
    ASSUME \/ TextDelta \/ \E call \in ToolCall : ToolCallRequested(call)
           \/ \E total \in UsageLevels : UsageUpdated(total)
           \/ AssistantMessageFinished
           \/ \E reason \in FinishReasons : ModelFinished(reason)
    PROVE  NextStreamEvent
    BY Zenon DEF TextDelta, ToolCallRequested, UsageUpdated, AssistantMessageFinished, ModelFinished

LEMMA TurnRefinementStep ==
    ASSUME [EngineNext]_engineVars
    PROVE  [Turn!TurnNext]_(Turn!turnVars)
<1> DEFINE Inside(p) == p \notin {"idle", "started", "awaitingModel", "asking"}
           Quiet == /\ Inside(phase) /\ Inside(phase')
                    /\ UNCHANGED <<config, cancelled, modelPasses>>
<1>1. CASE \E cfg \in Configs : SubmitRejected(cfg)
    BY <1>1 DEF SubmitRejected, TurnPhase, Turn!turnVars
<1>2. CASE \E req \in {"prompt", "command"}, cfg \in Configs : Submit(req, cfg)
    <2>1. TurnPhase = "idle" /\ TurnPhase' = "begun"
        BY <1>2 DEF Submit, TurnPhase
    <2>2. config'.maxTurns \in {cfg.maxTurns : cfg \in Configs}
        BY <1>2 DEF Submit
    <2>3. cancelled' = FALSE /\ UNCHANGED modelPasses
        BY <1>2 DEF Submit
    <2> QED
        BY <2>1, <2>2, <2>3 DEF Turn!TurnNext, Turn!TurnBegins
<1>3. CASE Cancel
    BY <1>3 DEF Cancel, TurnPhase, Turn!TurnNext, Turn!TurnIsCancelled
<1>4. ASSUME NEW reason, phase # "idle", LeaveTurn(reason), UNCHANGED <<config, cancelled>>
      PROVE  Turn!TurnNext
    BY <1>4, LeavingSteps DEF Turn!TurnNext
<1>5. CASE BeginPrompt \/ BeginCommand
    BY <1>5 DEF BeginPrompt, BeginCommand, TurnPhase, Turn!TurnNext, Turn!TurnIsPolled
<1>6. CASE BeginModelPass
    BY <1>6 DEF BeginModelPass, TurnPhase, Turn!TurnNext, Turn!TurnAwaitsModel
<1>7. CASE ModelStreamReady
    BY <1>7 DEF ModelStreamReady, TurnPhase, Turn!TurnNext, Turn!ModelAnswers
<1>8. CASE AskPermission
    BY <1>8 DEF AskPermission, TurnPhase, Turn!TurnNext, Turn!TurnAsks
<1>9. CASE \E behavior \in Behaviors : PermissionResolved(behavior)
    BY <1>9, CompletedCall DEF PermissionResolved, TurnPhase, Turn!TurnNext, Turn!TurnResumes
<1>10. CASE Quiet
    <2>1. TurnPhase' = TurnPhase
        BY <1>10 DEF TurnPhase
    <2> QED
        BY <1>10, <2>1 DEF Turn!turnVars
<1>11. CASE UNCHANGED engineVars
    BY <1>11 DEF engineVars, TurnPhase, Turn!turnVars
<1>12. CASE \E reason \in StopReasons :
                phase # "idle" /\ LeaveTurn(reason) /\ UNCHANGED <<config, cancelled>>
    BY <1>4, <1>12
<1>13. ASSUME StartCancelled \/ CommandDoesNotParse \/ CommandFails \/ CommandHandled
              \/ LoopCancelled \/ MaxTurnsReached \/ ModelStreamFails \/ StreamCancelled
              \/ ModelError \/ StreamWithoutFinish \/ ToolCallFails \/ AllowedToolFails
              \/ PermissionResolverFails \/ ModelCancelled \/ ToolUseWithoutCall \/ TurnEnds
       PROVE  \E reason \in StopReasons :
                phase # "idle" /\ LeaveTurn(reason) /\ UNCHANGED <<config, cancelled>>
    BY <1>13
    DEF StartCancelled, CommandDoesNotParse, CommandFails, CommandHandled, LoopCancelled,
        MaxTurnsReached, ModelStreamFails, StreamCancelled, ModelError, StreamWithoutFinish,
        ToolCallFails, AllowedToolFails, PermissionResolverFails, ModelCancelled,
        ToolUseWithoutCall, TurnEnds, FinishSuccess, FailTurn, StopReasons
<1>14. ASSUME \/ TextDelta \/ \E call \in ToolCall : ToolCallRequested(call)
              \/ \E total \in UsageLevels : UsageUpdated(total)
              \/ AssistantMessageFinished
              \/ \E reason \in FinishReasons : ModelFinished(reason)
       PROVE  Quiet
    <2>1. NextStreamEvent
        BY <1>14, StreamedEvent
    <2> QED
        BY <2>1 DEF NextStreamEvent
<1>15. ASSUME StreamEnds \/ BeginToolCall \/ ToolRuns \/ ToolCallsDone \/ BudgetContinues
       PROVE  Quiet
    <2>1. CASE StreamEnds
        BY <2>1 DEF StreamEnds
    <2>2. CASE BeginToolCall
        BY <2>2 DEF BeginToolCall
    <2>3. CASE ToolRuns
        BY <2>3, CompletedCall DEF ToolRuns
    <2>4. CASE ToolCallsDone
        BY <2>4 DEF ToolCallsDone
    <2>5. CASE BudgetContinues
        BY <2>5 DEF BudgetContinues
    <2> QED
        BY <1>15, <2>1, <2>2, <2>3, <2>4, <2>5
<1> HIDE DEF Quiet
<1> QED
    BY <1>1, <1>2, <1>3, <1>5, <1>6, <1>7, <1>8, <1>9, <1>10, <1>11, <1>12, <1>13, <1>14, <1>15
    DEF EngineNext, EngineStep, InternalStep, DriverStep, ResolverStep, CallerStep

\* The engine is the turn the remote hosts are built around.
THEOREM EngineImplementsTurn == EngineSpec => KeepsTurnProtocol
<1>1. EngineInit => Turn!TurnInit
    BY TurnRefinementInit
<1>2. [EngineNext]_engineVars => [Turn!TurnNext]_(Turn!turnVars)
    BY TurnRefinementStep
<1> QED
    BY <1>1, <1>2, PTL DEF EngineSpec, KeepsTurnProtocol, Turn!TurnSpec

--------------------------------------------------------------------------------
(***************************************************************************)
(* Tool calls complete in the order they were requested: what has been     *)
(* requested and not completed is exactly what is pending.                 *)
(***************************************************************************)

\* The calls of the events of one type in a sequence of events.
CallsIn(es, type) ==
    LET ofType == Selected(es, [type : {type}, call : CallIds \cup {NoCall},
                                detail : EventDetails])
    IN  [i \in DOMAIN ofType |-> ofType[i].call]

CallEvents == {"ToolRequested", "ToolPermissionResolved", "ToolCompleted"}

LEMMA CallsOfIsCallsIn ==
    ASSUME NEW type
    PROVE  CallsOf(type) = CallsIn(events, type) /\ CallsOf(type)' = CallsIn(events', type)
    BY DEF CallsOf, CallsIn

LEMMA CallsInEmpty ==
    ASSUME NEW type
    PROVE  CallsIn(<<>>, type) = <<>>
    BY SelectedEmpty DEF CallsIn

LEMMA CallsInType ==
    ASSUME NEW es \in Seq(EngineEvent), NEW type
    PROVE  CallsIn(es, type) \in Seq(CallIds \cup {NoCall})
<1> DEFINE S == [type : {type}, call : CallIds \cup {NoCall}, detail : EventDetails]
           v == Selected(es, S)
<1>1. v \in Seq(EngineEvent \cap S)
    BY SelectedIn
<1>2. CallsIn(es, type) = [i \in DOMAIN v |-> v[i].call]
    BY DEF CallsIn
<1> HIDE DEF v
<1>3. /\ DOMAIN v = 1 .. Len(v) /\ Len(v) \in Nat
      /\ \A i \in 1 .. Len(v) : v[i] \in S
    <2> HIDE DEF S
    <2> QED
        BY <1>1
<1>4. \A i \in 1 .. Len(v) : v[i].call \in CallIds \cup {NoCall}
    BY <1>3
<1> HIDE DEF S
<1> QED
    BY <1>2, <1>3, <1>4

\* One more event adds its call to the calls of its type.
LEMMA CallsInAppend ==
    ASSUME NEW es \in Seq(EngineEvent), NEW e \in EngineEvent, NEW type
    PROVE  CallsIn(Append(es, e), type) =
               IF e.type = type THEN Append(CallsIn(es, type), e.call) ELSE CallsIn(es, type)
<1> DEFINE S == [type : {type}, call : CallIds \cup {NoCall}, detail : EventDetails]
           v == Selected(es, S)
           w == Selected(Append(es, e), S)
<1>1. v \in Seq(EngineEvent \cap S)
    BY SelectedIn
<1>2. w = IF e \in S THEN Append(v, e) ELSE v
    BY SelectedAppend
<1>3. e \in S <=> e.type = type
    BY DEF EngineEvent
<1>4. /\ CallsIn(es, type) = [i \in DOMAIN v |-> v[i].call]
      /\ CallsIn(Append(es, e), type) = [i \in DOMAIN w |-> w[i].call]
    BY DEF CallsIn
<1> HIDE DEF S, v, w
<1>5. CASE e.type # type
    BY <1>2, <1>3, <1>4, <1>5
<1>6. CASE e.type = type
    <2>1. v \in Seq(EngineEvent) /\ w = Append(v, e)
        BY <1>1, <1>2, <1>3, <1>6
    <2> DEFINE c == [i \in DOMAIN v |-> v[i].call]
    <2>2. Append(c, e.call) = [i \in DOMAIN w |-> w[i].call]
        BY <2>1
    <2> QED
        BY <1>4, <1>6, <2>2
<1> QED
    BY <1>5, <1>6

\* Events of other types.
NoCalls(es) == es \in Seq(EngineEvent) /\ \A i \in 1 .. Len(es) : es[i].type \notin CallEvents

LEMMA SilentConcat ==
    ASSUME NEW es \in Seq(EngineEvent), NEW others, NoCalls(others), NEW type \in CallEvents
    PROVE  /\ es \o others \in Seq(EngineEvent)
           /\ CallsIn(es \o others, type) = CallsIn(es, type)
<1> DEFINE S == [type : {type}, call : CallIds \cup {NoCall}, detail : EventDetails]
<1>1. others \in Seq(EngineEvent) /\ \A i \in 1 .. Len(others) : others[i] \notin S
    BY DEF NoCalls
<1>2. CallsIn(es \o others, type) = CallsIn(es, type)
    <2>1. Selected(es \o others, S) = Selected(es, S)
        <3> HIDE DEF S
        <3> QED
            BY <1>1, SelectedConcatNone
    <2> QED
        BY <2>1, Zenon DEF CallsIn
<1> QED
    BY <1>1, <1>2, ConcatProperties

LEMMA NoCallsEmpty == NoCalls(<<>>)
    BY DEF NoCalls

LEMMA NoCallsOne ==
    ASSUME NEW type \in EventTypes \ CallEvents
    PROVE  NoCalls(<<PlainEvent(type)>>)
<1>1. PlainEvent(type) \in EngineEvent /\ PlainEvent(type).type = type
    BY PlainEventType DEF PlainEvent, EventOf
<1> QED
    BY <1>1 DEF NoCalls

LEMMA NoCallsTwo ==
    ASSUME NEW a \in EngineEvent, NEW b \in EngineEvent,
           a.type \notin CallEvents, b.type \notin CallEvents
    PROVE  NoCalls(<<a, b>>)
    BY DEF NoCalls

LEMMA NoCallsCompaction ==
    ASSUME NEW m
    PROVE  NoCalls(CompactionEvents(m))
<1>1. "CompactionApplied" \in EventTypes \ CallEvents
    BY DEF EventTypes, CallEvents
<1> QED
    BY <1>1, NoCallsEmpty, NoCallsOne DEF CompactionEvents

LEMMA NoCallsClosing ==
    ASSUME NEW reason \in StopReasons
    PROVE  NoCalls(ClosingEvents(reason))
<1>1. /\ EventOf("TurnFinished", NoCall, reason) \in EngineEvent
      /\ EventOf("SessionFinished", NoCall, reason) \in EngineEvent
    BY EventOfType DEF EventTypes, EventDetails
<1>2. /\ EventOf("TurnFinished", NoCall, reason).type \notin CallEvents
      /\ EventOf("SessionFinished", NoCall, reason).type \notin CallEvents
    BY DEF EventOf, CallEvents
<1> QED
    BY <1>1, <1>2, NoCallsTwo DEF ClosingEvents

\* The step emits nothing about calls.
Silent == \A type \in CallEvents : CallsOf(type)' = CallsOf(type)

LEMMA SilentEmission ==
    ASSUME EngineTyping, NEW before, NoCalls(before), NEW after, NoCalls(after),
           events' = events \o before \o after
    PROVE  Silent
<1>1. events \in Seq(EngineEvent)
    BY DEF EngineTyping, EngineTypeOK
<1> SUFFICES ASSUME NEW type \in CallEvents PROVE CallsIn(events', type) = CallsIn(events, type)
    BY CallsOfIsCallsIn DEF Silent
<1> DEFINE mid == events \o before
<1>2. mid \in Seq(EngineEvent) /\ CallsIn(mid, type) = CallsIn(events, type)
    BY <1>1, SilentConcat
<1>3. events' = mid \o after
    OBVIOUS
<1> HIDE DEF mid
<1>4. CallsIn(mid \o after, type) = CallsIn(mid, type)
    BY <1>2, SilentConcat
<1> QED
    BY <1>2, <1>3, <1>4, Zenon

LEMMA SilentAppend ==
    ASSUME EngineTyping, NEW before, NoCalls(before), NEW m, AppendAndEmit(before, m)
    PROVE  Silent
    BY NoCallsCompaction, SilentEmission DEF AppendAndEmit

LEMMA SilentFinish ==
    ASSUME EngineTyping, NEW before, NoCalls(before), NEW reason \in StopReasons,
           FinishSuccess(before, reason)
    PROVE  Silent
    BY NoCallsClosing, SilentEmission DEF FinishSuccess

LEMMA SilentFail ==
    ASSUME EngineTyping, NEW before, NoCalls(before), FailTurn(before)
    PROVE  Silent
<1> DEFINE mid == events \o before
           failed == <<PlainEvent("EngineFailed")>>
           closing == ClosingEvents("Failed")
<1>1. events \in Seq(EngineEvent) /\ events' = mid \o failed \o closing
    BY DEF EngineTyping, EngineTypeOK, FailTurn
<1>2. NoCalls(failed) /\ NoCalls(closing)
    BY NoCallsOne, NoCallsClosing DEF EventTypes, CallEvents, StopReasons
<1> SUFFICES ASSUME NEW type \in CallEvents PROVE CallsIn(events', type) = CallsIn(events, type)
    BY CallsOfIsCallsIn DEF Silent
<1>3. mid \in Seq(EngineEvent) /\ CallsIn(mid, type) = CallsIn(events, type)
    BY <1>1, SilentConcat
<1> HIDE DEF mid, failed, closing
<1> DEFINE more == mid \o failed
<1>4. more \in Seq(EngineEvent) /\ CallsIn(more, type) = CallsIn(mid, type)
    BY <1>2, <1>3, SilentConcat
<1>5. events' = more \o closing
    BY <1>1
<1> HIDE DEF more
<1>6. CallsIn(more \o closing, type) = CallsIn(more, type)
    BY <1>2, <1>4, SilentConcat
<1> QED
    BY <1>3, <1>4, <1>5, <1>6, Zenon

LEMMA SilentUnchanged ==
    ASSUME events' = events
    PROVE  Silent
    BY CallsOfIsCallsIn DEF Silent

IdsOf(calls) == [i \in DOMAIN calls |-> calls[i].id]

\* The phases in which no call is pending.
FreePhases == {"idle", "started", "commanding", "looping", "awaitingModel", "deciding"}

\* The kinds of steps, by what they do to the calls.
RejectStep ==
    /\ phase = "idle" /\ phase' = "idle" /\ outcome' = "Rejected"
    /\ pendingCalls' = pendingCalls /\ Silent

StartStep ==
    /\ phase = "idle" /\ phase' = "started" /\ outcome' = "Running"
    /\ pendingCalls' = pendingCalls
    /\ events' = <<PlainEvent("SessionStarted"), PlainEvent("TurnStarted")>>

LeaveStep ==
    /\ phase # "idle" /\ phase' = "idle" /\ pendingCalls' = <<>>
    /\ outcome' # "Running"
    /\ outcome' \in {"Completed", "BudgetStopped", "MaxTurnsReached"} =>
           phase \in {"looping", "deciding"}
    /\ Silent

StayStep ==
    /\ phase # "idle" /\ phase' # "idle" /\ outcome' = outcome /\ pendingCalls' = pendingCalls
    /\ phase' \in FreePhases => phase \in FreePhases \/ pendingCalls = <<>>
    /\ Silent

RequestStep ==
    /\ phase = "streaming" /\ phase' = "streaming" /\ outcome' = outcome
    /\ \E call \in ToolCall :
           /\ pendingCalls' = Append(pendingCalls, call)
           /\ events' = Append(events, EventOf("ToolRequested", call.id, ""))

CompleteStep ==
    /\ phase \in {"executing", "asking"} /\ phase' = "calling" /\ outcome' = outcome
    /\ \E behavior \in Behaviors : CompleteToolCall(behavior)

LEMMA FinishLeaves ==
    ASSUME EngineTyping, NEW before, NoCalls(before), NEW reason \in StopReasons,
           FinishSuccess(before, reason), phase # "idle",
           reason \in {"Completed", "BudgetStopped", "MaxTurnsReached"} =>
               phase \in {"looping", "deciding"}
    PROVE  LeaveStep
<1>1. Silent
    BY SilentFinish
<1>2. reason # "Running"
    BY DEF StopReasons
<1> QED
    BY <1>1, <1>2 DEF FinishSuccess, LeaveTurn, LeaveStep

LEMMA FailLeaves ==
    ASSUME EngineTyping, NEW before, NoCalls(before), FailTurn(before), phase # "idle"
    PROVE  LeaveStep
<1>1. Silent
    BY SilentFail
<1> QED
    BY <1>1 DEF FailTurn, LeaveTurn, LeaveStep

\* Every step of the engine is of one of these kinds.
LEMMA CallStepKinds ==
    ASSUME EngineTyping, EngineNext
    PROVE  \/ RejectStep \/ StartStep \/ LeaveStep \/ StayStep \/ RequestStep \/ CompleteStep
<1>1. CASE \E cfg \in Configs : SubmitRejected(cfg)
    BY <1>1, SilentUnchanged DEF SubmitRejected, RejectStep
<1>2. CASE \E req \in {"prompt", "command"}, cfg \in Configs : Submit(req, cfg)
    BY <1>2 DEF Submit, StartStep
<1>3. CASE StartCancelled \/ LoopCancelled \/ StreamCancelled \/ ModelCancelled
    BY <1>3, FinishLeaves, NoCallsEmpty
    DEF StartCancelled, LoopCancelled, StreamCancelled, ModelCancelled, StopReasons
<1>4. CASE MaxTurnsReached
    BY <1>4, FinishLeaves, NoCallsEmpty DEF MaxTurnsReached, StopReasons
<1>5. CASE CommandHandled
    <2>1. NoCalls(<<PlainEvent("CommandParsed"), PlainEvent("CommandExecuted")>>)
        <3>1. /\ PlainEvent("CommandParsed") \in EngineEvent
              /\ PlainEvent("CommandExecuted") \in EngineEvent
            BY PlainEventType DEF EventTypes
        <3>2. /\ PlainEvent("CommandParsed").type \notin CallEvents
              /\ PlainEvent("CommandExecuted").type \notin CallEvents
            BY DEF PlainEvent, EventOf, CallEvents
        <3> QED
            BY <3>1, <3>2, NoCallsTwo
    <2>2. /\ phase = "commanding" /\ "CommandHandled" \in StopReasons
          /\ FinishSuccess(<<PlainEvent("CommandParsed"), PlainEvent("CommandExecuted")>>,
                           "CommandHandled")
        BY <1>5 DEF CommandHandled, StopReasons
    <2> QED
        BY <2>1, <2>2, FinishLeaves
<1>6. CASE CommandFails
    <2>1. NoCalls(<<PlainEvent("CommandParsed")>>)
        BY NoCallsOne DEF EventTypes, CallEvents
    <2> QED
        BY <1>6, <2>1, FailLeaves DEF CommandFails
<1>7. CASE \/ CommandDoesNotParse \/ ModelStreamFails \/ ModelError \/ StreamWithoutFinish
           \/ ToolCallFails \/ AllowedToolFails \/ PermissionResolverFails \/ ToolUseWithoutCall
    <2>1. phase # "idle" /\ FailTurn(<<>>)
        BY <1>7 DEF CommandDoesNotParse, ModelStreamFails, ModelError, StreamWithoutFinish,
            ToolCallFails, AllowedToolFails, PermissionResolverFails, ToolUseWithoutCall
    <2> QED
        BY <2>1, FailLeaves, NoCallsEmpty
<1>8. CASE BeginPrompt
    <2>1. Silent
        BY <1>8, SilentAppend, NoCallsEmpty DEF BeginPrompt
    <2> QED
        BY <1>8, <2>1 DEF BeginPrompt, StayStep, FreePhases
<1>9. CASE Cancel \/ BeginCommand \/ BeginModelPass \/ ModelStreamReady \/ AskPermission \/ ToolCallsDone
    <2>1. Silent
        BY <1>9, SilentUnchanged
        DEF Cancel, BeginCommand, BeginModelPass, ModelStreamReady, AskPermission, ToolCallsDone
    <2> QED
        BY <1>9, <2>1
        DEF Cancel, BeginCommand, BeginModelPass, ModelStreamReady, AskPermission, ToolCallsDone, StayStep,
            FreePhases
<1>10. CASE \/ TextDelta \/ (\E total \in UsageLevels : UsageUpdated(total))
            \/ AssistantMessageFinished \/ (\E reason \in FinishReasons : ModelFinished(reason))
    <2>1. /\ phase = "streaming" /\ phase' = "streaming" /\ outcome' = outcome
          /\ pendingCalls' = pendingCalls /\ events' = events
        BY <1>10
        DEF TextDelta, UsageUpdated, AssistantMessageFinished, ModelFinished, NextStreamEvent
    <2> QED
        BY <2>1, SilentUnchanged DEF StayStep, FreePhases
<1>11. CASE \E call \in ToolCall : ToolCallRequested(call)
    BY <1>11 DEF ToolCallRequested, NextStreamEvent, RequestStep
<1>12. CASE StreamEnds
    <2>1. Silent
        <3>1. CASE assistantBuffer
            BY <1>12, <3>1, SilentAppend, NoCallsEmpty DEF StreamEnds
        <3>2. CASE ~ assistantBuffer
            BY <1>12, <3>2, SilentUnchanged DEF StreamEnds
        <3> QED
            BY <3>1, <3>2
    <2> QED
        BY <1>12, <2>1 DEF StreamEnds, StayStep, FreePhases
<1>13. CASE BeginToolCall
    <2>1. Silent
        BY <1>13, SilentAppend, NoCallsEmpty DEF BeginToolCall
    <2> QED
        BY <1>13, <2>1 DEF BeginToolCall, StayStep, FreePhases
<1>14. CASE ToolRuns \/ (\E behavior \in Behaviors : PermissionResolved(behavior))
    <2>1. /\ phase \in {"executing", "asking"}
          /\ \E behavior \in Behaviors : CompleteToolCall(behavior)
        BY <1>14 DEF ToolRuns, PermissionResolved, Behaviors
    <2> QED
        BY <2>1 DEF CompleteStep, CompleteToolCall
<1>15. CASE BudgetContinues
    <2>1. NoCalls(<<PlainEvent("BudgetContinuationSuggested")>>)
        BY NoCallsOne DEF EventTypes, CallEvents
    <2>2. Silent
        BY <1>15, <2>1, SilentAppend DEF BudgetContinues
    <2> QED
        BY <1>15, <2>2 DEF BudgetContinues, StayStep, FreePhases
<1>16. CASE TurnEnds
    <2>1. PICK reason \in {"BudgetStopped", "Completed"} :
              LeaveTurn(reason) /\ events' = events \o ClosingEvents(reason)
        BY <1>16 DEF TurnEnds
    <2>2. reason \in StopReasons /\ reason # "Running"
        BY DEF StopReasons
    <2>3. events \o <<>> = events
        BY DEF EngineTyping, EngineTypeOK
    <2>4. events' = events \o <<>> \o ClosingEvents(reason)
        BY <2>1, <2>3
    <2>5. Silent
        BY <2>2, <2>4, NoCallsEmpty, NoCallsClosing, SilentEmission
    <2>6. phase = "deciding"
        BY <1>16 DEF TurnEnds
    <2> QED
        BY <2>1, <2>2, <2>5, <2>6 DEF LeaveTurn, LeaveStep
<1>17. CASE CallerStep \/ DriverStep \/ ResolverStep
    BY <1>1, <1>2, <1>7, <1>9, <1>14, <1>17 DEF CallerStep, DriverStep, ResolverStep
<1>18. CASE InternalStep
    BY <1>3, <1>4, <1>5, <1>6, <1>7, <1>8, <1>9, <1>10, <1>11, <1>12, <1>13, <1>14, <1>15, <1>16,
       <1>18 DEF InternalStep
<1> QED
    BY <1>9, <1>17, <1>18 DEF EngineNext, EngineStep

CallsInvariant ==
    /\ CallsOf("ToolPermissionResolved") = CallsOf("ToolCompleted")
    /\ phase # "idle" =>
           /\ CallsOf("ToolRequested") = CallsOf("ToolCompleted") \o IdsOf(pendingCalls)
           /\ outcome = "Running"
    /\ phase \in FreePhases => pendingCalls = <<>>
    /\ CallsCompleteInOrder

\* A sequence is a prefix of itself with something behind it.
LEMMA PrefixOfConcat ==
    ASSUME NEW T, NEW s \in Seq(T), NEW t \in Seq(T)
    PROVE  IsPrefixOf(s, s \o t)
<1>1. /\ Len(s) \in Nat /\ Len(t) \in Nat /\ DOMAIN s = 1 .. Len(s)
      /\ Len(s \o t) = Len(s) + Len(t)
      /\ \A i \in 1 .. Len(s) : (s \o t)[i] = s[i]
    OBVIOUS
<1> QED
    BY <1>1 DEF IsPrefixOf

LEMMA IdsOfType ==
    ASSUME NEW calls \in Seq(ToolCall)
    PROVE  IdsOf(calls) \in Seq(CallIds \cup {NoCall})
<1>1. /\ DOMAIN calls = 1 .. Len(calls) /\ Len(calls) \in Nat
      /\ \A i \in 1 .. Len(calls) : calls[i] \in ToolCall
    OBVIOUS
<1>2. \A i \in 1 .. Len(calls) : calls[i].id \in CallIds \cup {NoCall}
    BY <1>1 DEF ToolCall
<1> QED
    BY <1>1, <1>2 DEF IdsOf

LEMMA IdsOfAppend ==
    ASSUME NEW calls \in Seq(ToolCall), NEW call \in ToolCall
    PROVE  IdsOf(Append(calls, call)) = Append(IdsOf(calls), call.id)
<1> DEFINE w == Append(calls, call)
           t == IdsOf(calls)
<1>1. /\ DOMAIN w = 1 .. Len(calls) + 1 /\ Len(calls) \in Nat
      /\ \A i \in 1 .. Len(calls) : w[i] = calls[i]
      /\ w[Len(calls) + 1] = call
    OBVIOUS
<1>2. t \in Seq(CallIds \cup {NoCall}) /\ Len(t) = Len(calls)
      /\ \A i \in 1 .. Len(calls) : t[i] = calls[i].id
    <2>1. t \in Seq(CallIds \cup {NoCall})
        BY IdsOfType
    <2>2. DOMAIN calls = 1 .. Len(calls) /\ Len(calls) \in Nat
        OBVIOUS
    <2> QED
        BY <2>1, <2>2 DEF IdsOf
<1>3. call.id \in CallIds \cup {NoCall}
    BY DEF ToolCall
<1>4. IdsOf(w) = [i \in 1 .. Len(calls) + 1 |-> w[i].id]
    BY <1>1 DEF IdsOf
<1> HIDE DEF w, t
<1>5. IdsOf(w) = Append(t, call.id)
    BY <1>1, <1>2, <1>3, <1>4
<1> QED
    BY <1>5 DEF w, t

\* When what is requested and not completed is what is pending, the calls completed
\* are the first ones requested.
LEMMA CompletedAreTheFirst ==
    ASSUME NEW es \in Seq(EngineEvent), NEW calls \in Seq(ToolCall),
           CallsIn(es, "ToolRequested") = CallsIn(es, "ToolCompleted") \o IdsOf(calls)
    PROVE  IsPrefixOf(CallsIn(es, "ToolCompleted"), CallsIn(es, "ToolRequested"))
<1>1. IdsOf(calls) \in Seq(CallIds \cup {NoCall})
    BY IdsOfType
<1>2. CallsIn(es, "ToolCompleted") \in Seq(CallIds \cup {NoCall})
    BY CallsInType
<1>3. IsPrefixOf(CallsIn(es, "ToolCompleted"), CallsIn(es, "ToolCompleted") \o IdsOf(calls))
    BY <1>1, <1>2, PrefixOfConcat
<1> QED
    BY <1>3

\* A step that leaves the turn running keeps the order when it keeps that account.
LEMMA InOrderWhileRunning ==
    ASSUME EngineTyping', outcome' = "Running",
           CallsOf("ToolPermissionResolved")' = CallsOf("ToolCompleted")',
           CallsOf("ToolRequested")' = CallsOf("ToolCompleted")' \o IdsOf(pendingCalls)'
    PROVE  CallsCompleteInOrder'
<1>1. events' \in Seq(EngineEvent) /\ pendingCalls' \in Seq(ToolCall)
    BY DEF EngineTyping, EngineTypeOK
<1>2. IdsOf(pendingCalls)' = IdsOf(pendingCalls')
    BY DEF IdsOf
<1>3. CallsIn(events', "ToolRequested") =
          CallsIn(events', "ToolCompleted") \o IdsOf(pendingCalls')
    BY <1>2, CallsOfIsCallsIn
<1>4. IsPrefixOf(CallsIn(events', "ToolCompleted"), CallsIn(events', "ToolRequested"))
    BY <1>1, <1>3, CompletedAreTheFirst
<1>5. IsPrefixOf(CallsOf("ToolCompleted"), CallsOf("ToolRequested"))'
    BY <1>4, CallsOfIsCallsIn DEF IsPrefixOf
<1> QED
    BY <1>5 DEF CallsCompleteInOrder

LEMMA MoveTheHead ==
    ASSUME NEW T, NEW s \in Seq(T), NEW t \in Seq(T), t # <<>>
    PROVE  s \o t = Append(s, Head(t)) \o Tail(t)
    OBVIOUS

\* A request adds its call to the pending ones.
LEMMA RequestKeepsCalls ==
    ASSUME EngineTyping, EngineTyping', CallsInvariant, RequestStep
    PROVE  CallsInvariant'
<1>1. PICK call \in ToolCall :
          /\ pendingCalls' = Append(pendingCalls, call)
          /\ events' = Append(events, EventOf("ToolRequested", call.id, ""))
    BY DEF RequestStep
<1> DEFINE e == EventOf("ToolRequested", call.id, "")
<1>2. /\ events \in Seq(EngineEvent) /\ e \in EngineEvent
      /\ e.type = "ToolRequested" /\ e.call = call.id
      /\ call.id \in CallIds \cup {NoCall} /\ pendingCalls \in Seq(ToolCall)
    BY EventOfType DEF EngineTyping, EngineTypeOK, EventOf, EventTypes, EventDetails, ToolCall
<1> HIDE DEF e
<1>3. /\ CallsIn(Append(events, e), "ToolRequested") =
             Append(CallsIn(events, "ToolRequested"), call.id)
      /\ CallsIn(Append(events, e), "ToolCompleted") = CallsIn(events, "ToolCompleted")
      /\ CallsIn(Append(events, e), "ToolPermissionResolved") =
             CallsIn(events, "ToolPermissionResolved")
    <2>1. \A type : CallsIn(Append(events, e), type) =
              IF e.type = type THEN Append(CallsIn(events, type), e.call)
              ELSE CallsIn(events, type)
        BY <1>2, CallsInAppend
    <2> QED
        BY <1>2, <2>1
<1>4. /\ CallsOf("ToolRequested")' = Append(CallsOf("ToolRequested"), call.id)
      /\ CallsOf("ToolCompleted")' = CallsOf("ToolCompleted")
      /\ CallsOf("ToolPermissionResolved")' = CallsOf("ToolPermissionResolved")
    BY <1>1, <1>3, CallsOfIsCallsIn DEF e
<1>5. IdsOf(pendingCalls') = Append(IdsOf(pendingCalls), call.id)
    BY <1>1, <1>2, IdsOfAppend
<1>6. /\ IdsOf(pendingCalls) \in Seq(CallIds \cup {NoCall})
      /\ CallsOf("ToolCompleted") \in Seq(CallIds \cup {NoCall})
    BY <1>2, IdsOfType, CallsInType, CallsOfIsCallsIn
<1>7. /\ phase = "streaming" /\ phase' = "streaming" /\ outcome' = outcome
      /\ outcome = "Running"
      /\ CallsOf("ToolRequested") = CallsOf("ToolCompleted") \o IdsOf(pendingCalls)
      /\ CallsOf("ToolPermissionResolved") = CallsOf("ToolCompleted")
    BY DEF RequestStep, CallsInvariant
<1>8. CallsOf("ToolRequested")' = CallsOf("ToolCompleted")' \o IdsOf(pendingCalls)'
    <2>1. Append(CallsOf("ToolCompleted") \o IdsOf(pendingCalls), call.id) =
          CallsOf("ToolCompleted") \o Append(IdsOf(pendingCalls), call.id)
        <3> DEFINE T == CallIds \cup {NoCall}
                   u == CallsOf("ToolCompleted")
                   v == IdsOf(pendingCalls)
                   x == call.id
        <3>1. u \in Seq(T) /\ v \in Seq(T) /\ x \in T
            BY <1>2, <1>6
        <3> HIDE DEF T, u, v, x
        <3>2. Append(u \o v, x) = u \o Append(v, x)
            BY <3>1
        <3> QED
            BY <3>2 DEF u, v, x
    <2> QED
        BY <1>4, <1>5, <1>7, <2>1
<1>9. outcome' = "Running"
    BY <1>7
<1>10. CallsOf("ToolPermissionResolved")' = CallsOf("ToolCompleted")'
    BY <1>4, <1>7
<1>11. CallsCompleteInOrder'
    BY <1>8, <1>9, <1>10, InOrderWhileRunning
<1>12. phase' \notin FreePhases
    BY <1>7 DEF FreePhases
<1> QED
    BY <1>8, <1>9, <1>10, <1>11, <1>12 DEF CallsInvariant

\* A completed call is the first of the pending ones.
LEMMA CompleteKeepsCalls ==
    ASSUME EngineTyping, EngineTyping', CallsInvariant, CompleteStep
    PROVE  CallsInvariant'
<1>1. PICK behavior \in Behaviors : CompleteToolCall(behavior)
    BY DEF CompleteStep
<1> DEFINE call == Head(pendingCalls).id
           a == EventOf("ToolPermissionResolved", call, behavior)
           b == EventOf("ToolCompleted", call, "")
           m == NewMessage("ToolResult", call)
<1>2. pendingCalls # <<>> /\ pendingCalls \in Seq(ToolCall) /\ events \in Seq(EngineEvent)
    BY DEF CompleteStep, EngineTyping, EngineTypeOK, CallInHand
<1>3. call \in CallIds
    <2>1. Head(pendingCalls) \in ToolCall
        BY <1>2, HeadTailProperties
    <2> QED
        BY <2>1 DEF ToolCall
<1>4. /\ a \in EngineEvent /\ a.type = "ToolPermissionResolved" /\ a.call = call
      /\ b \in EngineEvent /\ b.type = "ToolCompleted" /\ b.call = call
    <2>1. a \in EngineEvent
        BY <1>3, EventOfType DEF EventTypes, EventDetails
    <2>2. b \in EngineEvent
        BY <1>3, EventOfType DEF EventTypes, EventDetails
    <2> QED
        BY <2>1, <2>2 DEF EventOf
<1>5. events' = events \o <<a, b>> \o CompactionEvents(m) /\ pendingCalls' = Tail(pendingCalls)
    BY <1>1 DEF CompleteToolCall, AppendAndEmit
<1> HIDE DEF a, b, m
<1> DEFINE mid == Append(events, a)
           more == Append(mid, b)
<1>6. mid \in Seq(EngineEvent) /\ more \in Seq(EngineEvent) /\ events \o <<a, b>> = more
    BY <1>2, <1>4
<1>7. \A type : CallsIn(mid, type) =
          IF a.type = type THEN Append(CallsIn(events, type), a.call) ELSE CallsIn(events, type)
    BY <1>2, <1>4, CallsInAppend
<1> HIDE DEF mid
<1>8. \A type : CallsIn(more, type) =
          IF b.type = type THEN Append(CallsIn(mid, type), b.call) ELSE CallsIn(mid, type)
    BY <1>4, <1>6, CallsInAppend
<1> HIDE DEF more
<1>9. \A type \in CallEvents : CallsIn(events', type) = CallsIn(more, type)
    <2>1. events' = more \o CompactionEvents(m)
        BY <1>5, <1>6
    <2> DEFINE others == CompactionEvents(m)
    <2>2. NoCalls(others)
        BY NoCallsCompaction
    <2> HIDE DEF others
    <2>3. \A type \in CallEvents : CallsIn(more \o others, type) = CallsIn(more, type)
        BY <1>6, <2>2, SilentConcat
    <2> QED
        BY <2>1, <2>3, Zenon DEF others
<1> HIDE DEF call
<1>10. /\ CallsIn(events', "ToolRequested") = CallsIn(events, "ToolRequested")
       /\ CallsIn(events', "ToolCompleted") = Append(CallsIn(events, "ToolCompleted"), call)
       /\ CallsIn(events', "ToolPermissionResolved") =
              Append(CallsIn(events, "ToolPermissionResolved"), call)
    BY <1>4, <1>7, <1>8, <1>9 DEF CallEvents
<1>11. /\ CallsOf("ToolRequested")' = CallsOf("ToolRequested")
       /\ CallsOf("ToolCompleted")' = Append(CallsOf("ToolCompleted"), call)
       /\ CallsOf("ToolPermissionResolved")' = Append(CallsOf("ToolPermissionResolved"), call)
    BY <1>10, CallsOfIsCallsIn
<1> DEFINE ids == IdsOf(pendingCalls)
<1>12. ids # <<>> /\ Head(ids) = call /\ IdsOf(pendingCalls') = Tail(ids)
    BY <1>2, <1>5 DEF IdsOf, call
<1>13. /\ ids \in Seq(CallIds \cup {NoCall})
       /\ CallsOf("ToolCompleted") \in Seq(CallIds \cup {NoCall})
    BY <1>2, IdsOfType, CallsInType, CallsOfIsCallsIn
<1>14. /\ phase # "idle" /\ phase' = "calling" /\ outcome' = "Running"
       /\ CallsOf("ToolRequested") = CallsOf("ToolCompleted") \o ids
       /\ CallsOf("ToolPermissionResolved") = CallsOf("ToolCompleted")
    BY DEF CompleteStep, CallsInvariant
<1> HIDE DEF ids
<1>15. CallsOf("ToolRequested")' = CallsOf("ToolCompleted")' \o IdsOf(pendingCalls)'
    <2>1. CallsOf("ToolCompleted") \o ids = Append(CallsOf("ToolCompleted"), Head(ids)) \o Tail(ids)
        BY <1>12, <1>13, MoveTheHead
    <2> QED
        BY <1>11, <1>12, <1>14, <2>1
<1>16. CallsOf("ToolPermissionResolved")' = CallsOf("ToolCompleted")'
    BY <1>11, <1>14
<1>17. CallsCompleteInOrder'
    BY <1>14, <1>15, <1>16, InOrderWhileRunning
<1>18. phase' \notin FreePhases
    BY <1>14 DEF FreePhases
<1> QED
    BY <1>14, <1>15, <1>16, <1>17, <1>18 DEF CallsInvariant

\* The steps that emit nothing about calls.
LEMMA SilentKeepsCalls ==
    ASSUME EngineTyping, EngineTyping', CallsInvariant, RejectStep \/ LeaveStep \/ StayStep
    PROVE  CallsInvariant'
<1>1. /\ CallsOf("ToolRequested")' = CallsOf("ToolRequested")
      /\ CallsOf("ToolCompleted")' = CallsOf("ToolCompleted")
      /\ CallsOf("ToolPermissionResolved")' = CallsOf("ToolPermissionResolved")
    BY DEF RejectStep, LeaveStep, StayStep, Silent, CallEvents
<1>2. /\ CallsOf("ToolPermissionResolved") = CallsOf("ToolCompleted")
      /\ IsPrefixOf(CallsOf("ToolCompleted"), CallsOf("ToolRequested"))
      /\ phase # "idle" =>
             /\ CallsOf("ToolRequested") = CallsOf("ToolCompleted") \o IdsOf(pendingCalls)
             /\ outcome = "Running"
      /\ phase \in FreePhases => pendingCalls = <<>>
    BY DEF CallsInvariant, CallsCompleteInOrder
<1>3. IsPrefixOf(CallsOf("ToolCompleted")', CallsOf("ToolRequested")')
    BY <1>1, <1>2
<1>4. CASE RejectStep
    <2>1. /\ phase = "idle" /\ phase' = "idle" /\ outcome' = "Rejected"
          /\ pendingCalls' = pendingCalls
        BY <1>4 DEF RejectStep
    <2>2. CallsCompleteInOrder'
        BY <1>1, <1>2, <1>3, <2>1 DEF CallsCompleteInOrder, IsPrefixOf
    <2> QED
        BY <1>1, <1>2, <2>1, <2>2 DEF CallsInvariant, FreePhases
<1>5. CASE LeaveStep
    <2>1. /\ phase # "idle" /\ phase' = "idle" /\ pendingCalls' = <<>>
          /\ outcome' \in {"Completed", "BudgetStopped", "MaxTurnsReached"} =>
                 phase \in FreePhases
        BY <1>5 DEF LeaveStep, FreePhases
    <2>2. ASSUME outcome' \in {"Completed", "BudgetStopped", "MaxTurnsReached"}
          PROVE  CallsOf("ToolCompleted") = CallsOf("ToolRequested")
        <3>1. pendingCalls = <<>>
            BY <1>2, <2>1, <2>2
        <3>2. IdsOf(pendingCalls) = <<>>
            BY <3>1 DEF IdsOf
        <3>3. CallsOf("ToolCompleted") \in Seq(CallIds \cup {NoCall})
            BY CallsInType, CallsOfIsCallsIn DEF EngineTyping, EngineTypeOK
        <3>4. CallsOf("ToolCompleted") \o <<>> = CallsOf("ToolCompleted")
            BY <3>3, ConcatEmptySeq
        <3> QED
            BY <1>2, <2>1, <3>2, <3>4
    <2>3. CallsCompleteInOrder'
        BY <1>1, <1>2, <1>3, <2>2 DEF CallsCompleteInOrder
    <2> QED
        BY <1>1, <1>2, <2>1, <2>3 DEF CallsInvariant
<1>6. CASE StayStep
    <2>1. /\ phase # "idle" /\ phase' # "idle" /\ outcome' = "Running"
          /\ pendingCalls' = pendingCalls
          /\ phase' \in FreePhases => pendingCalls = <<>>
        BY <1>2, <1>6 DEF StayStep
    <2>2. CallsOf("ToolRequested")' = CallsOf("ToolCompleted")' \o IdsOf(pendingCalls)'
        BY <1>1, <1>2, <2>1
    <2>3. CallsOf("ToolPermissionResolved")' = CallsOf("ToolCompleted")'
        BY <1>1, <1>2
    <2>4. CallsCompleteInOrder'
        BY <2>1, <2>2, <2>3, InOrderWhileRunning
    <2> QED
        BY <2>1, <2>2, <2>3, <2>4 DEF CallsInvariant
<1> QED
    BY <1>4, <1>5, <1>6

LEMMA StartKeepsCalls ==
    ASSUME EngineTyping, EngineTyping', CallsInvariant, StartStep
    PROVE  CallsInvariant'
<1> DEFINE opening == <<PlainEvent("SessionStarted"), PlainEvent("TurnStarted")>>
<1>1. NoCalls(opening)
    <2>1. PlainEvent("SessionStarted") \in EngineEvent /\ PlainEvent("TurnStarted") \in EngineEvent
        BY PlainEventType DEF EventTypes
    <2>2. /\ PlainEvent("SessionStarted").type \notin CallEvents
          /\ PlainEvent("TurnStarted").type \notin CallEvents
        BY DEF PlainEvent, EventOf, CallEvents
    <2> QED
        BY <2>1, <2>2, NoCallsTwo
<1>2. events' = opening /\ opening \in Seq(EngineEvent)
    BY <1>1 DEF StartStep, NoCalls
<1> HIDE DEF opening
<1>3. \A type \in CallEvents : CallsIn(events', type) = <<>>
    <2>1. <<>> \in Seq(EngineEvent) /\ <<>> \o opening = opening
        BY <1>2
    <2>2. \A type \in CallEvents : CallsIn(<<>> \o opening, type) = CallsIn(<<>>, type)
        BY <1>1, <2>1, SilentConcat
    <2> QED
        BY <1>2, <2>1, <2>2, CallsInEmpty, Zenon
<1>4. /\ CallsOf("ToolRequested")' = <<>> /\ CallsOf("ToolCompleted")' = <<>>
      /\ CallsOf("ToolPermissionResolved")' = <<>>
    BY <1>3, CallsOfIsCallsIn DEF CallEvents
<1>5. pendingCalls' = <<>> /\ outcome' = "Running"
    BY DEF StartStep, CallsInvariant, FreePhases
<1>6. IdsOf(pendingCalls)' = <<>>
    BY <1>5 DEF IdsOf
<1>7. CallsOf("ToolRequested")' = CallsOf("ToolCompleted")' \o IdsOf(pendingCalls)'
    BY <1>4, <1>6
<1>8. CallsCompleteInOrder'
    BY <1>4, <1>5, <1>7, InOrderWhileRunning
<1> QED
    BY <1>4, <1>5, <1>7, <1>8 DEF CallsInvariant

\* The calls of a turn are permitted and completed one by one in the order the model
\* requested them, and a turn that ended well has completed them all.
THEOREM CallsAreCompletedInOrder == EngineSpec => []CallsCompleteInOrder
<1>1. EngineInit => CallsInvariant
    <2> SUFFICES ASSUME EngineInit PROVE CallsInvariant
        OBVIOUS
    <2>1. /\ phase = "idle" /\ pendingCalls = <<>> /\ outcome = "None" /\ events = <<>>
        BY DEF EngineInit
    <2>2. \A type : CallsOf(type) = <<>>
        BY <2>1, CallsInEmpty, CallsOfIsCallsIn
    <2> QED
        BY <2>1, <2>2 DEF CallsInvariant, CallsCompleteInOrder, IsPrefixOf
<1>2. EngineTyping /\ EngineTyping' /\ CallsInvariant /\ [EngineNext]_engineVars
      => CallsInvariant'
    <2> SUFFICES ASSUME EngineTyping, EngineTyping', CallsInvariant, [EngineNext]_engineVars
                 PROVE  CallsInvariant'
        OBVIOUS
    <2>1. CASE EngineNext
        BY <2>1, CallStepKinds, StartKeepsCalls, SilentKeepsCalls, RequestKeepsCalls,
           CompleteKeepsCalls
    <2>2. CASE UNCHANGED engineVars
        <3>1. UNCHANGED <<phase, pendingCalls, outcome, events>>
            BY <2>2 DEF engineVars
        <3> QED
            BY <3>1 DEF CallsInvariant, CallsCompleteInOrder, CallsOf
    <2> QED
        BY <2>1, <2>2
<1>3. CallsInvariant => CallsCompleteInOrder
    BY DEF CallsInvariant
<1> QED
    BY <1>1, <1>2, <1>3, EngineTypingInvariant, PTL DEF EngineSpec
================================================================================
