------------------------- MODULE HeadlessSession_proofs -------------------------
(***************************************************************************)
(* Proofs about HeadlessSession: its turns are turns of the conversation   *)
(* engine, a waiting permission request can always be answered, the        *)
(* session implements PermissionProtocol, every user message is answered   *)
(* once, and the client is told what became of its requests.               *)
(***************************************************************************)
EXTENDS HeadlessSession, ConversationEngine_proofs, Selection_proofs

--------------------------------------------------------------------------------
(***************************************************************************)
(* The engine inside the session takes engine steps only, so what holds of *)
(* the engine on its own holds of the engine in the session.               *)
(***************************************************************************)

LEMMA SessionTakesEngineSteps ==
    ASSUME [HeadlessNext]_headlessVars
    PROVE  [EngineNext]_engineVars
<1>1. CASE ClientStep \/ InputThreadReturns
    BY <1>1 DEF ClientStep, ClientWrites, InputEnds, StdoutCloses, InputThreadReturns
<1>2. CASE TurnStep
    BY <1>2 DEF TurnStep, EngineRuns, PermissionRequested, PermissionRequestLost,
        LostRequestFailsTurn, PermissionDenied, PermissionAllowed, TurnReported,
        EngineNext, EngineStep, ResolverStep, Behaviors
<1>3. CASE DriverAnswers
    BY <1>3 DEF DriverAnswers, EngineNext
<1>4. CASE UserStartsTurn
    BY <1>4 DEF UserStartsTurn, Receive, EngineNext, CallerStep
<1>5. CASE Interrupt
    BY <1>5 DEF Interrupt, EngineNext, CallerStep
<1>6. CASE HostStep /\ ~ UserStartsTurn /\ ~ Interrupt
    BY <1>6 DEF HostStep, PromptNotSaved, IdleMessage, IdleEof, InputThreadJoined,
        UserIsTurnedAway, ResponseAccepted, ResponseUnmatched, ResponseWithoutDecision,
        TurnMessage, TurnEof, ChannelClosed
<1>7. CASE UNCHANGED headlessVars
    BY <1>7 DEF headlessVars
<1> QED
    BY <1>1, <1>2, <1>3, <1>4, <1>5, <1>6, <1>7 DEF HeadlessNext

LEMMA SessionStartsTheEngine == HeadlessInit => EngineInit
    BY DEF HeadlessInit

\* The part of the session that is the engine behaves like the engine on its own,
\* so the invariants proved of the engine's steps hold in every session.
THEOREM SessionRunsTheEngine == HeadlessSpec => EngineInit /\ [][EngineNext]_engineVars
<1>1. [HeadlessNext]_headlessVars => [EngineNext]_engineVars
    BY SessionTakesEngineSteps
<1> QED
    BY <1>1, SessionStartsTheEngine, PTL DEF HeadlessSpec

\* The engine of a session is type correct.
THEOREM SessionEngineTyping == HeadlessSpec => []EngineTyping
<1>1. HeadlessInit => EngineTyping
    BY SessionStartsTheEngine, EngineTypingInit
<1>2. EngineTyping /\ [HeadlessNext]_headlessVars => EngineTyping'
    BY SessionTakesEngineSteps, EngineTypingStep
<1> QED
    BY <1>1, <1>2, PTL DEF HeadlessSpec

--------------------------------------------------------------------------------
(***************************************************************************)
(* The inductive invariant behind the permission requests.                 *)
(***************************************************************************)

ChannelType == channel \in Seq(Lines \cup {Eof})

\* Request ids are used in order: nothing is known of an id before it is taken, and
\* a tool runs only on a decision that was received.
RequestsInOrder ==
    /\ \A id \in RequestIds : id >= nextRequestId => oneshot[id] = "unused"
    /\ \A id \in received : id < nextRequestId
    /\ executed \subseteq received

\* Between two turns no request is open.
IdleHasNoRequest == hostPhase = "idle" => pending = {}

RequestInvariant ==
    ResolverTypeOK /\ ChannelType /\ RequestsInOrder /\ IdleHasNoRequest /\ AskIsAnswerable

\* What the client may send decides a request if it is not Ask.
LEMMA ResponseBehavior ==
    ASSUME ChannelType, channel # <<>>, Head(channel).behavior # "Ask"
    PROVE  Head(channel).behavior \in {"Allow", "Deny"}
<1>1. Head(channel) \in Lines \cup {Eof}
    BY HeadTailProperties DEF ChannelType
<1>2. Head(channel) # Eof
    BY DEF Eof
<1>3. CASE \E kind \in LineKinds \ {"response"} :
               Head(channel) = [kind |-> kind, id |-> 0, behavior |-> "Ask"]
    BY <1>3
<1>4. CASE Head(channel) \in [kind : {"response"}, id : RequestIds, behavior : Answers]
    BY <1>4, HeadlessAssumption DEF Behaviors
<1> QED
    BY <1>1, <1>2, <1>3, <1>4, Zenon DEF Lines

\* The steps that leave the requests alone.
RequestsUntouched == UNCHANGED <<nextRequestId, pending, oneshot, received, executed>>

LEMMA OtherSessionSteps ==
    ASSUME [HeadlessNext]_headlessVars,
           ~ PermissionRequested, ~ PermissionRequestLost,
           ~ PermissionDenied, ~ PermissionAllowed,
           ~ ResponseAccepted, ~ Interrupt, ~ TurnEof, ~ ChannelClosed
    PROVE  /\ RequestsUntouched
           /\ \/ hostPhase' \notin {"idle", "turn"}
              \/ hostPhase' = "idle" /\ hostPhase = "idle"
              \/ hostPhase' = "idle" /\ hostPhase = "turn" /\ phase = "idle"
              \/ hostPhase' = "turn" /\ hostPhase = "idle" /\ phase' = "started"
              \/ /\ hostPhase' = "turn" /\ hostPhase = "turn"
                 /\ phase = "asking" <=> phase' = "asking"
              \/ /\ hostPhase' = "turn" /\ hostPhase = "turn"
                 /\ phase' = "idle" /\ oneshot[CurrentRequest] = "failed"
<1>1. CASE ClientStep \/ InputThreadReturns
    BY <1>1 DEF ClientStep, ClientWrites, InputEnds, StdoutCloses, InputThreadReturns,
        RequestsUntouched, resolverVars, hostVars, engineVars
<1>2. CASE EngineRuns
    <2>1. phase # "asking" /\ phase' # "asking"
        BY <1>2 DEF EngineRuns, InternalStep,
            StartCancelled, BeginCommand, CommandDoesNotParse, CommandFails, CommandHandled,
            BeginPrompt,
            LoopCancelled, MaxTurnsReached, BeginModelPass, StreamCancelled, NextStreamEvent,
            TextDelta, ToolCallRequested, UsageUpdated, AssistantMessageFinished, ModelFinished,
            ModelError, StreamWithoutFinish, StreamEnds, BeginToolCall, CompleteToolCall,
            ToolCallFails, ToolRuns, ToolCallsDone, ModelCancelled, ToolUseWithoutCall,
            BudgetContinues, TurnEnds, FinishSuccess, FailTurn, LeaveTurn
    <2> QED
        BY <1>2, <2>1 DEF EngineRuns, RequestsUntouched, resolverVars, hostVars
<1>3. CASE DriverAnswers
    BY <1>3 DEF DriverAnswers, DriverStep, ModelStreamFails, ModelStreamReady, FailTurn, LeaveTurn,
        RequestsUntouched, resolverVars, hostVars
<1>4. CASE LostRequestFailsTurn
    BY <1>4 DEF LostRequestFailsTurn, PermissionResolverFails, FailTurn, LeaveTurn,
        RequestsUntouched, resolverVars, hostVars
<1>5. CASE TurnReported
    BY <1>5 DEF TurnReported, RequestsUntouched, resolverVars
<1>6. CASE UserStartsTurn
    BY <1>6 DEF UserStartsTurn, Submit, RequestsUntouched, resolverVars
<1>7. CASE \/ PromptNotSaved \/ IdleMessage \/ IdleEof \/ InputThreadJoined
           \/ UserIsTurnedAway \/ ResponseUnmatched \/ ResponseWithoutDecision \/ TurnMessage
    BY <1>7 DEF PromptNotSaved, IdleMessage, IdleEof, InputThreadJoined, UserIsTurnedAway,
        ResponseUnmatched, ResponseWithoutDecision, TurnMessage, TurnReceives, Reply,
        RequestsUntouched, resolverVars, engineVars
<1>8. CASE UNCHANGED headlessVars
    BY <1>8 DEF headlessVars, RequestsUntouched, resolverVars, hostVars, engineVars
<1> QED
    BY <1>1, <1>2, <1>3, <1>4, <1>5, <1>6, <1>7, <1>8 DEF HeadlessNext, TurnStep, HostStep

LEMMA ChannelTypeStep ==
    ASSUME ChannelType, [HeadlessNext]_headlessVars
    PROVE  ChannelType'
<1>1. CASE \E line \in Lines : ClientWrites(line)
    BY <1>1, AppendProperties DEF ClientWrites, ChannelType
<1>2. CASE InputEnds
    BY <1>2, AppendProperties DEF InputEnds, ChannelType
<1>3. ASSUME NEW kinds, Receive(kinds) PROVE ChannelType'
    BY <1>3, HeadTailProperties DEF Receive, ChannelType
<1>4. CASE UserStartsTurn \/ PromptNotSaved \/ IdleMessage \/ IdleEof
    BY <1>3, <1>4 DEF UserStartsTurn, PromptNotSaved, IdleMessage, IdleEof
<1>5. CASE \/ UserIsTurnedAway \/ Interrupt \/ ResponseAccepted \/ ResponseUnmatched
           \/ ResponseWithoutDecision \/ TurnMessage \/ TurnEof
    BY <1>3, <1>5 DEF UserIsTurnedAway, Interrupt, ResponseAccepted, ResponseUnmatched,
        ResponseWithoutDecision, TurnMessage, TurnEof, TurnReceives
<1>6. CASE UNCHANGED channel
    BY <1>6 DEF ChannelType
<1>7. CASE \/ TurnStep \/ DriverAnswers \/ InputThreadJoined \/ ChannelClosed
           \/ InputThreadReturns \/ StdoutCloses \/ UNCHANGED headlessVars
    BY <1>6, <1>7 DEF TurnStep, EngineRuns, PermissionRequested, PermissionRequestLost,
        LostRequestFailsTurn, PermissionDenied, PermissionAllowed, TurnReported, DriverAnswers,
        InputThreadJoined, ChannelClosed, InputThreadReturns, StdoutCloses, headlessVars, inputVars
<1> QED
    BY <1>1, <1>2, <1>4, <1>5, <1>7 DEF HeadlessNext, ClientStep, HostStep

LEMMA RequestInvariantInit == HeadlessInit => RequestInvariant
<1> SUFFICES ASSUME HeadlessInit PROVE RequestInvariant
    OBVIOUS
<1>1. nextRequestId = 1 /\ pending = {} /\ received = {} /\ executed = {}
    BY DEF HeadlessInit, ResolverInit
<1>2. oneshot = [id \in RequestIds |-> "unused"]
    BY DEF HeadlessInit, ResolverInit
<1>3. ResolverTypeOK
    BY <1>1, <1>2, ResolverAssumption DEF ResolverTypeOK, OneshotStates
<1>4. ChannelType
    BY EmptySeq DEF HeadlessInit, ChannelType
<1>5. RequestsInOrder /\ IdleHasNoRequest
    BY <1>1, <1>2 DEF RequestsInOrder, IdleHasNoRequest
<1>6. AskIsAnswerable
    BY <1>1, <1>2 DEF AskIsAnswerable, HeadlessInit
<1> QED
    BY <1>3, <1>4, <1>5, <1>6 DEF RequestInvariant

LEMMA RequestInvariantStep ==
    ASSUME RequestInvariant, [HeadlessNext]_headlessVars
    PROVE  RequestInvariant'
<1> USE DEF RequestInvariant
<1>1. ChannelType'
    BY ChannelTypeStep
<1>2. CASE PermissionRequested
    <2>1. /\ nextRequestId \in RequestIds
          /\ nextRequestId' = nextRequestId + 1
          /\ pending = {}
          /\ pending' = {nextRequestId}
          /\ oneshot' = [oneshot EXCEPT ![nextRequestId] = "open"]
          /\ received' = received /\ executed' = executed
          /\ hostPhase' = "turn" /\ phase' = "asking"
        BY <1>2, ResolverAssumption
        DEF PermissionRequested, AskPermission, OpenRequest, AskIsAnswerable, ResolverTypeOK,
            RequestIds, hostVars
    <2>2. ResolverTypeOK'
        BY <2>1, ResolverAssumption DEF ResolverTypeOK, RequestIds, OneshotStates
    <2>3. RequestsInOrder'
        BY <2>1 DEF RequestsInOrder, ResolverTypeOK, RequestIds
    <2>4. AskIsAnswerable'
        BY <2>1 DEF AskIsAnswerable, RequestsInOrder, ResolverTypeOK, CurrentRequest, RequestIds
    <2> QED
        BY <1>1, <2>1, <2>2, <2>3, <2>4 DEF IdleHasNoRequest
<1>3. CASE PermissionRequestLost
    <2>1. /\ nextRequestId \in RequestIds
          /\ nextRequestId' = nextRequestId + 1
          /\ pending = {} /\ pending' = {}
          /\ oneshot' = [oneshot EXCEPT ![nextRequestId] = "failed"]
          /\ received' = received /\ executed' = executed
          /\ hostPhase' = "turn" /\ phase' = "asking"
        BY <1>3, ResolverAssumption
        DEF PermissionRequestLost, AskPermission, OpenRequestFails, AskIsAnswerable,
            ResolverTypeOK, RequestIds, hostVars
    <2>2. ResolverTypeOK'
        BY <2>1, ResolverAssumption DEF ResolverTypeOK, RequestIds, OneshotStates
    <2>3. RequestsInOrder'
        BY <2>1 DEF RequestsInOrder, ResolverTypeOK, RequestIds
    <2>4. AskIsAnswerable'
        BY <2>1 DEF AskIsAnswerable, RequestsInOrder, ResolverTypeOK, CurrentRequest, RequestIds
    <2> QED
        BY <1>1, <2>1, <2>2, <2>3, <2>4 DEF IdleHasNoRequest
<1>4. CASE PermissionDenied \/ PermissionAllowed
    <2>1. /\ CurrentRequest \in RequestIds \ received
          /\ received' = received \cup {CurrentRequest}
          /\ UNCHANGED <<nextRequestId, pending, oneshot>>
          /\ executed' \subseteq executed \cup {CurrentRequest}
          /\ oneshot[CurrentRequest] \in {"Allow", "Deny"}
          /\ hostPhase' = "turn" /\ phase' # "asking"
        BY <1>4
        DEF PermissionDenied, PermissionAllowed, ReceiveDecision, PermissionResolved,
            AllowedToolFails, CompleteToolCall, FailTurn, LeaveTurn, hostVars
    <2>2. pending = {}
        BY <2>1 DEF AskIsAnswerable
    <2>3. ResolverTypeOK' /\ RequestsInOrder'
        BY <2>1 DEF ResolverTypeOK, RequestsInOrder, CurrentRequest, RequestIds
    <2>4. AskIsAnswerable'
        BY <2>1, <2>2 DEF AskIsAnswerable, CurrentRequest
    <2> QED
        BY <1>1, <2>2, <2>1, <2>3, <2>4 DEF IdleHasNoRequest
<1>5. CASE ResponseAccepted
    <2>1. PICK id \in pending, behavior \in {"Allow", "Deny"} :
              /\ pending' = pending \ {id}
              /\ oneshot' = [oneshot EXCEPT ![id] = behavior]
        BY <1>5, ResponseBehavior DEF ResponseAccepted, TurnReceives, Receive, ApplyResponse
    <2>2. /\ UNCHANGED <<nextRequestId, received, executed, hostPhase, phase>>
          /\ hostPhase = "turn"
        BY <1>5 DEF ResponseAccepted, TurnReceives, ApplyResponse, hostVars, engineVars
    <2>3. pending = {CurrentRequest} /\ id = CurrentRequest
        BY <2>1 DEF AskIsAnswerable
    <2>4. ResolverTypeOK' /\ RequestsInOrder'
        BY <2>1, <2>2, <2>3
        DEF ResolverTypeOK, RequestsInOrder, OneshotStates, CurrentRequest, RequestIds
    <2>5. AskIsAnswerable'
        BY <2>1, <2>2, <2>3 DEF AskIsAnswerable, ResolverTypeOK, CurrentRequest
    <2> QED
        BY <1>1, <2>2, <2>4, <2>5 DEF IdleHasNoRequest
<1>6. CASE Interrupt \/ TurnEof \/ ChannelClosed
    <2>1. /\ CancelAll
          /\ UNCHANGED <<nextRequestId, received, executed, phase>>
          /\ hostPhase = "turn" /\ hostPhase' \in {"turn", "aborted"}
        BY <1>6 DEF Interrupt, TurnEof, ChannelClosed, TurnReceives, CancelAll, Cancel, engineVars
    <2>2. /\ pending' = {}
          /\ oneshot' = [id \in RequestIds |-> IF id \in pending THEN "Deny" ELSE oneshot[id]]
        BY <2>1 DEF CancelAll
    <2>3. ResolverTypeOK' /\ RequestsInOrder'
        BY <2>1, <2>2
        DEF ResolverTypeOK, RequestsInOrder, OneshotStates, AskIsAnswerable, CurrentRequest,
            RequestIds
    <2>4. AskIsAnswerable'
        BY <2>1, <2>2 DEF AskIsAnswerable, ResolverTypeOK, CurrentRequest
    <2> QED
        BY <1>1, <2>1, <2>3, <2>4 DEF IdleHasNoRequest
<1>7. CASE /\ ~ PermissionRequested /\ ~ PermissionRequestLost
           /\ ~ PermissionDenied /\ ~ PermissionAllowed
           /\ ~ ResponseAccepted /\ ~ Interrupt /\ ~ TurnEof /\ ~ ChannelClosed
    <2>1. ResolverTypeOK' /\ RequestsInOrder'
        BY <1>7, OtherSessionSteps DEF RequestsUntouched, ResolverTypeOK, RequestsInOrder
    <2>2. /\ nextRequestId' = nextRequestId /\ pending' = pending
          /\ oneshot' = oneshot /\ received' = received
        BY <1>7, OtherSessionSteps DEF RequestsUntouched
    <2>3. AskIsAnswerable' /\ IdleHasNoRequest'
        BY <1>7, <2>2, OtherSessionSteps
        DEF AskIsAnswerable, IdleHasNoRequest, CurrentRequest
    <2> QED
        BY <1>1, <2>1, <2>3
<1> QED
    BY <1>2, <1>3, <1>4, <1>5, <1>6, <1>7

\* A tool call that waits for a permission can always be woken, in a session with
\* any number of requests, turns and lines.
THEOREM WaitingCallsAreAnswerable == HeadlessSpec => []AskIsAnswerable
<1>1. HeadlessInit => RequestInvariant
    BY RequestInvariantInit
<1>2. RequestInvariant /\ [HeadlessNext]_headlessVars => RequestInvariant'
    BY RequestInvariantStep
<1>3. RequestInvariant => AskIsAnswerable
    BY DEF RequestInvariant
<1> QED
    BY <1>1, <1>2, <1>3, PTL DEF HeadlessSpec

--------------------------------------------------------------------------------
(***************************************************************************)
(* The session implements PermissionProtocol: every step is one step of    *)
(* the protocol, or none.                                                  *)
(***************************************************************************)

Granted == {id \in RequestIds : oneshot[id] = "Allow"}

LEMMA OnlyChoice ==
    ASSUME NEW c
    PROVE  (CHOOSE id \in {c} : TRUE) = c
    OBVIOUS

\* The question that is open is the pending request, which is the last one asked.
LEMMA OpenQuestionValue ==
    ASSUME RequestInvariant
    PROVE  /\ pending = {} => OpenQuestion = 0
           /\ pending # {} => /\ pending = {CurrentRequest}
                              /\ OpenQuestion = CurrentRequest
                              /\ CurrentRequest \in RequestIds
<1>1. pending \subseteq {CurrentRequest} /\ pending \subseteq RequestIds
    BY DEF RequestInvariant, AskIsAnswerable, ResolverTypeOK
<1>2. CASE pending = {}
    BY <1>2 DEF OpenQuestion
<1>3. CASE pending # {}
    <2>1. pending = {CurrentRequest}
        BY <1>1, <1>3
    <2> QED
        BY <1>1, <1>3, <2>1, OnlyChoice DEF OpenQuestion
<1> QED
    BY <1>2, <1>3

LEMMA ProtocolStep ==
    ASSUME RequestInvariant, [HeadlessNext]_headlessVars
    PROVE  [Protocol!ProtocolNext]_<<CurrentRequest, OpenQuestion, Granted, executed>>
<1>1. CASE PermissionRequested
    <2>1. /\ pending = {} /\ pending' = {nextRequestId}
          /\ nextRequestId' = nextRequestId + 1
          /\ oneshot' = [oneshot EXCEPT ![nextRequestId] = "open"]
          /\ executed' = executed
          /\ nextRequestId \in RequestIds
        BY <1>1, ResolverAssumption
        DEF PermissionRequested, AskPermission, OpenRequest, RequestInvariant, AskIsAnswerable,
            ResolverTypeOK, RequestIds
    <2>2. /\ CurrentRequest' = CurrentRequest + 1
          /\ nextRequestId = CurrentRequest + 1
        BY <2>1 DEF CurrentRequest, RequestIds
    <2>3. OpenQuestion = 0 /\ OpenQuestion' = CurrentRequest + 1
        BY <2>1, <2>2, OnlyChoice DEF OpenQuestion
    <2>4. Granted' = Granted
        BY <2>1 DEF Granted, RequestInvariant, RequestsInOrder, ResolverTypeOK, RequestIds
    <2> QED
        BY <2>1, <2>2, <2>3, <2>4 DEF Protocol!Ask, Protocol!ProtocolNext, Granted
<1>2. CASE PermissionRequestLost
    <2>1. /\ pending = {} /\ pending' = {}
          /\ nextRequestId' = nextRequestId + 1
          /\ oneshot' = [oneshot EXCEPT ![nextRequestId] = "failed"]
          /\ executed' = executed
          /\ nextRequestId \in RequestIds
        BY <1>2, ResolverAssumption
        DEF PermissionRequestLost, AskPermission, OpenRequestFails, RequestInvariant,
            AskIsAnswerable, ResolverTypeOK, RequestIds
    <2>2. CurrentRequest' = CurrentRequest + 1
        BY <2>1 DEF CurrentRequest, RequestIds
    <2>3. OpenQuestion = 0 /\ OpenQuestion' = 0
        BY <2>1 DEF OpenQuestion
    <2>4. Granted' = Granted
        BY <2>1 DEF Granted, RequestInvariant, RequestsInOrder, ResolverTypeOK, RequestIds
    <2> QED
        BY <2>1, <2>2, <2>3, <2>4 DEF Protocol!AskLost, Protocol!ProtocolNext, Granted
<1>3. CASE PermissionDenied
    BY <1>3 DEF PermissionDenied, ReceiveDecision, CurrentRequest, OpenQuestion, Granted
<1>4. CASE PermissionAllowed
    <2>1. /\ CurrentRequest \in RequestIds \ received
          /\ oneshot[CurrentRequest] = "Allow"
          /\ executed' = executed \cup {CurrentRequest}
          /\ UNCHANGED <<nextRequestId, pending, oneshot>>
        BY <1>4 DEF PermissionAllowed, ReceiveDecision
    <2>2. CurrentRequest \in Granted \ executed
        BY <2>1 DEF Granted, RequestInvariant, RequestsInOrder
    <2>3. pending = {}
        BY <2>1 DEF RequestInvariant, AskIsAnswerable
    <2>4. OpenQuestion = 0
        BY <2>3 DEF OpenQuestion
    <2>5. UNCHANGED <<CurrentRequest, OpenQuestion, Granted>>
        BY <2>1 DEF CurrentRequest, OpenQuestion, Granted
    <2> QED
        BY <2>1, <2>2, <2>4, <2>5 DEF Protocol!Execute, Protocol!ProtocolNext, Granted
<1>5. CASE ResponseAccepted
    <2>1. PICK id \in pending, behavior \in {"Allow", "Deny"} :
              /\ pending' = pending \ {id}
              /\ oneshot' = [oneshot EXCEPT ![id] = behavior]
        BY <1>5, ResponseBehavior
        DEF RequestInvariant, ResponseAccepted, TurnReceives, Receive, ApplyResponse
    <2>2. UNCHANGED <<nextRequestId, executed>>
        BY <1>5 DEF ResponseAccepted, ApplyResponse
    <2>3. /\ pending = {CurrentRequest} /\ id = CurrentRequest
          /\ OpenQuestion = CurrentRequest /\ CurrentRequest \in RequestIds
        BY <2>1, OpenQuestionValue
    <2>4. OpenQuestion' = 0 /\ CurrentRequest' = CurrentRequest
        BY <2>1, <2>2, <2>3 DEF OpenQuestion, CurrentRequest
    <2>5. OpenQuestion # 0
        BY <2>3 DEF RequestIds
    <2>6. oneshot \in [RequestIds -> OneshotStates] /\ oneshot[CurrentRequest] = "open"
        BY <2>3 DEF RequestInvariant, AskIsAnswerable, ResolverTypeOK
    <2>7. CASE behavior = "Allow"
        <3>1. Granted' = Granted \cup {OpenQuestion}
            BY <2>1, <2>3, <2>6, <2>7 DEF Granted
        <3> QED
            BY <2>2, <2>4, <2>5, <3>1 DEF Protocol!Grant, Protocol!ProtocolNext, Granted
    <2>8. CASE behavior = "Deny"
        <3>1. Granted' = Granted
            BY <2>1, <2>3, <2>6, <2>8 DEF Granted
        <3> QED
            BY <2>2, <2>4, <2>5, <3>1 DEF Protocol!Refuse, Protocol!ProtocolNext, Granted
    <2> QED
        BY <2>7, <2>8
<1>6. CASE Interrupt \/ TurnEof \/ ChannelClosed
    <2>1. /\ pending' = {}
          /\ oneshot' = [id \in RequestIds |-> IF id \in pending THEN "Deny" ELSE oneshot[id]]
          /\ UNCHANGED <<nextRequestId, executed>>
        BY <1>6 DEF Interrupt, TurnEof, ChannelClosed, CancelAll
    <2>2. CurrentRequest' = CurrentRequest /\ OpenQuestion' = 0
        BY <2>1 DEF CurrentRequest, OpenQuestion
    <2>3. Granted' = Granted
        BY <2>1 DEF Granted, RequestInvariant, AskIsAnswerable
    <2>4. CASE pending = {}
        BY <2>1, <2>2, <2>3, <2>4, OpenQuestionValue
    <2>5. CASE pending # {}
        <3>1. OpenQuestion # 0
            BY <2>5, OpenQuestionValue DEF RequestIds
        <3> QED
            BY <2>1, <2>2, <2>3, <3>1 DEF Protocol!Refuse, Protocol!ProtocolNext, Granted
    <2> QED
        BY <2>4, <2>5
<1>7. CASE /\ ~ PermissionRequested /\ ~ PermissionRequestLost
           /\ ~ PermissionDenied /\ ~ PermissionAllowed
           /\ ~ ResponseAccepted /\ ~ Interrupt /\ ~ TurnEof /\ ~ ChannelClosed
    <2>1. UNCHANGED <<nextRequestId, pending, oneshot, executed>>
        BY <1>7, OtherSessionSteps DEF RequestsUntouched
    <2> QED
        BY <2>1 DEF CurrentRequest, OpenQuestion, Granted
<1> QED
    BY <1>1, <1>2, <1>3, <1>4, <1>5, <1>6, <1>7

\* The session keeps the permission protocol: whatever the interleaving of
\* responses, interrupts and turns, a tool runs at most once on a request, and only
\* on one that was granted while it was open.
THEOREM SessionImplementsProtocol == HeadlessSpec => KeepsPermissionProtocol
<1>1. HeadlessInit => Protocol!ProtocolInit
    <2> SUFFICES ASSUME HeadlessInit PROVE Protocol!ProtocolInit
        OBVIOUS
    <2>1. nextRequestId = 1 /\ pending = {} /\ executed = {}
        BY DEF HeadlessInit, ResolverInit
    <2>2. {id \in RequestIds : oneshot[id] = "Allow"} = {}
        BY DEF HeadlessInit, ResolverInit
    <2> QED
        BY <2>1, <2>2 DEF Protocol!ProtocolInit, CurrentRequest, OpenQuestion
<1>2. HeadlessInit => RequestInvariant
    BY RequestInvariantInit
<1>3. RequestInvariant /\ [HeadlessNext]_headlessVars => RequestInvariant'
    BY RequestInvariantStep
<1>4. RequestInvariant /\ [HeadlessNext]_headlessVars
      => [Protocol!ProtocolNext]_(Protocol!protocolVars)
    BY ProtocolStep DEF Protocol!protocolVars, Granted
<1> QED
    BY <1>1, <1>2, <1>3, <1>4, PTL
    DEF HeadlessSpec, KeepsPermissionProtocol, Protocol!ProtocolSpec

--------------------------------------------------------------------------------
(***************************************************************************)
(* What a step writes to stdout.                                           *)
(***************************************************************************)

\* An interrupt announces the request it denies, if there is one: the map of
\* requests never holds two.
LEMMA NoticesOfAnInterrupt ==
    ASSUME RequestInvariant
    PROVE  \/ pending = {} /\ CancelNotices = <<>>
           \/ /\ pending = {CurrentRequest}
              /\ CurrentRequest \in RequestIds
              /\ CancelNotices = <<[type |-> "control_cancel_request", id |-> CurrentRequest]>>
<1> DEFINE all == [id \in RequestIds |-> id]
           ids == Selected(all, pending)
<1>1. /\ all \in Seq(RequestIds) /\ Len(all) = MaxRequests
      /\ \A i \in 1 .. Len(all) : all[i] = i
    BY ResolverAssumption DEF RequestIds
<1>2. CancelNotices =
          [n \in DOMAIN ids |-> [type |-> "control_cancel_request", id |-> ids[n]]]
    BY DEF CancelNotices
<1> HIDE DEF all
<1>3. ids \in Seq(RequestIds \cap pending)
    BY <1>1, SelectedIn
<1>4. /\ \A i \in 1 .. Len(ids) : ids[i] \in pending
      /\ \A k \in 1 .. Len(all) :
             all[k] \in pending => \E i \in 1 .. Len(ids) : ids[i] = all[k]
    BY <1>1, SelectedElements
<1>5. \A i, j \in 1 .. Len(ids) : ids[i] = ids[j] => i = j
    <2>1. \A i, j \in 1 .. Len(all) : all[i] = all[j] => i = j
        BY <1>1
    <2> QED
        BY <1>1, <2>1, SelectedDistinct
<1> HIDE DEF ids
<1>6. Len(ids) \in Nat /\ DOMAIN ids = 1 .. Len(ids)
    BY <1>3
<1>7. pending \subseteq RequestIds
    BY DEF RequestInvariant, ResolverTypeOK
<1>8. CASE pending = {}
    <2>1. Len(ids) = 0
        BY <1>4, <1>6, <1>8
    <2>2. DOMAIN ids = {}
        BY <1>6, <2>1
    <2>3. CancelNotices = <<>>
        BY <1>2, <2>2
    <2> QED
        BY <1>8, <2>3
<1>9. CASE pending # {}
    <2>1. pending = {CurrentRequest} /\ CurrentRequest \in RequestIds
        BY <1>9, OpenQuestionValue
    <2>2. CurrentRequest \in 1 .. Len(all) /\ all[CurrentRequest] = CurrentRequest
        BY <1>1, <2>1 DEF RequestIds
    <2>3. \E i \in 1 .. Len(ids) : ids[i] = CurrentRequest
        BY <1>4, <2>1, <2>2
    <2>4. \A i \in 1 .. Len(ids) : ids[i] = CurrentRequest
        BY <1>4, <2>1
    <2>5. Len(ids) = 1
        <3>1. \A i, j \in 1 .. Len(ids) : i = j
            BY <1>5, <2>4
        <3>2. 1 \in 1 .. Len(ids)
            BY <1>6, <2>3
        <3>3. Len(ids) \in 1 .. Len(ids)
            BY <1>6, <2>3
        <3> QED
            BY <3>1, <3>2, <3>3
    <2>6. DOMAIN ids = {1} /\ ids[1] = CurrentRequest
        BY <1>6, <2>4, <2>5
    <2>7. CancelNotices = <<[type |-> "control_cancel_request", id |-> CurrentRequest]>>
        BY <1>2, <2>6
    <2> QED
        BY <2>1, <2>7
<1> QED
    BY <1>8, <1>9

\* The messages that answer a user message.
UserAnswers == {"result", "turn_error", "busy"}

OutType == out \in Seq(OutMessage)

Says(type, id) == out' = Append(out, [type |-> type, id |-> id])

IsTurn == IF hostPhase = "turn" THEN 1 ELSE 0

\* What a step may do to stdout and to the user messages taken: nothing; one
\* message that answers no user; the answer of the turn, which ends with it; the
\* answer of a user message taken in the same step; a user message whose turn
\* starts; or a failed write, which ends the session.
SilentStep ==
    out' = out /\ usersRead' = usersRead /\ IsTurn' = IsTurn

OtherMessageStep ==
    /\ \E type \in OutTypes \ UserAnswers, id \in 0 .. MaxRequests : Says(type, id)
    /\ usersRead' = usersRead
    /\ IsTurn' = IsTurn

TurnAnswerStep ==
    /\ \E type \in UserAnswers : Says(type, 0)
    /\ usersRead' = usersRead
    /\ IsTurn = 1 /\ IsTurn' = 0

UserAnswerStep ==
    /\ \E type \in UserAnswers : Says(type, 0)
    /\ usersRead' = usersRead + 1
    /\ IsTurn' = IsTurn

TurnStartStep ==
    /\ out' = out
    /\ usersRead' = usersRead + 1
    /\ IsTurn = 0 /\ IsTurn' = 1

FailedWriteStep ==
    /\ out' = out
    /\ usersRead' \in {usersRead, usersRead + 1}
    /\ hostPhase' = "aborted"

\* No step leaves the aborted session.
StaysAborted == hostPhase = "aborted" => hostPhase' = "aborted"

LEMMA InterruptWrites ==
    ASSUME RequestInvariant, OutType, Interrupt
    PROVE  (SilentStep \/ OtherMessageStep \/ FailedWriteStep) /\ StaysAborted
<1>1. /\ hostPhase = "turn" /\ usersRead' = usersRead
      /\ \/ hostPhase' = hostPhase /\ out' = out \o CancelNotices
         \/ hostPhase' = "aborted" /\ out' = out
    BY DEF Interrupt, TurnReceives
<1>2. CASE hostPhase' = "aborted" /\ out' = out
    BY <1>1, <1>2 DEF FailedWriteStep, StaysAborted
<1>3. CASE hostPhase' = hostPhase /\ out' = out \o CancelNotices
    <2>1. IsTurn' = IsTurn /\ StaysAborted
        BY <1>1, <1>3 DEF IsTurn, StaysAborted
    <2>2. CASE CancelNotices = <<>>
        <3>1. out' = out
            BY <1>3, <2>2 DEF OutType
        <3> QED
            BY <1>1, <2>1, <3>1 DEF SilentStep
    <2>3. CASE /\ CurrentRequest \in RequestIds
               /\ CancelNotices = <<[type |-> "control_cancel_request", id |-> CurrentRequest]>>
        <3>1. out \o <<[type |-> "control_cancel_request", id |-> CurrentRequest]>> =
              Append(out, [type |-> "control_cancel_request", id |-> CurrentRequest])
            BY DEF OutType
        <3>2. Says("control_cancel_request", CurrentRequest)
            BY <1>3, <2>3, <3>1 DEF Says
        <3>3. /\ "control_cancel_request" \in OutTypes \ UserAnswers
              /\ CurrentRequest \in 0 .. MaxRequests
            BY <2>3, ResolverAssumption DEF OutTypes, UserAnswers, RequestIds
        <3> QED
            BY <1>1, <2>1, <3>2, <3>3 DEF OtherMessageStep
    <2> QED
        BY <2>2, <2>3, NoticesOfAnInterrupt
<1> QED
    BY <1>1, <1>2, <1>3

LEMMA WritesOfAStep ==
    ASSUME RequestInvariant, OutType, [HeadlessNext]_headlessVars
    PROVE  /\ \/ SilentStep \/ OtherMessageStep \/ TurnAnswerStep
              \/ UserAnswerStep \/ TurnStartStep \/ FailedWriteStep
           /\ StaysAborted
<1>1. CASE \/ ClientStep \/ InputThreadReturns \/ EngineRuns \/ DriverAnswers
           \/ PermissionRequestLost \/ LostRequestFailsTurn \/ PermissionDenied
           \/ PermissionAllowed \/ IdleEof \/ InputThreadJoined \/ ResponseAccepted
           \/ TurnEof \/ ChannelClosed \/ UNCHANGED headlessVars
    <2>1. out' = out /\ usersRead' = usersRead
        BY <1>1 DEF ClientStep, ClientWrites, InputEnds, StdoutCloses, InputThreadReturns,
            EngineRuns, DriverAnswers, PermissionRequestLost, LostRequestFailsTurn,
            PermissionDenied, PermissionAllowed, IdleEof, InputThreadJoined, ResponseAccepted,
            TurnEof, ChannelClosed, headlessVars
    <2>2. \/ hostPhase' = hostPhase
          \/ hostPhase = "idle" /\ hostPhase' = "joining"
          \/ hostPhase = "joining" /\ hostPhase' = "exited"
        BY <1>1 DEF ClientStep, ClientWrites, InputEnds, StdoutCloses, InputThreadReturns,
            EngineRuns, DriverAnswers, PermissionRequestLost, LostRequestFailsTurn,
            PermissionDenied, PermissionAllowed, IdleEof, InputThreadJoined, ResponseAccepted,
            TurnEof, ChannelClosed, headlessVars, hostVars
    <2>3. IsTurn' = IsTurn /\ StaysAborted
        BY <2>2 DEF IsTurn, StaysAborted
    <2> QED
        BY <2>1, <2>3 DEF SilentStep
<1>2. CASE PermissionRequested
    <2>1. /\ Says("control_request", nextRequestId)
          /\ usersRead' = usersRead /\ hostPhase' = hostPhase
          /\ nextRequestId <= MaxRequests
        BY <1>2 DEF PermissionRequested, OpenRequest, Says, hostVars
    <2>2. nextRequestId \in 0 .. MaxRequests
        BY <2>1, ResolverAssumption DEF RequestInvariant, ResolverTypeOK
    <2>3. "control_request" \in OutTypes \ UserAnswers
        BY DEF OutTypes, UserAnswers
    <2> QED
        BY <2>1, <2>2, <2>3 DEF OtherMessageStep, IsTurn, StaysAborted
<1>3. CASE TurnReported
    <2>1. /\ hostPhase = "turn" /\ usersRead' = usersRead
          /\ \/ /\ \E type \in {"result", "turn_error"} : Says(type, 0)
                /\ hostPhase' \in {"joining", "idle"}
             \/ out' = out /\ hostPhase' = "aborted"
        BY <1>3 DEF TurnReported, Says
    <2> QED
        BY <2>1
        DEF TurnAnswerStep, FailedWriteStep, UserAnswers, IsTurn, StaysAborted
<1>4. CASE UserStartsTurn
    <2>1. /\ hostPhase = "idle" /\ hostPhase' = "turn"
          /\ out' = out /\ usersRead' = usersRead + 1
        BY <1>4 DEF UserStartsTurn
    <2> QED
        BY <2>1 DEF TurnStartStep, IsTurn, StaysAborted
<1>5. CASE PromptNotSaved \/ UserIsTurnedAway
    <2>1. /\ hostPhase # "aborted" /\ usersRead' = usersRead + 1
          /\ \/ (\E type \in UserAnswers : Says(type, 0)) /\ hostPhase' = hostPhase
             \/ out' = out /\ hostPhase' = "aborted"
        BY <1>5 DEF PromptNotSaved, UserIsTurnedAway, TurnReceives, Reply, Says, UserAnswers
    <2> QED
        BY <2>1 DEF UserAnswerStep, FailedWriteStep, IsTurn, StaysAborted
<1>6. CASE IdleMessage \/ TurnMessage \/ ResponseUnmatched
    <2>1. PICK type \in OutTypes \ UserAnswers : Reply(type)
        <3>1. CASE ResponseUnmatched
            BY <3>1 DEF ResponseUnmatched, OutTypes, UserAnswers
        <3>2. CASE IdleMessage \/ TurnMessage
            <4>1. Reply(IdleReply)
                BY <3>2 DEF IdleMessage, TurnMessage
            <4>2. Head(channel).kind \in {"interrupt", "response", "keepAlive", "invalid"}
                BY <3>2 DEF IdleMessage, TurnMessage, TurnReceives, Receive
            <4>3. IdleReply \in OutTypes \ UserAnswers
                BY <4>2 DEF IdleReply, OutTypes, UserAnswers
            <4> QED
                BY <4>1, <4>3
        <3> QED
            BY <1>6, <3>1, <3>2
    <2>2. hostPhase # "aborted" /\ usersRead' = usersRead
        BY <1>6 DEF IdleMessage, TurnMessage, ResponseUnmatched, TurnReceives
    <2>3. CASE Says(type, 0) /\ hostPhase' = hostPhase
        <3>1. 0 \in 0 .. MaxRequests
            BY ResolverAssumption
        <3> QED
            BY <2>1, <2>2, <2>3, <3>1 DEF OtherMessageStep, IsTurn, StaysAborted
    <2>4. CASE out' = out /\ hostPhase' = "aborted"
        BY <2>2, <2>4 DEF FailedWriteStep, StaysAborted
    <2> QED
        BY <2>1, <2>3, <2>4 DEF Reply, Says
<1>7. CASE Interrupt
    BY <1>7, InterruptWrites
<1>8. CASE ResponseWithoutDecision
    BY <1>8 DEF ResponseWithoutDecision, TurnReceives, FailedWriteStep, StaysAborted
<1> QED
    BY <1>1, <1>2, <1>3, <1>4, <1>5, <1>6, <1>7, <1>8 DEF HeadlessNext, TurnStep, HostStep

\* Every step keeps stdout a sequence of messages.
LEMMA OutTypeStep ==
    ASSUME RequestInvariant, OutType, [HeadlessNext]_headlessVars
    PROVE  OutType'
<1>1. CASE out' = out
    BY <1>1 DEF OutType
<1>2. ASSUME NEW type \in OutTypes, NEW id \in 0 .. MaxRequests, Says(type, id) PROVE OutType'
    <2>1. [type |-> type, id |-> id] \in OutMessage
        BY DEF OutMessage
    <2> QED
        BY <1>2, <2>1, AppendProperties DEF Says, OutType
<1>3. CASE TurnAnswerStep \/ UserAnswerStep
    <2>1. UserAnswers \subseteq OutTypes /\ 0 \in 0 .. MaxRequests
        BY ResolverAssumption DEF UserAnswers, OutTypes
    <2> QED
        BY <1>2, <1>3, <2>1 DEF TurnAnswerStep, UserAnswerStep
<1>4. CASE OtherMessageStep
    BY <1>2, <1>4 DEF OtherMessageStep
<1>5. CASE SilentStep \/ TurnStartStep \/ FailedWriteStep
    BY <1>1, <1>5 DEF SilentStep, TurnStartStep, FailedWriteStep
<1> QED
    BY <1>3, <1>4, <1>5, WritesOfAStep

--------------------------------------------------------------------------------
(***************************************************************************)
(* Types.                                                                  *)
(***************************************************************************)

HostType ==
    /\ hostPhase \in HostPhases
    /\ inputClosed \in BOOLEAN
    /\ inputThread \in {"reading", "eof", "gone"}
    /\ stdoutOpen \in BOOLEAN
    /\ linesWritten \in Nat
    /\ usersRead \in Nat
    /\ answered \subseteq RequestIds

LEMMA HostTypeStep ==
    ASSUME HostType, RequestInvariant, OutType, [HeadlessNext]_headlessVars
    PROVE  HostType'
<1>1. usersRead' \in Nat
    <2>1. usersRead' \in {usersRead, usersRead + 1}
        BY WritesOfAStep
        DEF SilentStep, OtherMessageStep, TurnAnswerStep, UserAnswerStep, TurnStartStep,
            FailedWriteStep
    <2> QED
        BY <2>1 DEF HostType
<1>2. linesWritten' \in Nat /\ inputThread' \in {"reading", "eof", "gone"}
    <2>1. \/ linesWritten' = linesWritten /\ inputThread' = inputThread
          \/ linesWritten' = linesWritten + 1 /\ inputThread' = inputThread
          \/ linesWritten' = linesWritten /\ inputThread' \in {"eof", "gone"}
        BY DEF HeadlessNext, ClientStep, ClientWrites, InputEnds, StdoutCloses,
            InputThreadReturns, TurnStep, EngineRuns, PermissionRequested, PermissionRequestLost,
            LostRequestFailsTurn, PermissionDenied, PermissionAllowed, TurnReported,
            DriverAnswers, HostStep, UserStartsTurn, PromptNotSaved, IdleMessage, IdleEof,
            InputThreadJoined, UserIsTurnedAway, Interrupt, ResponseAccepted, ResponseUnmatched,
            ResponseWithoutDecision, TurnMessage, TurnEof, ChannelClosed, TurnReceives, Receive,
            inputVars, headlessVars
    <2> QED
        BY <2>1 DEF HostType
<1>3. /\ inputClosed' \in {inputClosed, TRUE}
      /\ stdoutOpen' \in {stdoutOpen, FALSE}
    BY DEF HeadlessNext, ClientStep, ClientWrites, InputEnds, StdoutCloses,
        InputThreadReturns, TurnStep, EngineRuns, PermissionRequested, PermissionRequestLost,
        LostRequestFailsTurn, PermissionDenied, PermissionAllowed, TurnReported,
        DriverAnswers, HostStep, UserStartsTurn, PromptNotSaved, IdleMessage, IdleEof,
        InputThreadJoined, UserIsTurnedAway, Interrupt, ResponseAccepted, ResponseUnmatched,
        ResponseWithoutDecision, TurnMessage, TurnEof, ChannelClosed, hostVars, headlessVars
<1>4. hostPhase' \in {hostPhase, "turn", "idle", "joining", "exited", "aborted"}
    BY DEF HeadlessNext, ClientStep, ClientWrites, InputEnds, StdoutCloses,
        InputThreadReturns, TurnStep, EngineRuns, PermissionRequested, PermissionRequestLost,
        LostRequestFailsTurn, PermissionDenied, PermissionAllowed, TurnReported,
        DriverAnswers, HostStep, UserStartsTurn, PromptNotSaved, IdleMessage, IdleEof,
        InputThreadJoined, UserIsTurnedAway, Interrupt, ResponseAccepted, ResponseUnmatched,
        ResponseWithoutDecision, TurnMessage, TurnEof, ChannelClosed, Reply, hostVars,
        headlessVars
<1>5. answered' \subseteq RequestIds
    <2>1. CASE ResponseAccepted
        <3>1. answered' = answered \cup {Head(channel).id} /\ Head(channel).id \in pending
            BY <2>1 DEF ResponseAccepted, ApplyResponse
        <3> QED
            BY <3>1 DEF HostType, RequestInvariant, ResolverTypeOK
    <2>2. CASE ~ ResponseAccepted
        <3>1. answered' = answered
            BY <2>2 DEF HeadlessNext, ClientStep, ClientWrites, InputEnds, StdoutCloses,
                InputThreadReturns, TurnStep, EngineRuns, PermissionRequested,
                PermissionRequestLost, LostRequestFailsTurn, PermissionDenied,
                PermissionAllowed, TurnReported, DriverAnswers, HostStep, UserStartsTurn,
                PromptNotSaved, IdleMessage, IdleEof, InputThreadJoined, UserIsTurnedAway,
                Interrupt, ResponseUnmatched, ResponseWithoutDecision, TurnMessage, TurnEof,
                ChannelClosed, headlessVars
        <3> QED
            BY <3>1 DEF HostType
    <2> QED
        BY <2>1, <2>2
<1>6. /\ hostPhase' \in HostPhases /\ inputClosed' \in BOOLEAN /\ stdoutOpen' \in BOOLEAN
    BY <1>3, <1>4 DEF HostType, HostPhases
<1> QED
    BY <1>1, <1>2, <1>5, <1>6 DEF HostType

SessionTyping == EngineTyping /\ RequestInvariant /\ OutType /\ HostType

LEMMA SessionTypingInit == HeadlessInit => SessionTyping
<1> SUFFICES ASSUME HeadlessInit PROVE SessionTyping
    OBVIOUS
<1>1. EngineTyping
    BY SessionStartsTheEngine, EngineTypingInit
<1>2. RequestInvariant
    BY RequestInvariantInit
<1>3. OutType
    BY EmptySeq DEF HeadlessInit, OutType
<1>4. HostType
    BY DEF HeadlessInit, HostType, HostPhases
<1> QED
    BY <1>1, <1>2, <1>3, <1>4 DEF SessionTyping

LEMMA SessionTypingStep ==
    ASSUME SessionTyping, [HeadlessNext]_headlessVars
    PROVE  SessionTyping'
<1>1. EngineTyping /\ RequestInvariant /\ OutType /\ HostType
    BY DEF SessionTyping
<1>2. EngineTyping'
    BY <1>1, SessionTakesEngineSteps, EngineTypingStep
<1>3. RequestInvariant'
    BY <1>1, RequestInvariantStep
<1>4. OutType' /\ HostType'
    BY <1>1, OutTypeStep, HostTypeStep
<1> QED
    BY <1>2, <1>3, <1>4 DEF SessionTyping

\* The session is type correct, whatever the client sends and however long it runs.
THEOREM HeadlessTypes == HeadlessSpec => []HeadlessTypeOK
<1>1. HeadlessInit => SessionTyping
    BY SessionTypingInit
<1>2. SessionTyping /\ [HeadlessNext]_headlessVars => SessionTyping'
    BY SessionTypingStep
<1>3. SessionTyping => HeadlessTypeOK
    <2> SUFFICES ASSUME SessionTyping PROVE HeadlessTypeOK
        OBVIOUS
    <2>1. EngineTypeOK /\ ResolverTypeOK /\ ChannelType /\ OutType /\ HostType
        BY DEF SessionTyping, EngineTyping, RequestInvariant
    <2>2. executed \subseteq RequestIds
        BY DEF SessionTyping, RequestInvariant, RequestsInOrder, ResolverTypeOK
    <2> QED
        BY <2>1, <2>2 DEF HeadlessTypeOK, ChannelType, OutType, HostType
<1> QED
    BY <1>1, <1>2, <1>3, PTL DEF HeadlessSpec

--------------------------------------------------------------------------------
(***************************************************************************)
(* Every user message is answered once.                                    *)
(***************************************************************************)

AnswersWritten == Count({"result", "turn_error", "busy"})

\* One more message on stdout is counted if it answers a user message.
LEMMA AnswersOfAStep ==
    ASSUME OutType, NEW type \in OutTypes, NEW id \in 0 .. MaxRequests, Says(type, id)
    PROVE  /\ AnswersWritten \in Nat
           /\ AnswersWritten' = AnswersWritten + (IF type \in UserAnswers THEN 1 ELSE 0)
<1> DEFINE S == [type : {"result", "turn_error", "busy"}, id : 0 .. MaxRequests]
           m == [type |-> type, id |-> id]
<1>1. m \in OutMessage /\ (m \in S <=> type \in UserAnswers)
    BY DEF OutMessage, UserAnswers
<1>2. out \in Seq(OutMessage) /\ out' = Append(out, m)
    BY DEF OutType, Says
<1>3. AnswersWritten = Len(Selected(out, S)) /\ AnswersWritten' = Len(Selected(out', S))
    BY DEF AnswersWritten, Count
<1> HIDE DEF S, m
<1>4. /\ Len(Selected(out, S)) \in Nat
      /\ Len(Selected(Append(out, m), S)) = Len(Selected(out, S)) + (IF m \in S THEN 1 ELSE 0)
    <2>1. out \in Seq(OutMessage) /\ m \in OutMessage
        BY <1>1, <1>2
    <2> QED
        BY <2>1, SelectedAppendLength
<1> QED
    BY <1>1, <1>2, <1>3, <1>4

LEMMA AnswersStep ==
    ASSUME EveryUserMessageIsAnswered, SessionTyping, [HeadlessNext]_headlessVars
    PROVE  EveryUserMessageIsAnswered'
<1>0. RequestInvariant /\ OutType
    BY DEF SessionTyping
<1> SUFFICES ASSUME hostPhase' # "aborted" PROVE usersRead' = AnswersWritten' + IsTurn'
    BY DEF EveryUserMessageIsAnswered, AnswersWritten, IsTurn
<1>1. hostPhase # "aborted"
    BY <1>0, WritesOfAStep DEF StaysAborted
<1>2. usersRead = AnswersWritten + IsTurn
    BY <1>1 DEF EveryUserMessageIsAnswered, AnswersWritten, IsTurn
<1>3. AnswersWritten \in Nat /\ IsTurn \in {0, 1}
    <2>1. Selected(out, [type : {"result", "turn_error", "busy"}, id : 0 .. MaxRequests])
              \in Seq(OutMessage \cap [type : {"result", "turn_error", "busy"}, id : 0 .. MaxRequests])
        BY <1>0, SelectedIn DEF OutType
    <2> QED
        BY <2>1 DEF AnswersWritten, Count, IsTurn
<1>4. CASE SilentStep \/ TurnStartStep
    <2>1. out' = out
        BY <1>4 DEF SilentStep, TurnStartStep
    <2>2. AnswersWritten' = AnswersWritten
        BY <2>1 DEF AnswersWritten, Count
    <2> QED
        BY <1>2, <1>3, <1>4, <2>2 DEF SilentStep, TurnStartStep
<1>5. CASE OtherMessageStep
    <2>1. PICK type \in OutTypes \ UserAnswers, id \in 0 .. MaxRequests : Says(type, id)
        BY <1>5 DEF OtherMessageStep
    <2>2. AnswersWritten' = AnswersWritten + 0
        BY <1>0, <2>1, AnswersOfAStep
    <2> QED
        BY <1>2, <1>3, <1>5, <2>2 DEF OtherMessageStep
<1>6. CASE TurnAnswerStep \/ UserAnswerStep
    <2>1. PICK type \in UserAnswers : Says(type, 0)
        BY <1>6 DEF TurnAnswerStep, UserAnswerStep
    <2>2. type \in OutTypes /\ 0 \in 0 .. MaxRequests
        BY ResolverAssumption DEF UserAnswers, OutTypes
    <2>3. AnswersWritten' = AnswersWritten + 1
        BY <1>0, <2>1, <2>2, AnswersOfAStep
    <2> QED
        BY <1>2, <1>3, <1>6, <2>3 DEF TurnAnswerStep, UserAnswerStep
<1> QED
    BY <1>0, <1>4, <1>5, <1>6, WritesOfAStep DEF FailedWriteStep

\* Every user message is answered by exactly one message, the one of the turn that
\* still runs excepted, in sessions of any length.
THEOREM UsersAreAnswered == HeadlessSpec => []EveryUserMessageIsAnswered
<1>1. HeadlessInit => SessionTyping /\ EveryUserMessageIsAnswered
    <2> SUFFICES ASSUME HeadlessInit PROVE SessionTyping /\ EveryUserMessageIsAnswered
        OBVIOUS
    <2>1. out = <<>> /\ usersRead = 0 /\ hostPhase = "idle"
        BY DEF HeadlessInit
    <2>2. Count({"result", "turn_error", "busy"}) = 0
        BY <2>1, SelectedEmpty DEF Count
    <2> QED
        BY <2>1, <2>2, SessionTypingInit DEF EveryUserMessageIsAnswered
<1>2. SessionTyping /\ EveryUserMessageIsAnswered /\ [HeadlessNext]_headlessVars
      => SessionTyping' /\ EveryUserMessageIsAnswered'
    BY SessionTypingStep, AnswersStep
<1> QED
    BY <1>1, <1>2, PTL DEF HeadlessSpec

--------------------------------------------------------------------------------
(***************************************************************************)
(* The client knows what became of its requests.                           *)
(***************************************************************************)

\* A request that is not decided has neither an answer nor a notice, so the
\* decision that comes is the first thing the client learns.
Untold(id) ==
    id \in answered \/ CancelNoticeSent(id) => oneshot[id] \in {"Allow", "Deny"}

Notice(id) == [type |-> "control_cancel_request", id |-> id]

LEMMA NoticesAfterOneMessage ==
    ASSUME OutType, NEW m, out' = Append(out, m), NEW id
    PROVE  CancelNoticeSent(id)' <=> (CancelNoticeSent(id) \/ m = Notice(id))
<1>1. /\ Len(out) \in Nat /\ DOMAIN out = 1 .. Len(out)
      /\ DOMAIN out' = 1 .. Len(out) + 1
      /\ out'[Len(out) + 1] = m
      /\ \A n \in 1 .. Len(out) : out'[n] = out[n]
    <2>1. out \in Seq(OutMessage \cup {m})
        BY DEF OutType
    <2> QED
        BY <2>1, AppendProperties
<1>2. Len(out) + 1 \in DOMAIN out' /\ \A n \in DOMAIN out : n \in DOMAIN out'
    BY <1>1
<1>3. ASSUME CancelNoticeSent(id)' PROVE CancelNoticeSent(id) \/ m = Notice(id)
    <2>1. PICK n \in DOMAIN out' : out'[n] = Notice(id)
        BY <1>3 DEF CancelNoticeSent, Notice
    <2>2. CASE n = Len(out) + 1
        BY <1>1, <2>1, <2>2
    <2>3. CASE n # Len(out) + 1
        <3>1. n \in 1 .. Len(out)
            BY <1>1, <2>1, <2>3
        <3> QED
            BY <1>1, <2>1, <3>1 DEF CancelNoticeSent, Notice
    <2> QED
        BY <2>2, <2>3
<1>4. ASSUME CancelNoticeSent(id) \/ m = Notice(id) PROVE CancelNoticeSent(id)'
    BY <1>1, <1>2, <1>4 DEF CancelNoticeSent, Notice
<1> QED
    BY <1>3, <1>4

\* No other step announces a cancellation.
LEMMA OnlyInterruptsNotify ==
    ASSUME RequestInvariant, OutType, [HeadlessNext]_headlessVars, ~ Interrupt, NEW id
    PROVE  CancelNoticeSent(id)' <=> CancelNoticeSent(id)
<1>1. ASSUME out' = out PROVE CancelNoticeSent(id)' <=> CancelNoticeSent(id)
    BY <1>1 DEF CancelNoticeSent
<1>2. ASSUME NEW type, NEW n, type # "control_cancel_request", Says(type, n)
      PROVE  CancelNoticeSent(id)' <=> CancelNoticeSent(id)
    <2>1. [type |-> type, id |-> n] # Notice(id)
        BY <1>2 DEF Notice
    <2> QED
        BY <1>2, <2>1, NoticesAfterOneMessage DEF Says
<1>3. \/ out' = out
      \/ \E type \in OutTypes \ {"control_cancel_request"}, n \in 0 .. MaxRequests :
             Says(type, n)
    <2>1. CASE \/ PromptNotSaved \/ UserIsTurnedAway \/ ResponseUnmatched
        <3>1. \E type \in {"turn_error", "busy", "unexpected_control_response"} : Reply(type)
            BY <2>1 DEF PromptNotSaved, UserIsTurnedAway, ResponseUnmatched
        <3>2. 0 \in 0 .. MaxRequests
            BY ResolverAssumption
        <3> QED
            BY <3>1, <3>2 DEF Reply, Says, OutTypes
    <2>2. CASE IdleMessage \/ TurnMessage
        <3>1. Reply(IdleReply)
            BY <2>2 DEF IdleMessage, TurnMessage
        <3>2. Head(channel).kind \in {"interrupt", "response", "keepAlive", "invalid"}
            BY <2>2 DEF IdleMessage, TurnMessage, TurnReceives, Receive
        <3>3. IdleReply \in OutTypes \ {"control_cancel_request"}
            BY <3>2 DEF IdleReply, OutTypes
        <3> QED
            BY <3>1, <3>3, ResolverAssumption DEF Reply, Says
    <2>3. CASE TurnReported
        BY <2>3, ResolverAssumption DEF TurnReported, Says, OutTypes
    <2>4. CASE PermissionRequested
        <3>1. Says("control_request", nextRequestId) /\ nextRequestId <= MaxRequests
            BY <2>4 DEF PermissionRequested, OpenRequest, Says
        <3>2. nextRequestId \in 0 .. MaxRequests
            BY <3>1, ResolverAssumption DEF RequestInvariant, ResolverTypeOK
        <3> QED
            BY <3>1, <3>2 DEF OutTypes
    <2>5. CASE /\ ~ PromptNotSaved /\ ~ UserIsTurnedAway /\ ~ ResponseUnmatched
               /\ ~ IdleMessage /\ ~ TurnMessage /\ ~ TurnReported /\ ~ PermissionRequested
        BY <2>5
        DEF HeadlessNext, ClientStep, ClientWrites, InputEnds, StdoutCloses,
            InputThreadReturns, TurnStep, EngineRuns, PermissionRequestLost,
            LostRequestFailsTurn, PermissionDenied, PermissionAllowed,
            DriverAnswers, HostStep, UserStartsTurn, IdleEof, InputThreadJoined,
            ResponseAccepted, ResponseWithoutDecision, TurnEof, ChannelClosed, headlessVars
    <2> QED
        BY <2>1, <2>2, <2>3, <2>4, <2>5
<1> QED
    BY <1>1, <1>2, <1>3

\* Every step leaves the decisions alone or is one of five kinds.
LEMMA DecisionsOfAStep ==
    ASSUME RequestInvariant, [HeadlessNext]_headlessVars
    PROVE  \/ oneshot' = oneshot /\ answered' = answered /\ ~ Interrupt
           \/ /\ nextRequestId \in RequestIds
              /\ oneshot[nextRequestId] = "unused"
              /\ \E state \in {"open", "failed"} :
                     oneshot' = [oneshot EXCEPT ![nextRequestId] = state]
              /\ answered' = answered
              /\ ~ Interrupt
           \/ /\ \E id \in pending, behavior \in {"Allow", "Deny"} :
                     /\ oneshot' = [oneshot EXCEPT ![id] = behavior]
                     /\ answered' = answered \cup {id}
              /\ ~ Interrupt
           \/ Interrupt
           \/ /\ oneshot' = [id \in RequestIds |-> IF id \in pending THEN "Deny" ELSE oneshot[id]]
              /\ answered' = answered
              /\ inputClosed'
              /\ ~ Interrupt
<1> SUFFICES ASSUME ~ Interrupt
             PROVE  \/ oneshot' = oneshot /\ answered' = answered
                    \/ /\ nextRequestId \in RequestIds
                       /\ oneshot[nextRequestId] = "unused"
                       /\ \E state \in {"open", "failed"} :
                              oneshot' = [oneshot EXCEPT ![nextRequestId] = state]
                       /\ answered' = answered
                    \/ \E id \in pending, behavior \in {"Allow", "Deny"} :
                           /\ oneshot' = [oneshot EXCEPT ![id] = behavior]
                           /\ answered' = answered \cup {id}
                    \/ /\ oneshot' = [id \in RequestIds |->
                                         IF id \in pending THEN "Deny" ELSE oneshot[id]]
                       /\ answered' = answered
                       /\ inputClosed'
    OBVIOUS
<1>1. CASE PermissionRequested \/ PermissionRequestLost
    <2>1. /\ nextRequestId <= MaxRequests /\ answered' = answered
          /\ \E state \in {"open", "failed"} :
                 oneshot' = [oneshot EXCEPT ![nextRequestId] = state]
        BY <1>1
        DEF PermissionRequested, PermissionRequestLost, OpenRequest, OpenRequestFails
    <2>2. nextRequestId \in RequestIds
        BY <2>1, ResolverAssumption DEF RequestInvariant, ResolverTypeOK, RequestIds
    <2>3. oneshot[nextRequestId] = "unused"
        BY <2>2 DEF RequestInvariant, RequestsInOrder, RequestIds
    <2> QED
        BY <2>1, <2>2, <2>3
<1>2. CASE ResponseAccepted
    <2>1. /\ channel # <<>> /\ Head(channel).behavior # "Ask"
          /\ Head(channel).id \in pending
          /\ oneshot' = [oneshot EXCEPT ![Head(channel).id] = Head(channel).behavior]
          /\ answered' = answered \cup {Head(channel).id}
        BY <1>2 DEF ResponseAccepted, TurnReceives, Receive, ApplyResponse
    <2>2. Head(channel).behavior \in {"Allow", "Deny"}
        BY <2>1, ResponseBehavior DEF RequestInvariant
    <2> QED
        BY <2>1, <2>2
<1>3. CASE TurnEof \/ ChannelClosed
    BY <1>3 DEF TurnEof, ChannelClosed, CancelAll
<1>4. CASE PermissionDenied \/ PermissionAllowed
    BY <1>4 DEF PermissionDenied, PermissionAllowed, ReceiveDecision
<1>5. CASE /\ ~ PermissionRequested /\ ~ PermissionRequestLost
           /\ ~ PermissionDenied /\ ~ PermissionAllowed
           /\ ~ ResponseAccepted /\ ~ TurnEof /\ ~ ChannelClosed
    <2>1. oneshot' = oneshot
        BY <1>5, OtherSessionSteps DEF RequestsUntouched
    <2>2. answered' = answered
        BY <1>5
        DEF HeadlessNext, ClientStep, ClientWrites, InputEnds, StdoutCloses,
            InputThreadReturns, TurnStep, EngineRuns, LostRequestFailsTurn, TurnReported,
            DriverAnswers, HostStep, UserStartsTurn, PromptNotSaved, IdleMessage, IdleEof,
            InputThreadJoined, UserIsTurnedAway, ResponseUnmatched, ResponseWithoutDecision,
            TurnMessage, headlessVars
    <2> QED
        BY <2>1, <2>2
<1> QED
    BY <1>1, <1>2, <1>3, <1>4, <1>5

\* The end of input is not forgotten.
LEMMA InputStaysClosed ==
    ASSUME [HeadlessNext]_headlessVars, inputClosed
    PROVE  inputClosed'
    BY DEF HeadlessNext, ClientStep, ClientWrites, InputEnds, StdoutCloses,
        InputThreadReturns, TurnStep, EngineRuns, PermissionRequested, PermissionRequestLost,
        LostRequestFailsTurn, PermissionDenied, PermissionAllowed, TurnReported,
        DriverAnswers, HostStep, UserStartsTurn, PromptNotSaved, IdleMessage, IdleEof,
        InputThreadJoined, UserIsTurnedAway, Interrupt, ResponseAccepted, ResponseUnmatched,
        ResponseWithoutDecision, TurnMessage, TurnEof, ChannelClosed, hostVars, headlessVars

\* What the client has to know of one request.
Knows(id) ==
    oneshot[id] \in {"Allow", "Deny"} =>
        /\ oneshot[id] = "Allow" => id \in answered
        /\ id \in answered => ~ CancelNoticeSent(id)
        /\ id \in answered \/ CancelNoticeSent(id) \/ inputClosed

\* What an interrupt does to one request: nothing, or it denies and announces it.
LEMMA InterruptAndOneRequest ==
    ASSUME RequestInvariant, OutType, Interrupt, hostPhase' # "aborted", NEW id \in RequestIds
    PROVE  /\ answered' = answered
           /\ \/ /\ id \notin pending /\ oneshot'[id] = oneshot[id]
                 /\ CancelNoticeSent(id)' <=> CancelNoticeSent(id)
              \/ /\ id \in pending /\ oneshot'[id] = "Deny"
                 /\ CancelNoticeSent(id)'
<1>1. /\ oneshot' = [n \in RequestIds |-> IF n \in pending THEN "Deny" ELSE oneshot[n]]
      /\ answered' = answered
      /\ out' = out \o CancelNotices
    BY DEF Interrupt, CancelAll
<1>2. oneshot'[id] = IF id \in pending THEN "Deny" ELSE oneshot[id]
    BY <1>1
<1>3. CASE pending = {} /\ CancelNotices = <<>>
    <2>1. out' = out
        BY <1>1, <1>3 DEF OutType
    <2>2. CancelNoticeSent(id)' <=> CancelNoticeSent(id)
        BY <2>1 DEF CancelNoticeSent
    <2> QED
        BY <1>1, <1>2, <1>3, <2>2
<1>4. CASE pending = {CurrentRequest} /\ CancelNotices = <<Notice(CurrentRequest)>>
    <2>1. out' = Append(out, Notice(CurrentRequest))
        BY <1>1, <1>4 DEF OutType
    <2>2. CancelNoticeSent(id)' <=> (CancelNoticeSent(id) \/ Notice(CurrentRequest) = Notice(id))
        BY <2>1, NoticesAfterOneMessage
    <2>3. Notice(CurrentRequest) = Notice(id) <=> CurrentRequest = id
        BY DEF Notice
    <2> QED
        BY <1>1, <1>2, <1>4, <2>2, <2>3
<1> QED
    BY <1>3, <1>4, NoticesOfAnInterrupt DEF Notice

\* Every step keeps what is known of one request, unless it ends the session.
LEMMA OneRequestStep ==
    ASSUME RequestInvariant, OutType, [HeadlessNext]_headlessVars, hostPhase' # "aborted",
           NEW id \in RequestIds, Knows(id), Untold(id)
    PROVE  Knows(id)' /\ Untold(id)'
<1>1. oneshot \in [RequestIds -> OneshotStates] /\ pending \subseteq RequestIds
    BY DEF RequestInvariant, ResolverTypeOK
<1>2. \A n \in pending : oneshot[n] = "open"
    BY DEF RequestInvariant, AskIsAnswerable
<1>3. inputClosed => inputClosed'
    BY InputStaysClosed
<1>4. ~ Interrupt => (CancelNoticeSent(id)' <=> CancelNoticeSent(id))
    BY OnlyInterruptsNotify
<1>5. ASSUME oneshot'[id] = oneshot[id], id \in answered' <=> id \in answered,
             CancelNoticeSent(id)' <=> CancelNoticeSent(id)
      PROVE  Knows(id)' /\ Untold(id)'
    BY <1>3, <1>5 DEF Knows, Untold
<1>6. CASE oneshot' = oneshot /\ answered' = answered /\ ~ Interrupt
    BY <1>4, <1>5, <1>6
<1>7. CASE /\ nextRequestId \in RequestIds
           /\ oneshot[nextRequestId] = "unused"
           /\ \E state \in {"open", "failed"} :
                  oneshot' = [oneshot EXCEPT ![nextRequestId] = state]
           /\ answered' = answered
           /\ ~ Interrupt
    <2>1. CASE id = nextRequestId
        <3>1. oneshot'[id] \in {"open", "failed"} /\ oneshot[id] = "unused"
            BY <1>1, <1>7, <2>1
        <3>2. id \notin answered' /\ ~ CancelNoticeSent(id)'
            BY <1>4, <1>7, <3>1 DEF Untold
        <3> QED
            BY <3>1, <3>2 DEF Knows, Untold
    <2>2. CASE id # nextRequestId
        <3>1. oneshot'[id] = oneshot[id]
            BY <1>1, <1>7, <2>2
        <3> QED
            BY <1>4, <1>5, <1>7, <3>1
    <2> QED
        BY <2>1, <2>2
<1>8. CASE /\ \E n \in pending, behavior \in {"Allow", "Deny"} :
                  /\ oneshot' = [oneshot EXCEPT ![n] = behavior]
                  /\ answered' = answered \cup {n}
           /\ ~ Interrupt
    <2>1. PICK n \in pending, behavior \in {"Allow", "Deny"} :
              /\ oneshot' = [oneshot EXCEPT ![n] = behavior]
              /\ answered' = answered \cup {n}
        BY <1>8
    <2>2. CASE id = n
        <3>1. oneshot[id] = "open" /\ oneshot'[id] \in {"Allow", "Deny"} /\ id \in answered'
            BY <1>1, <1>2, <2>1, <2>2
        <3>2. ~ CancelNoticeSent(id)'
            BY <1>4, <1>8, <3>1 DEF Untold
        <3> QED
            BY <3>1, <3>2 DEF Knows, Untold
    <2>3. CASE id # n
        <3>1. oneshot'[id] = oneshot[id] /\ (id \in answered' <=> id \in answered)
            BY <1>1, <2>1, <2>3
        <3> QED
            BY <1>4, <1>5, <1>8, <3>1
    <2> QED
        BY <2>2, <2>3
<1>9. CASE Interrupt
    <2>1. CASE id \notin pending
        BY <1>5, <1>9, <2>1, InterruptAndOneRequest
    <2>2. CASE id \in pending
        <3>1. oneshot[id] = "open"
            BY <1>2, <2>2
        <3>2. oneshot'[id] = "Deny" /\ CancelNoticeSent(id)' /\ answered' = answered
            BY <1>9, <2>2, InterruptAndOneRequest
        <3>3. id \notin answered'
            BY <3>1, <3>2 DEF Untold
        <3> QED
            BY <3>2, <3>3 DEF Knows, Untold
    <2> QED
        BY <2>1, <2>2
<1>10. CASE /\ oneshot' = [n \in RequestIds |-> IF n \in pending THEN "Deny" ELSE oneshot[n]]
            /\ answered' = answered
            /\ inputClosed'
            /\ ~ Interrupt
    <2>1. CASE id \notin pending
        <3>1. oneshot'[id] = oneshot[id]
            BY <1>10, <2>1
        <3> QED
            BY <1>4, <1>5, <1>10, <3>1
    <2>2. CASE id \in pending
        <3>1. oneshot[id] = "open" /\ oneshot'[id] = "Deny"
            BY <1>2, <1>10, <2>2
        <3>2. id \notin answered' /\ ~ CancelNoticeSent(id)'
            BY <1>4, <1>10, <3>1 DEF Untold
        <3> QED
            BY <1>10, <3>1, <3>2 DEF Knows, Untold
    <2> QED
        BY <2>1, <2>2
<1> QED
    BY <1>6, <1>7, <1>8, <1>9, <1>10, DecisionsOfAStep

DecisionsAreKnown ==
    hostPhase # "aborted" => \A id \in RequestIds : Knows(id) /\ Untold(id)

\* The client knows what became of every request it was asked, whatever was
\* interrupted, answered late or cut off by the end of input.
THEOREM DecisionsReachTheClient == HeadlessSpec => []ClientKnowsTheDecision
<1>1. HeadlessInit => SessionTyping /\ DecisionsAreKnown
    <2> SUFFICES ASSUME HeadlessInit PROVE SessionTyping /\ DecisionsAreKnown
        OBVIOUS
    <2>1. /\ out = <<>> /\ answered = {}
          /\ \A id \in RequestIds : oneshot[id] = "unused"
        BY DEF HeadlessInit, ResolverInit
    <2>2. \A id : ~ CancelNoticeSent(id)
        BY <2>1 DEF CancelNoticeSent
    <2>3. DecisionsAreKnown
        BY <2>1, <2>2 DEF DecisionsAreKnown, Knows, Untold
    <2> QED
        BY <2>3, SessionTypingInit
<1>2. SessionTyping /\ DecisionsAreKnown /\ [HeadlessNext]_headlessVars
      => SessionTyping' /\ DecisionsAreKnown'
    <2> SUFFICES ASSUME SessionTyping, DecisionsAreKnown, [HeadlessNext]_headlessVars
                 PROVE  SessionTyping' /\ DecisionsAreKnown'
        OBVIOUS
    <2>1. RequestInvariant /\ OutType
        BY DEF SessionTyping
    <2>2. ASSUME hostPhase' # "aborted", NEW id \in RequestIds PROVE Knows(id)' /\ Untold(id)'
        <3>1. hostPhase # "aborted"
            BY <2>1, <2>2, WritesOfAStep DEF StaysAborted
        <3>2. Knows(id) /\ Untold(id)
            BY <3>1 DEF DecisionsAreKnown
        <3> QED
            BY <2>1, <2>2, <3>2, OneRequestStep
    <2>3. DecisionsAreKnown'
        BY <2>2 DEF DecisionsAreKnown, RequestIds
    <2> QED
        BY <2>3, SessionTypingStep
<1>3. DecisionsAreKnown => ClientKnowsTheDecision
    BY DEF DecisionsAreKnown, Knows, ClientKnowsTheDecision
<1> QED
    BY <1>1, <1>2, <1>3, PTL DEF HeadlessSpec

================================================================================
