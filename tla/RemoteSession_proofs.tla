-------------------------- MODULE RemoteSession_proofs --------------------------
(***************************************************************************)
(* Proofs about RemoteSession, for any number of requests, messages and    *)
(* losses of the transport: a permission request that waits can reach a    *)
(* client, the host implements PermissionProtocol, and every user message  *)
(* it takes is answered once.                                              *)
(***************************************************************************)
EXTENDS RemoteSession, Selection_proofs, SequenceTheorems, FiniteSetTheorems, TLAPS

(***************************************************************************)
(* The inductive invariant.                                                *)
(***************************************************************************)

\* What the channels carry.
ChannelTypes == input \in Seq(InputMessages) /\ output \in Seq(OutMessages)

\* Ids are used in order, a tool runs only on a received decision, and the one request that may
\* be pending is the last one, of a turn that waits for it.
RequestsOfTheTurn ==
    /\ \A id \in RequestIds : id >= nextRequestId => oneshot[id] = "unused"
    /\ \A id \in received : id < nextRequestId
    /\ executed \subseteq received
    /\ \A id \in pending : id = CurrentRequest /\ oneshot[id] = "open"
    /\ pending # {} => turn = "asking"

TurnIsOfTheHost == (host = "turn") <=> (turn # "idle")

RemoteInvariant ==
    /\ ResolverTypeOK /\ ChannelTypes
    /\ RequestsOfTheTurn /\ TurnIsOfTheHost
    /\ WaitingRequestReachesAClient

RequestsUntouched == UNCHANGED <<nextRequestId, pending, oneshot, received, executed>>

--------------------------------------------------------------------------------
(***************************************************************************)
(* The channels.                                                           *)
(***************************************************************************)

LEMMA NoticesAreMessages ==
    ASSUME ResolverTypeOK, RequestsOfTheTurn
    PROVE  Notices \in Seq(OutMessages)
<1> DEFINE S == {Out("control_cancel_request", id) : id \in pending}
<1>1. S \subseteq OutMessages
    BY ResolverAssumption DEF ResolverTypeOK, RequestIds, Out, OutMessages, OutTypes
<1>2. S \subseteq {Out("control_cancel_request", CurrentRequest)}
    BY DEF RequestsOfTheTurn
<1>3. Notices \in Seq(S)
    BY <1>2, SmallSetToSeq DEF Notices
<1> HIDE DEF S
<1> QED
    BY <1>1, <1>3, SeqMonotonic

\* What is in a channel stays in it when something is added to it.
LEMMA EmitKeepsOutput ==
    ASSUME ChannelTypes, NEW messages \in Seq(OutMessages), output' = output \o messages
    PROVE  /\ output' \in Seq(OutMessages)
           /\ \A i \in 1 .. Len(output) : i \in 1 .. Len(output') /\ output'[i] = output[i]
<1>1. /\ output \in Seq(OutMessages) /\ Len(output) \in Nat /\ Len(messages) \in Nat
    BY LenProperties DEF ChannelTypes
<1>2. /\ output' \in Seq(OutMessages) /\ Len(output') = Len(output) + Len(messages)
      /\ \A i \in 1 .. Len(output) + Len(messages) :
            output'[i] = IF i <= Len(output) THEN output[i] ELSE messages[i - Len(output)]
    BY <1>1, ConcatProperties
<1> QED
    BY <1>1, <1>2

LEMMA AppendKeepsInput ==
    ASSUME ChannelTypes, NEW message \in InputMessages, input' = Append(input, message)
    PROVE  /\ input' \in Seq(InputMessages)
           /\ \A i \in 1 .. Len(input) : i \in 1 .. Len(input') /\ input'[i] = input[i]
           /\ Len(input') \in 1 .. Len(input') /\ input'[Len(input')] = message
<1>1. input \in Seq(InputMessages) /\ Len(input) \in Nat
    BY LenProperties DEF ChannelTypes
<1>2. /\ input' \in Seq(InputMessages) /\ Len(input') = Len(input) + 1
      /\ \A i \in 1 .. Len(input) : input'[i] = input[i]
      /\ input'[Len(input) + 1] = message
    BY <1>1, AppendProperties
<1> QED
    BY <1>1, <1>2

\* What is behind the head of a channel stays in it.
LEMMA TailKeepsRest ==
    ASSUME NEW S, NEW s \in Seq(S), s # <<>>
    PROVE  /\ Tail(s) \in Seq(S)
           /\ \A i \in 1 .. Len(s) :
                \/ i = 1 /\ s[i] = Head(s)
                \/ i - 1 \in 1 .. Len(Tail(s)) /\ Tail(s)[i - 1] = s[i]
<1>1. /\ Tail(s) \in Seq(S) /\ Len(s) \in Nat /\ Len(Tail(s)) = Len(s) - 1
      /\ \A i \in 1 .. Len(Tail(s)) : Tail(s)[i] = s[i + 1]
    BY HeadTailProperties, LenProperties
<1>2. ASSUME NEW i \in 1 .. Len(s), i # 1
      PROVE  i - 1 \in 1 .. Len(Tail(s)) /\ Tail(s)[i - 1] = s[i]
    <2>1. i - 1 \in 1 .. Len(Tail(s)) /\ (i - 1) + 1 = i
        BY <1>1, <1>2
    <2> QED
        BY <1>1, <2>1
<1>3. Head(s) = s[1]
    OBVIOUS
<1> QED
    BY <1>1, <1>2, <1>3


--------------------------------------------------------------------------------
(***************************************************************************)
(* The invariant is preserved.                                             *)
(***************************************************************************)

LEMMA RemoteInvariantInit == RemoteInit => RemoteInvariant
<1> SUFFICES ASSUME RemoteInit PROVE RemoteInvariant
    OBVIOUS
<1>1. /\ nextRequestId = 1 /\ pending = {} /\ received = {} /\ executed = {}
      /\ oneshot = [id \in RequestIds |-> "unused"]
      /\ turn = "idle" /\ host = "idle" /\ input = <<>> /\ output = <<>>
    BY DEF RemoteInit, ResolverInit, TurnInit
<1>2. ResolverTypeOK
    BY <1>1, ResolverAssumption DEF ResolverTypeOK, OneshotStates
<1>3. ChannelTypes
    BY <1>1, EmptySeq DEF ChannelTypes
<1>4. RequestsOfTheTurn /\ TurnIsOfTheHost /\ WaitingRequestReachesAClient
    BY <1>1 DEF RequestsOfTheTurn, TurnIsOfTheHost, WaitingRequestReachesAClient
<1> QED
    BY <1>2, <1>3, <1>4 DEF RemoteInvariant

\* A step that leaves the requests alone, and a turn that waits where it is.
LEMMA UntouchedRequests ==
    ASSUME RemoteInvariant, RequestsUntouched, turn = "asking" => turn' = "asking"
    PROVE  ResolverTypeOK' /\ RequestsOfTheTurn'
<1>1. /\ nextRequestId' = nextRequestId /\ pending' = pending /\ oneshot' = oneshot
      /\ received' = received /\ executed' = executed
    BY DEF RequestsUntouched
<1> QED
    BY <1>1 DEF RemoteInvariant, ResolverTypeOK, RequestsOfTheTurn, CurrentRequest

\* A request still reaches a client when nothing but new messages changed the channels.
LEMMA StillReaches ==
    ASSUME RemoteInvariant, pending' \subseteq pending, seen \subseteq seen',
           link = "closing" => link' = "closing",
           \A i \in 1 .. Len(output) : i \in 1 .. Len(output') /\ output'[i] = output[i],
           \A i \in 1 .. Len(input) : input[i].kind = "closed" =>
                \E j \in 1 .. Len(input') : input'[j] = input[i]
    PROVE  WaitingRequestReachesAClient'
<1>1. SUFFICES ASSUME NEW id \in pending
               PROVE  \/ \E i \in 1 .. Len(output') : output'[i] = Out("control_request", id)
                      \/ id \in seen'
                      \/ link' = "closing"
                      \/ \E i \in 1 .. Len(input') : input'[i].kind = "closed"
    BY DEF WaitingRequestReachesAClient, Out
<1>2. \/ \E i \in 1 .. Len(output) : output[i] = Out("control_request", id)
      \/ id \in seen
      \/ link = "closing"
      \/ \E i \in 1 .. Len(input) : input[i].kind = "closed"
    BY DEF RemoteInvariant, WaitingRequestReachesAClient
<1>3. CASE \E i \in 1 .. Len(output) : output[i] = Out("control_request", id)
    BY <1>3
<1>4. CASE \E i \in 1 .. Len(input) : input[i].kind = "closed"
    BY <1>4
<1> QED
    BY <1>2, <1>3, <1>4

LEMMA NoRequestReaches ==
    ASSUME pending' = {} PROVE WaitingRequestReachesAClient'
    BY DEF WaitingRequestReachesAClient

LEMMA MessagesOfTheClient ==
    /\ ClientMessages \subseteq InputMessages
    /\ Plain("closed") \in InputMessages /\ Plain("closed").kind = "closed"
    /\ Plain("shutdown") \in InputMessages
    BY DEF InputMessages, Plain, InputMessage

LEMMA LinkStepKeepsInvariant ==
    ASSUME RemoteInvariant,
           \/ ClientSends \/ OutputForwarded \/ TransportLost \/ HostNotified \/ Reconnects
           \/ GivesUp \/ HostDropped \/ HostJoined
    PROVE  RemoteInvariant'
<1>1. /\ ChannelTypes /\ UNCHANGED frameOfLink
      /\ input \in Seq(InputMessages) /\ output \in Seq(OutMessages)
    BY DEF RemoteInvariant, ChannelTypes, ClientSends, OutputForwarded, TransportLost,
        HostNotified, Reconnects, GivesUp, HostDropped, HostJoined
<1>2. RequestsUntouched /\ turn' = turn /\ host' = host /\ pending' = pending
    BY <1>1 DEF frameOfLink, turnVars, resolverVars, RequestsUntouched
<1>3. ResolverTypeOK' /\ RequestsOfTheTurn' /\ TurnIsOfTheHost'
    BY <1>2, UntouchedRequests DEF RemoteInvariant, TurnIsOfTheHost
<1>4. CASE ClientSends \/ HostDropped
    <2>1. \E message \in InputMessages : input' = Append(input, message)
        BY <1>4, MessagesOfTheClient DEF ClientSends, HostDropped
    <2>2. /\ input' \in Seq(InputMessages)
          /\ \A i \in 1 .. Len(input) : i \in 1 .. Len(input') /\ input'[i] = input[i]
        BY <1>1, <2>1, AppendKeepsInput
    <2>3. output' = output /\ link' = link /\ seen' = seen
        BY <1>4 DEF ClientSends, HostDropped, linkVars
    <2>4. WaitingRequestReachesAClient'
        BY <1>2, <2>2, <2>3, StillReaches
    <2> QED
        BY <1>1, <1>3, <2>2, <2>3, <2>4 DEF RemoteInvariant, ChannelTypes
<1>5. CASE OutputForwarded
    <2>1. /\ output # <<>> /\ output' = Tail(output) /\ input' = input /\ link' = link
          /\ seen' = IF Head(output).type = "control_request"
                     THEN seen \cup {Head(output).id} ELSE seen
        BY <1>5 DEF OutputForwarded
    <2>2. /\ output' \in Seq(OutMessages)
          /\ \A i \in 1 .. Len(output) :
                \/ output[i] = Head(output)
                \/ i - 1 \in 1 .. Len(output') /\ output'[i - 1] = output[i]
        BY <1>1, <2>1, TailKeepsRest
    <2>3. ASSUME NEW id \in pending
          PROVE  \/ \E i \in 1 .. Len(output') : output'[i] = Out("control_request", id)
                 \/ id \in seen' \/ link' = "closing"
                 \/ \E i \in 1 .. Len(input') : input'[i].kind = "closed"
        <3>1. CASE \E i \in 1 .. Len(output) : output[i] = Out("control_request", id)
            <4>1. PICK i \in 1 .. Len(output) : output[i] = Out("control_request", id)
                BY <3>1
            <4>2. CASE output[i] = Head(output)
                BY <2>1, <4>1, <4>2 DEF Out
            <4>3. CASE i - 1 \in 1 .. Len(output') /\ output'[i - 1] = output[i]
                BY <4>1, <4>3
            <4> QED
                BY <2>2, <4>2, <4>3
        <3> QED
            BY <2>1, <3>1 DEF RemoteInvariant, WaitingRequestReachesAClient
    <2>4. WaitingRequestReachesAClient'
        BY <1>2, <2>3 DEF WaitingRequestReachesAClient, Out
    <2> QED
        BY <1>1, <1>3, <2>1, <2>2, <2>4 DEF RemoteInvariant, ChannelTypes
<1>6. CASE TransportLost
    <2>1. link' = "closing" /\ input' = input
        BY <1>6 DEF TransportLost
    <2>2. output' \in Seq(OutMessages)
        BY <1>1, <1>6, TailKeepsRest DEF TransportLost
    <2>3. WaitingRequestReachesAClient'
        BY <2>1 DEF WaitingRequestReachesAClient
    <2> QED
        BY <1>1, <1>3, <2>1, <2>2, <2>3 DEF RemoteInvariant, ChannelTypes
<1>7. CASE HostNotified
    <2>1. input' = Append(input, Plain("closed")) /\ output' = output
        BY <1>7 DEF HostNotified
    <2>2. /\ input' \in Seq(InputMessages)
          /\ Len(input') \in 1 .. Len(input') /\ input'[Len(input')].kind = "closed"
        BY <1>1, <2>1, AppendKeepsInput, MessagesOfTheClient
    <2>3. WaitingRequestReachesAClient'
        BY <2>2 DEF WaitingRequestReachesAClient
    <2> QED
        BY <1>1, <1>3, <2>1, <2>2, <2>3 DEF RemoteInvariant, ChannelTypes
<1>8. CASE Reconnects \/ GivesUp \/ HostJoined
    <2>1. input' = input /\ output' = output /\ seen' = seen /\ (link = "closing" => link' = link)
        BY <1>8 DEF Reconnects, GivesUp, HostJoined, linkVars
    <2>2. WaitingRequestReachesAClient'
        BY <1>2, <2>1, StillReaches
    <2> QED
        BY <1>1, <1>3, <2>1, <2>2 DEF RemoteInvariant, ChannelTypes
<1> QED
    BY <1>4, <1>5, <1>6, <1>7, <1>8


LEMMA OneMessage ==
    ASSUME NEW type \in OutTypes, NEW id \in 0 .. MaxRequests
    PROVE  <<Out(type, id)>> \in Seq(OutMessages)
    BY DEF Out, OutMessages

LEMMA ZeroIsAnId == 0 \in 0 .. MaxRequests
    BY ResolverAssumption

\* The last request is the one before the next.
LEMMA NewRequest ==
    ASSUME RemoteInvariant, OpenRequest, pending = {}
    PROVE  /\ nextRequestId \in RequestIds /\ nextRequestId \in 0 .. MaxRequests
           /\ nextRequestId' = nextRequestId + 1 /\ CurrentRequest' = nextRequestId
           /\ pending' = {nextRequestId}
           /\ oneshot' = [oneshot EXCEPT ![nextRequestId] = "open"]
           /\ received' = received
           /\ ResolverTypeOK'
<1>1. nextRequestId \in RequestIds /\ nextRequestId \in 0 .. MaxRequests
    BY ResolverAssumption DEF RemoteInvariant, ResolverTypeOK, OpenRequest, RequestIds
<1>2. /\ nextRequestId' = nextRequestId + 1 /\ pending' = {nextRequestId}
      /\ oneshot' = [oneshot EXCEPT ![nextRequestId] = "open"] /\ received' = received
    BY DEF OpenRequest
<1>3. ResolverTypeOK'
    BY <1>1, <1>2, ResolverAssumption
    DEF RemoteInvariant, ResolverTypeOK, RequestIds, OneshotStates
<1> QED
    BY <1>1, <1>2, <1>3 DEF CurrentRequest, RequestIds

LEMMA TurnStepKeepsInvariant ==
    ASSUME RemoteInvariant, TurnStep \/ DriverAnswers
    PROVE  RemoteInvariant'
<1>1. /\ input' = input /\ link' = link /\ seen' = seen /\ host = "turn"
      /\ ChannelTypes /\ output \in Seq(OutMessages)
    BY DEF TurnStep, TurnRuns, PermissionRequested, PermissionDecided, TurnFinished, DriverAnswers,
        frameOfTurn, linkVars, RemoteInvariant, ChannelTypes
<1>2. CASE TurnRuns \/ DriverAnswers
    <2>1. /\ RequestsUntouched /\ pending' = pending /\ output' = output /\ host' = host
          /\ turn # "asking" /\ turn # "idle" /\ turn' # "idle"
        BY <1>2 DEF TurnRuns, DriverAnswers, TurnIsPolled, TurnAwaitsModel, ModelAnswers,
            RequestsUntouched, resolverVars
    <2>2. ResolverTypeOK' /\ RequestsOfTheTurn' /\ TurnIsOfTheHost'
        BY <2>1, UntouchedRequests DEF RemoteInvariant, TurnIsOfTheHost
    <2>3. WaitingRequestReachesAClient'
        BY <1>1, <2>1, StillReaches
    <2> QED
        BY <1>1, <2>1, <2>2, <2>3 DEF RemoteInvariant, ChannelTypes
<1>3. CASE TurnFinished
    <2>1. /\ RequestsUntouched /\ pending' = pending /\ turn # "asking"
          /\ turn' = "idle" /\ host' = "idle"
        BY <1>3 DEF TurnFinished, TurnLeaves, RequestsUntouched, resolverVars
    <2>2. PICK type \in {"result", "error"} : output' = output \o <<Out(type, 0)>>
        BY <1>3 DEF TurnFinished, Emit
    <2>3. <<Out(type, 0)>> \in Seq(OutMessages)
        BY OneMessage, ZeroIsAnId DEF OutTypes
    <2>4. /\ output' \in Seq(OutMessages)
          /\ \A i \in 1 .. Len(output) : i \in 1 .. Len(output') /\ output'[i] = output[i]
        BY <1>1, <2>2, <2>3, EmitKeepsOutput
    <2>5. ResolverTypeOK' /\ RequestsOfTheTurn' /\ TurnIsOfTheHost'
        BY <2>1, UntouchedRequests DEF RemoteInvariant, TurnIsOfTheHost
    <2>6. WaitingRequestReachesAClient'
        BY <1>1, <2>1, <2>4, StillReaches
    <2> QED
        BY <1>1, <2>4, <2>5, <2>6 DEF RemoteInvariant, ChannelTypes
<1>4. CASE PermissionRequested
    <2>1. /\ turn # "asking" /\ turn' = "asking" /\ host' = host /\ executed' = executed
          /\ OpenRequest
          /\ output' = output \o <<Out("control_request", nextRequestId)>>
        BY <1>4 DEF PermissionRequested, TurnAsks, Emit
    <2>2. pending = {}
        BY <2>1 DEF RemoteInvariant, RequestsOfTheTurn
    <2> USE NewRequest
    <2>3. <<Out("control_request", nextRequestId)>> \in Seq(OutMessages)
        BY <2>1, <2>2, OneMessage DEF OutTypes
    <2>4. /\ output' \in Seq(OutMessages)
          /\ Len(output') \in 1 .. Len(output')
          /\ output'[Len(output')] = Out("control_request", nextRequestId)
        <3> DEFINE m == Out("control_request", nextRequestId)
        <3>1. m \in OutMessages
            BY <2>1, <2>2 DEF Out, OutMessages, OutTypes
        <3> HIDE DEF m
        <3>2. output' = Append(output, m)
            BY <1>1, <2>1, <3>1, AppendIsConcat DEF m
        <3> QED
            BY <1>1, <3>1, <3>2, AppendProperties, LenProperties DEF m
    <2>5. RequestsOfTheTurn'
        <3> nextRequestId' = nextRequestId + 1 /\ nextRequestId \in RequestIds
            BY <2>1, <2>2
        <3>1. \A id \in RequestIds : id >= nextRequestId' => oneshot'[id] = "unused"
            <4>1. ASSUME NEW id \in RequestIds, id >= nextRequestId'
                  PROVE  id # nextRequestId /\ id >= nextRequestId
                BY <4>1 DEF RequestIds
            <4>2. oneshot' = [oneshot EXCEPT ![nextRequestId] = "open"]
                BY <2>1, <2>2
            <4> QED
                BY <4>1, <4>2 DEF RemoteInvariant, RequestsOfTheTurn, ResolverTypeOK
        <3>2. \A id \in received : id < nextRequestId'
            <4>1. \A id \in received : id \in RequestIds /\ id < nextRequestId
                BY DEF RemoteInvariant, RequestsOfTheTurn, ResolverTypeOK
            <4> QED
                BY <4>1 DEF RequestIds
        <3>3. oneshot'[nextRequestId] = "open"
            BY <2>1, <2>2 DEF RemoteInvariant, ResolverTypeOK
        <3> QED
            BY <2>1, <2>2, <3>1, <3>2, <3>3 DEF RemoteInvariant, RequestsOfTheTurn
    <2>6. WaitingRequestReachesAClient'
        BY <2>1, <2>2, <2>4 DEF WaitingRequestReachesAClient, Out
    <2>7. TurnIsOfTheHost'
        BY <1>1, <2>1 DEF TurnIsOfTheHost
    <2> QED
        BY <1>1, <2>1, <2>2, <2>4, <2>5, <2>6, <2>7 DEF RemoteInvariant, ChannelTypes
<1>5. CASE PermissionDecided
    <2>1. /\ turn' = "running" /\ host' = host /\ output' = output
          /\ CurrentRequest \in RequestIds \ received
          /\ oneshot[CurrentRequest] \in {"Allow", "Deny"}
          /\ received' = received \cup {CurrentRequest}
          /\ UNCHANGED <<nextRequestId, pending, oneshot>>
          /\ executed' \subseteq executed \cup {CurrentRequest}
        BY <1>5 DEF PermissionDecided, TurnResumes, ReceiveDecision
    <2>2. pending = {}
        BY <2>1 DEF RemoteInvariant, RequestsOfTheTurn
    <2>3. ResolverTypeOK'
        BY <2>1 DEF RemoteInvariant, ResolverTypeOK
    <2>4. CurrentRequest < nextRequestId
        BY <2>1 DEF RemoteInvariant, ResolverTypeOK, CurrentRequest, RequestIds
    <2>5. RequestsOfTheTurn'
        BY <2>1, <2>2, <2>4 DEF RemoteInvariant, RequestsOfTheTurn
    <2>6. TurnIsOfTheHost'
        BY <1>1, <2>1 DEF TurnIsOfTheHost
    <2>7. WaitingRequestReachesAClient'
        BY <2>1, <2>2, NoRequestReaches
    <2> QED
        BY <1>1, <2>1, <2>3, <2>5, <2>6, <2>7 DEF RemoteInvariant, ChannelTypes
<1> QED
    BY <1>2, <1>3, <1>4, <1>5 DEF TurnStep

\* A step that takes an input: the rest of the channel stays, and the link with it.
LEMMA TakenInput ==
    ASSUME ChannelTypes, NEW kinds, Take(kinds)
    PROVE  /\ host # "returned" /\ Head(input) \in InputMessages /\ Head(input).kind \in kinds
           /\ input' \in Seq(InputMessages)
           /\ link' = link /\ seen' = seen /\ executed' = executed
           /\ "closed" \notin kinds =>
                \A i \in 1 .. Len(input) : input[i].kind = "closed" =>
                    \E j \in 1 .. Len(input') : input'[j] = input[i]
<1>1. /\ host # "returned" /\ input # <<>> /\ input' = Tail(input) /\ Head(input).kind \in kinds
      /\ link' = link /\ seen' = seen /\ executed' = executed /\ input \in Seq(InputMessages)
    BY DEF Take, linkVars, ChannelTypes
<1>2. /\ Tail(input) \in Seq(InputMessages) /\ Head(input) \in InputMessages
      /\ \A i \in 1 .. Len(input) :
            \/ i = 1 /\ input[i] = Head(input)
            \/ i - 1 \in 1 .. Len(Tail(input)) /\ Tail(input)[i - 1] = input[i]
    BY <1>1, TailKeepsRest, HeadTailProperties
<1>3. ASSUME "closed" \notin kinds, NEW i \in 1 .. Len(input), input[i].kind = "closed"
      PROVE  \E j \in 1 .. Len(input') : input'[j] = input[i]
    BY <1>1, <1>2, <1>3
<1> QED
    BY <1>1, <1>2, <1>3

\* Denying what is pending.
LEMMA CancelledRequests ==
    ASSUME RemoteInvariant, CancelAll, executed' = executed
    PROVE  /\ ResolverTypeOK' /\ RequestsOfTheTurn' /\ WaitingRequestReachesAClient'
           /\ pending' = {}
<1>1. /\ pending' = {} /\ nextRequestId' = nextRequestId /\ received' = received
      /\ oneshot' = [id \in RequestIds |-> IF id \in pending THEN "Deny" ELSE oneshot[id]]
    BY DEF CancelAll
<1>2. ResolverTypeOK'
    BY <1>1 DEF RemoteInvariant, ResolverTypeOK, OneshotStates
<1>3. \A id \in RequestIds : id >= nextRequestId => id \notin pending
    BY DEF RemoteInvariant, RequestsOfTheTurn, ResolverTypeOK, CurrentRequest, RequestIds
<1>4. RequestsOfTheTurn'
    BY <1>1, <1>3 DEF RemoteInvariant, RequestsOfTheTurn
<1> QED
    BY <1>1, <1>2, <1>4, NoRequestReaches

\* A message of the host that is no request.
LEMMA HostEmits ==
    ASSUME ChannelTypes, NEW messages \in Seq(OutMessages), Emit(messages)
    PROVE  /\ output' \in Seq(OutMessages)
           /\ \A i \in 1 .. Len(output) : i \in 1 .. Len(output') /\ output'[i] = output[i]
    BY EmitKeepsOutput DEF Emit

LEMMA ResponseKeepsInvariant ==
    ASSUME RemoteInvariant, ResponseApplied
    PROVE  RemoteInvariant'
<1>1. ChannelTypes /\ Take({"response"})
    BY DEF RemoteInvariant, ResponseApplied
<1>2. /\ Head(input) \in InputMessages /\ Head(input).kind = "response"
      /\ input' \in Seq(InputMessages) /\ link' = link /\ seen' = seen /\ executed' = executed
      /\ \A i \in 1 .. Len(input) : input[i].kind = "closed" =>
            \E j \in 1 .. Len(input') : input'[j] = input[i]
    BY <1>1, TakenInput
<1> DEFINE id == Head(input).id
           behavior == Head(input).behavior
<1>3. /\ id \in pending /\ behavior # "Ask"
      /\ pending' = pending \ {id} /\ oneshot' = [oneshot EXCEPT ![id] = behavior]
      /\ nextRequestId' = nextRequestId /\ received' = received
      /\ turn' = turn /\ host' = host /\ output' = output
    BY DEF ResponseApplied, ApplyResponse, turnVars
<1>4. behavior \in {"Allow", "Deny"}
    <2>1. \/ Head(input) \in ClientMessages
          \/ Head(input) \in {Plain("closed"), Plain("shutdown")}
        BY <1>2 DEF InputMessages
    <2>2. CASE Head(input) \in {Plain("closed"), Plain("shutdown")}
        BY <1>2, <2>2 DEF Plain, InputMessage
    <2>3. CASE Head(input) \in ClientMessages
        <3>1. CASE \E kind \in MessageKinds \ {"response"} : Head(input) = Plain(kind)
            BY <1>2, <3>1 DEF Plain, InputMessage
        <3>2. CASE \E n \in RequestIds, b \in Answers : Head(input) = InputMessage("response", n, b)
            BY <1>3, <3>2, RemoteAssumption DEF InputMessage
        <3> QED
            BY <2>3, <3>1, <3>2 DEF ClientMessages
    <2> QED
        BY <2>1, <2>2, <2>3
<1> HIDE DEF id, behavior
<1>5. id \in RequestIds /\ id = CurrentRequest /\ id < nextRequestId /\ pending' = {}
    BY <1>3 DEF RemoteInvariant, RequestsOfTheTurn, ResolverTypeOK, CurrentRequest, RequestIds
<1>6. ResolverTypeOK'
    BY <1>3, <1>4, <1>5 DEF RemoteInvariant, ResolverTypeOK, OneshotStates
<1>7. RequestsOfTheTurn'
    BY <1>2, <1>3, <1>5 DEF RemoteInvariant, RequestsOfTheTurn, ResolverTypeOK, RequestIds
<1> QED
    BY <1>2, <1>3, <1>5, <1>6, <1>7, NoRequestReaches
    DEF RemoteInvariant, ChannelTypes, TurnIsOfTheHost

LEMMA HostStepKeepsInvariant ==
    ASSUME RemoteInvariant, HostStep
    PROVE  RemoteInvariant'
<1>1. ChannelTypes /\ output \in Seq(OutMessages)
    BY DEF RemoteInvariant, ChannelTypes
<1>2. CASE UserBeginsTurn
    <2>1. /\ Take({"user"}) /\ RequestsUntouched /\ pending' = pending /\ output' = output
          /\ host' = "turn" /\ turn = "idle" /\ turn' = "begun"
        BY <1>1, <1>2, TakenInput
        DEF UserBeginsTurn, TurnBegins, RequestsUntouched, resolverVars, Take
    <2>2. ResolverTypeOK' /\ RequestsOfTheTurn' /\ TurnIsOfTheHost'
        BY <2>1, UntouchedRequests DEF TurnIsOfTheHost
    <2>3. WaitingRequestReachesAClient'
        BY <1>1, <2>1, TakenInput, StillReaches
    <2> QED
        BY <1>1, <2>1, <2>2, <2>3, TakenInput DEF RemoteInvariant, ChannelTypes
<1>3. CASE \/ UserTurnedAway \/ ResponseRefused \/ KeepAlive
           \/ Interrupt /\ host # "turn"
    <2>1. PICK kinds \in SUBSET {"user", "response", "keepAlive", "interrupt"} : Take(kinds)
        BY <1>3 DEF UserTurnedAway, ResponseRefused, KeepAlive, Interrupt
    <2>2. /\ RequestsUntouched /\ pending' = pending /\ turn' = turn /\ host' = host
          /\ \E type \in OutTypes : Emit(<<Out(type, 0)>>)
        BY <1>1, <1>3, <2>1, TakenInput
        DEF UserTurnedAway, ResponseRefused, KeepAlive, Interrupt, RequestsUntouched, resolverVars,
            turnVars, OutTypes
    <2>3. /\ output' \in Seq(OutMessages)
          /\ \A i \in 1 .. Len(output) : i \in 1 .. Len(output') /\ output'[i] = output[i]
        BY <1>1, <2>2, HostEmits, OneMessage, ZeroIsAnId
    <2>4. ResolverTypeOK' /\ RequestsOfTheTurn' /\ TurnIsOfTheHost'
        BY <2>2, UntouchedRequests DEF RemoteInvariant, TurnIsOfTheHost
    <2>5. WaitingRequestReachesAClient'
        BY <1>1, <2>1, <2>2, <2>3, TakenInput, StillReaches
    <2> QED
        BY <1>1, <2>1, <2>3, <2>4, <2>5, TakenInput DEF RemoteInvariant, ChannelTypes
<1>4. CASE Interrupt /\ host = "turn"
    <2>1. Take({"interrupt"}) /\ CancelAll /\ Emit(Notices) /\ turn' = turn /\ host' = host
        BY <1>4 DEF Interrupt, TurnIsCancelled
    <2>2. output' \in Seq(OutMessages)
        BY <1>1, <2>1, HostEmits, NoticesAreMessages DEF RemoteInvariant
    <2>3. /\ ResolverTypeOK' /\ RequestsOfTheTurn' /\ WaitingRequestReachesAClient'
          /\ TurnIsOfTheHost'
        BY <1>1, <2>1, TakenInput, CancelledRequests DEF RemoteInvariant, TurnIsOfTheHost
    <2> QED
        BY <1>1, <2>1, <2>2, <2>3, TakenInput DEF RemoteInvariant, ChannelTypes
<1>5. CASE TransportClosed
    <2>1. Take({"closed"}) /\ CancelAll /\ Emit(Notices) /\ turn' = turn /\ host' = host
        BY <1>5 DEF TransportClosed, TurnIsCancelled, turnVars
    <2>2. output' \in Seq(OutMessages)
        BY <1>1, <2>1, HostEmits, NoticesAreMessages DEF RemoteInvariant
    <2>3. /\ ResolverTypeOK' /\ RequestsOfTheTurn' /\ WaitingRequestReachesAClient'
          /\ TurnIsOfTheHost'
        BY <1>1, <2>1, TakenInput, CancelledRequests DEF RemoteInvariant, TurnIsOfTheHost
    <2> QED
        BY <1>1, <2>1, <2>2, <2>3, TakenInput DEF RemoteInvariant, ChannelTypes
<1>6. CASE Shutdown
    <2>1. /\ Take({"shutdown"}) /\ CancelAll /\ host' = "returned"
          /\ \/ host = "turn" /\ turn' = "idle" /\ Emit(Notices)
             \/ host # "turn" /\ turn' = turn /\ output' = output
        BY <1>6 DEF Shutdown, TurnLeaves, turnVars
    <2>2. output' \in Seq(OutMessages)
        BY <1>1, <2>1, HostEmits, NoticesAreMessages DEF RemoteInvariant
    <2>3. TurnIsOfTheHost'
        BY <2>1 DEF RemoteInvariant, TurnIsOfTheHost
    <2>4. ResolverTypeOK' /\ RequestsOfTheTurn' /\ WaitingRequestReachesAClient'
        BY <1>1, <2>1, TakenInput, CancelledRequests
    <2> QED
        BY <1>1, <2>1, <2>2, <2>3, <2>4, TakenInput DEF RemoteInvariant, ChannelTypes
<1> QED
    BY <1>2, <1>3, <1>4, <1>5, <1>6, ResponseKeepsInvariant DEF HostStep

LEMMA RemoteInvariantStep == RemoteInvariant /\ [RemoteNext]_remoteVars => RemoteInvariant'
<1> SUFFICES ASSUME RemoteInvariant, [RemoteNext]_remoteVars PROVE RemoteInvariant'
    OBVIOUS
<1>1. CASE UNCHANGED remoteVars
    <2>1. /\ RequestsUntouched /\ pending' = pending /\ turn' = turn /\ host' = host
          /\ input' = input /\ output' = output /\ seen' = seen /\ link' = link
        BY <1>1 DEF remoteVars, turnVars, resolverVars, linkVars, historyVars, RequestsUntouched
    <2>2. ResolverTypeOK' /\ RequestsOfTheTurn' /\ TurnIsOfTheHost'
        BY <2>1, UntouchedRequests DEF RemoteInvariant, TurnIsOfTheHost
    <2>3. WaitingRequestReachesAClient'
        BY <2>1, StillReaches
    <2> QED
        BY <2>1, <2>2, <2>3 DEF RemoteInvariant, ChannelTypes
<1> QED
    BY <1>1, LinkStepKeepsInvariant, TurnStepKeepsInvariant, HostStepKeepsInvariant DEF RemoteNext

\* A permission request that waits reaches a client or is denied: it is in the output, was
\* delivered over the transport that is up, or the host is about to hear that the transport was
\* lost (BridgePermissionResolver's cancel_all at TransportClosed).
THEOREM RequestsReachAClient == RemoteSpec => []WaitingRequestReachesAClient
<1>1. RemoteInvariant => WaitingRequestReachesAClient
    BY DEF RemoteInvariant
<1> QED
    BY <1>1, RemoteInvariantInit, RemoteInvariantStep, PTL DEF RemoteSpec

--------------------------------------------------------------------------------
(***************************************************************************)
(* The host implements PermissionProtocol.                                 *)
(***************************************************************************)

Granted == {id \in RequestIds : oneshot[id] = "Allow"}

LEMMA OnlyElement ==
    ASSUME NEW c
    PROVE  (CHOOSE id \in {c} : TRUE) = c
    OBVIOUS

LEMMA OpenQuestionIs ==
    ASSUME RemoteInvariant
    PROVE  /\ pending = {} => OpenQuestion = 0
           /\ pending # {} => /\ pending = {CurrentRequest} /\ CurrentRequest \in RequestIds
                              /\ OpenQuestion = CurrentRequest /\ OpenQuestion # 0
<1>1. \A id \in pending : id = CurrentRequest /\ id \in RequestIds
    BY DEF RemoteInvariant, RequestsOfTheTurn, ResolverTypeOK
<1>2. CASE pending = {}
    BY <1>2 DEF OpenQuestion
<1>3. CASE pending # {}
    <2>1. pending = {CurrentRequest} /\ CurrentRequest \in RequestIds
        BY <1>1, <1>3
    <2> QED
        BY <1>3, <2>1, OnlyElement DEF OpenQuestion, RequestIds
<1> QED
    BY <1>2, <1>3

\* Denying what is pending refuses the open question, if there is one.
LEMMA CancellingRefuses ==
    ASSUME RemoteInvariant, CancelAll, executed' = executed
    PROVE  [Protocol!ProtocolNext]_<<CurrentRequest, OpenQuestion, Granted, executed>>
<1>1. /\ pending' = {} /\ nextRequestId' = nextRequestId
      /\ oneshot' = [id \in RequestIds |-> IF id \in pending THEN "Deny" ELSE oneshot[id]]
    BY DEF CancelAll
<1>2. CurrentRequest' = CurrentRequest /\ OpenQuestion' = 0
    BY <1>1 DEF CurrentRequest, OpenQuestion
<1>3. Granted' = Granted
    BY <1>1 DEF Granted, RemoteInvariant, RequestsOfTheTurn
<1>4. CASE pending = {}
    BY <1>2, <1>3, <1>4, OpenQuestionIs
<1>5. CASE pending # {}
    BY <1>2, <1>3, <1>5, OpenQuestionIs DEF Protocol!Refuse, Protocol!ProtocolNext, Granted
<1> QED
    BY <1>4, <1>5

LEMMA RemoteProtocolStep ==
    ASSUME RemoteInvariant, [RemoteNext]_remoteVars
    PROVE  [Protocol!ProtocolNext]_<<CurrentRequest, OpenQuestion, Granted, executed>>
<1>t. ChannelTypes
    BY DEF RemoteInvariant
<1>1. CASE PermissionRequested
    <2>1. OpenRequest /\ pending = {} /\ executed' = executed
        BY <1>1 DEF PermissionRequested, TurnAsks, RemoteInvariant, RequestsOfTheTurn
    <2>2. /\ nextRequestId \in RequestIds /\ nextRequestId' = nextRequestId + 1
          /\ pending' = {nextRequestId} /\ CurrentRequest' = nextRequestId
          /\ oneshot' = [oneshot EXCEPT ![nextRequestId] = "open"]
        BY <2>1, NewRequest
    <2>3. nextRequestId = CurrentRequest + 1
        BY <2>2 DEF CurrentRequest, RequestIds
    <2>4. OpenQuestion = 0 /\ OpenQuestion' = nextRequestId
        BY <2>1, <2>2, OnlyElement DEF OpenQuestion
    <2>5. Granted' = Granted
        BY <2>2 DEF Granted, RemoteInvariant, RequestsOfTheTurn, ResolverTypeOK, RequestIds
    <2> QED
        BY <2>1, <2>2, <2>3, <2>4, <2>5 DEF Protocol!Ask, Protocol!ProtocolNext, Granted
<1>2. CASE PermissionDecided
    <2>1. /\ CurrentRequest \in RequestIds \ received
          /\ oneshot[CurrentRequest] \in {"Allow", "Deny"}
          /\ UNCHANGED <<nextRequestId, pending, oneshot>>
          /\ \/ oneshot[CurrentRequest] = "Allow" /\ executed' = executed \cup {CurrentRequest}
             \/ executed' = executed
        BY <1>2 DEF PermissionDecided, ReceiveDecision
    <2>2. UNCHANGED <<CurrentRequest, OpenQuestion, Granted>>
        BY <2>1 DEF CurrentRequest, OpenQuestion, Granted
    <2>3. OpenQuestion = 0
        BY <2>1, OpenQuestionIs DEF RemoteInvariant, RequestsOfTheTurn
    <2>4. oneshot[CurrentRequest] = "Allow" => CurrentRequest \in Granted \ executed
        BY <2>1 DEF Granted, RemoteInvariant, RequestsOfTheTurn
    <2> QED
        BY <2>1, <2>2, <2>3, <2>4 DEF Protocol!Execute, Protocol!ProtocolNext, Granted
<1>3. CASE ResponseApplied
    <2> DEFINE id == Head(input).id
               behavior == Head(input).behavior
    <2>1. /\ id \in pending /\ pending' = pending \ {id} /\ oneshot' = [oneshot EXCEPT ![id] = behavior]
          /\ nextRequestId' = nextRequestId /\ executed' = executed
        BY <1>3, <1>t, TakenInput DEF ResponseApplied, ApplyResponse
    <2> HIDE DEF id, behavior
    <2>2. /\ pending = {CurrentRequest} /\ id = CurrentRequest /\ CurrentRequest \in RequestIds
          /\ OpenQuestion = CurrentRequest /\ OpenQuestion # 0
        BY <2>1, OpenQuestionIs
    <2>3. OpenQuestion' = 0 /\ CurrentRequest' = CurrentRequest
        BY <2>1, <2>2 DEF OpenQuestion, CurrentRequest
    <2>4. oneshot \in [RequestIds -> OneshotStates] /\ oneshot[CurrentRequest] = "open"
        BY <2>2 DEF RemoteInvariant, ResolverTypeOK, RequestsOfTheTurn
    <2>5. Granted' = IF behavior = "Allow" THEN Granted \cup {OpenQuestion} ELSE Granted
        BY <2>1, <2>2, <2>4 DEF Granted
    <2> QED
        BY <2>1, <2>2, <2>3, <2>5
        DEF Protocol!Grant, Protocol!Refuse, Protocol!ProtocolNext, Granted
<1>4. CASE TransportClosed \/ Shutdown \/ (Interrupt /\ host = "turn")
    <2>1. CancelAll /\ executed' = executed
        BY <1>4, <1>t, TakenInput DEF TransportClosed, Shutdown, Interrupt
    <2> QED
        BY <2>1, CancellingRefuses
<1>5. CASE UNCHANGED <<nextRequestId, pending, oneshot, executed>>
    BY <1>5 DEF CurrentRequest, OpenQuestion, Granted
<1>6. CASE \/ ClientSends \/ OutputForwarded \/ TransportLost \/ HostNotified \/ Reconnects
           \/ GivesUp \/ HostDropped \/ HostJoined \/ TurnRuns \/ DriverAnswers \/ TurnFinished
           \/ UNCHANGED remoteVars
    <2>1. UNCHANGED <<nextRequestId, pending, oneshot, executed>>
        BY <1>6 DEF ClientSends, OutputForwarded, TransportLost, HostNotified, Reconnects, GivesUp,
            HostDropped, HostJoined, frameOfLink, TurnRuns, DriverAnswers, TurnFinished,
            resolverVars, remoteVars, historyVars
    <2> QED
        BY <1>5, <2>1
<1>7. CASE \/ UserBeginsTurn \/ UserTurnedAway \/ ResponseRefused \/ KeepAlive
           \/ (Interrupt /\ host # "turn")
    <2>1. UNCHANGED <<nextRequestId, pending, oneshot, executed>>
        BY <1>7, <1>t, TakenInput
        DEF UserBeginsTurn, UserTurnedAway, ResponseRefused, KeepAlive, Interrupt, resolverVars
    <2> QED
        BY <1>5, <2>1
<1> QED
    BY <1>1, <1>2, <1>3, <1>4, <1>6, <1>7 DEF RemoteNext, TurnStep, HostStep

\* The standalone host keeps the permission protocol, however often the transport is lost and
\* whatever old answers arrive: a tool runs at most once on a request, and only on one that was
\* granted while it was open.
THEOREM RemoteImplementsProtocol == RemoteSpec => RemoteKeepsProtocol
<1>1. RemoteInit => Protocol!ProtocolInit
    <2> SUFFICES ASSUME RemoteInit PROVE Protocol!ProtocolInit
        OBVIOUS
    <2>1. nextRequestId = 1 /\ pending = {} /\ executed = {}
        BY DEF RemoteInit, ResolverInit
    <2>2. {id \in RequestIds : oneshot[id] = "Allow"} = {}
        BY DEF RemoteInit, ResolverInit
    <2> QED
        BY <2>1, <2>2 DEF Protocol!ProtocolInit, CurrentRequest, OpenQuestion
<1>2. RemoteInvariant /\ [RemoteNext]_remoteVars
      => [Protocol!ProtocolNext]_(Protocol!protocolVars)
    BY RemoteProtocolStep DEF Protocol!protocolVars, Granted
<1> QED
    BY <1>1, <1>2, RemoteInvariantInit, RemoteInvariantStep, PTL
    DEF RemoteSpec, RemoteKeepsProtocol, Protocol!ProtocolSpec
--------------------------------------------------------------------------------
(***************************************************************************)
(* What a step emits.                                                      *)
(***************************************************************************)

\* The sequences of a set with at most one element.
LEMMA SetToSeqOfOne ==
    ASSUME NEW x
    PROVE  SetToSeq({}) = <<>> /\ SetToSeq({x}) = <<x>>
<1>1. Cardinality({}) = 0 /\ Cardinality({x}) = 1
    BY FS_EmptySet, FS_Singleton
<1>2. SetToSeq({}) = <<>>
    <2>1. SetToSeq({}) \in Seq({})
        BY SmallSetToSeq
    <2> QED
        BY <2>1
<1>3. SetToSeq({x}) = <<x>>
    <2>1. SetToSeq({x}) = CHOOSE f \in [1 .. 1 -> {x}] : IsInjective(f)
        BY <1>1 DEF SetToSeq
    <2>2. [i \in 1 .. 1 |-> x] \in [1 .. 1 -> {x}] /\ IsInjective([i \in 1 .. 1 |-> x])
        BY DEF IsInjective
    <2>3. SetToSeq({x}) \in [1 .. 1 -> {x}]
        BY <2>1, <2>2
    <2> QED
        BY <2>3
<1> QED
    BY <1>2, <1>3

\* At most one notice: the host never has two requests pending.
LEMMA NoticesValue ==
    ASSUME RemoteInvariant
    PROVE  \/ Notices = <<>>
           \/ /\ CurrentRequest \in RequestIds
              /\ Notices = <<Out("control_cancel_request", CurrentRequest)>>
<1>1. CASE pending = {}
    <2>1. {Out("control_cancel_request", id) : id \in pending} = {}
        BY <1>1
    <2> QED
        BY <2>1, SetToSeqOfOne DEF Notices
<1>2. CASE pending # {}
    <2>1. pending = {CurrentRequest} /\ CurrentRequest \in RequestIds
        BY <1>2 DEF RemoteInvariant, RequestsOfTheTurn, ResolverTypeOK
    <2>2. {Out("control_cancel_request", id) : id \in pending}
          = {Out("control_cancel_request", CurrentRequest)}
        BY <2>1
    <2> QED
        BY <2>1, <2>2, SetToSeqOfOne DEF Notices
<1> QED
    BY <1>1, <1>2

\* The messages a host can mean: a control_request names a request.
MeantMessages == {m \in OutMessages : m.type = "control_request" => m.id \in RequestIds}

UserAnswers == {"result", "error", "busy"}

OutputTypes ==
    /\ output \in Seq(MeantMessages)
    /\ emitted \in Seq(OutMessages)

Writes(m) == output' = Append(output, m) /\ emitted' = Append(emitted, m)

WritesNothing == output' = output /\ emitted' = emitted

\* A message that answers no user.
WritesOther == \E m \in MeantMessages : m.type \notin UserAnswers /\ Writes(m)

WritesAnswer == \E type \in UserAnswers : Writes(Out(type, 0))

LEMMA EmitWrites ==
    ASSUME OutputTypes, NEW m
    PROVE  /\ Emit(<<m>>) => Writes(m)
           /\ Emit(<<>>) => WritesNothing
<1>1. output \in Seq(OutMessages) /\ emitted \in Seq(OutMessages)
    BY DEF OutputTypes, MeantMessages
<1>2. /\ output \o <<m>> = Append(output, m) /\ emitted \o <<m>> = Append(emitted, m)
      /\ output \o <<>> = output /\ emitted \o <<>> = emitted
    BY <1>1
<1> QED
    BY <1>2 DEF Emit, Writes, WritesNothing

LEMMA NoticesAreOther ==
    ASSUME RemoteInvariant, OutputTypes, Emit(Notices)
    PROVE  WritesNothing \/ WritesOther
<1>1. CASE Notices = <<>>
    BY <1>1, EmitWrites
<1>2. CASE /\ CurrentRequest \in RequestIds
           /\ Notices = <<Out("control_cancel_request", CurrentRequest)>>
    <2> DEFINE m == Out("control_cancel_request", CurrentRequest)
    <2>1. m \in MeantMessages /\ m.type \notin UserAnswers
        BY <1>2, ResolverAssumption
        DEF MeantMessages, OutMessages, OutTypes, Out, RequestIds, UserAnswers
    <2>2. Writes(m)
        BY <1>2, EmitWrites
    <2> QED
        BY <2>1, <2>2 DEF WritesOther
<1> QED
    BY <1>1, <1>2, NoticesValue

\* The messages about no request.
LEMMA PlainMessages ==
    ASSUME OutputTypes, NEW type \in OutTypes, Emit(<<Out(type, 0)>>)
    PROVE  /\ Writes(Out(type, 0))
           /\ type \notin UserAnswers \cup {"control_request"} => WritesOther
<1>1. Writes(Out(type, 0))
    BY EmitWrites
<1>2. ASSUME type \notin UserAnswers \cup {"control_request"}
      PROVE  Out(type, 0) \in MeantMessages /\ Out(type, 0).type \notin UserAnswers
    BY <1>2, ZeroIsAnId DEF MeantMessages, OutMessages, Out
<1> QED
    BY <1>1, <1>2 DEF WritesOther

\* The kinds of steps: the output is forwarded (or lost) at most; a message that answers no user;
\* the turn is answered and over; a user is turned away; a turn begins; the host returns.
ForwardStep ==
    /\ emitted' = emitted /\ (output' = output \/ (output # <<>> /\ output' = Tail(output)))
    /\ taken' = taken /\ host' = host

OtherMessageStep == WritesOther /\ taken' = taken /\ host' = host

TurnAnswerStep == WritesAnswer /\ taken' = taken /\ host = "turn" /\ host' = "idle"

UserAnswerStep == WritesAnswer /\ taken' = taken + 1 /\ host = "turn" /\ host' = "turn"

TurnBeginStep == WritesNothing /\ taken' = taken + 1 /\ host = "idle" /\ host' = "turn"

ReturnStep ==
    /\ WritesNothing \/ WritesOther
    /\ taken' = taken /\ host # "returned" /\ host' = "returned"

LEMMA EmissionOfAStep ==
    ASSUME RemoteInvariant, OutputTypes, [RemoteNext]_remoteVars
    PROVE  \/ ForwardStep \/ OtherMessageStep \/ TurnAnswerStep
           \/ UserAnswerStep \/ TurnBeginStep \/ ReturnStep
<1>1. CASE \/ ClientSends \/ OutputForwarded \/ TransportLost \/ HostNotified \/ Reconnects
           \/ GivesUp \/ HostDropped \/ HostJoined \/ UNCHANGED remoteVars
    BY <1>1 DEF ClientSends, OutputForwarded, TransportLost, HostNotified, Reconnects, GivesUp,
        HostDropped, HostJoined, frameOfLink, remoteVars, historyVars, ForwardStep
<1>2. CASE TurnRuns \/ DriverAnswers \/ PermissionDecided \/ ResponseApplied
    BY <1>2 DEF TurnRuns, DriverAnswers, PermissionDecided, ResponseApplied, frameOfTurn,
        ForwardStep
<1>3. CASE PermissionRequested
    <2>1. /\ Emit(<<Out("control_request", nextRequestId)>>) /\ OpenRequest
          /\ taken' = taken /\ host' = host
        BY <1>3 DEF PermissionRequested, frameOfTurn
    <2>2. nextRequestId \in RequestIds /\ nextRequestId \in 0 .. MaxRequests
        BY <2>1, ResolverAssumption DEF RemoteInvariant, ResolverTypeOK, OpenRequest, RequestIds
    <2>3. /\ Out("control_request", nextRequestId) \in MeantMessages
          /\ Out("control_request", nextRequestId).type \notin UserAnswers
        BY <2>2 DEF MeantMessages, OutMessages, OutTypes, Out, UserAnswers
    <2>4. Writes(Out("control_request", nextRequestId))
        BY <2>1, EmitWrites
    <2> QED
        BY <2>1, <2>3, <2>4 DEF OtherMessageStep, WritesOther
<1>4. CASE TurnFinished
    <2>1. /\ \E type \in {"result", "error"} : Emit(<<Out(type, 0)>>)
          /\ taken' = taken /\ host = "turn" /\ host' = "idle"
        BY <1>4 DEF TurnFinished, frameOfTurn
    <2>2. {"result", "error"} \subseteq OutTypes /\ {"result", "error"} \subseteq UserAnswers
        BY DEF OutTypes, UserAnswers
    <2> QED
        BY <2>1, <2>2, PlainMessages DEF TurnAnswerStep, WritesAnswer
<1>5. CASE UserBeginsTurn
    BY <1>5 DEF UserBeginsTurn, TurnBeginStep, WritesNothing
<1>6. CASE UserTurnedAway
    <2>1. Emit(<<Out("busy", 0)>>) /\ taken' = taken + 1 /\ host = "turn" /\ host' = "turn"
        BY <1>6 DEF UserTurnedAway
    <2>2. "busy" \in OutTypes /\ "busy" \in UserAnswers
        BY DEF OutTypes, UserAnswers
    <2> QED
        BY <2>1, <2>2, PlainMessages DEF UserAnswerStep, WritesAnswer
<1>7. CASE ResponseRefused \/ KeepAlive \/ (Interrupt /\ host # "turn")
    <2>1. /\ taken' = taken /\ host' = host
          /\ \E type \in {"invalid_input_message", "unexpected_control_response", "keep_alive",
                          "no_active_turn"} : Emit(<<Out(type, 0)>>)
        BY <1>7 DEF ResponseRefused, KeepAlive, Interrupt
    <2>2. {"invalid_input_message", "unexpected_control_response", "keep_alive", "no_active_turn"}
          \subseteq OutTypes \ (UserAnswers \cup {"control_request"})
        BY DEF OutTypes, UserAnswers
    <2>3. WritesOther
        BY <2>1, <2>2, PlainMessages
    <2> QED
        BY <2>1, <2>3 DEF OtherMessageStep
<1>8. CASE (Interrupt /\ host = "turn") \/ TransportClosed
    <2>1. Emit(Notices) /\ taken' = taken /\ host' = host
        BY <1>8 DEF Interrupt, TransportClosed
    <2> QED
        BY <2>1, NoticesAreOther DEF OtherMessageStep, ForwardStep, WritesNothing
<1>9. CASE Shutdown
    <2>1. /\ host # "returned" /\ host' = "returned" /\ taken' = taken
          /\ Emit(Notices) \/ WritesNothing
        BY <1>9 DEF Shutdown, Take, WritesNothing
    <2> QED
        BY <2>1, NoticesAreOther DEF ReturnStep
<1> QED
    <2>1. CASE TurnStep \/ DriverAnswers
        BY <1>2, <1>3, <1>4, <2>1 DEF TurnStep
    <2>2. CASE HostStep
        <3>1. CASE Interrupt
            BY <1>7, <1>8, <3>1
        <3>2. CASE ResponseApplied \/ UserBeginsTurn \/ UserTurnedAway \/ Shutdown
            BY <1>2, <1>5, <1>6, <1>9, <3>2
        <3>3. CASE ResponseRefused \/ KeepAlive
            BY <1>7, <3>3
        <3>4. CASE TransportClosed
            BY <1>8, <3>4
        <3> QED
            BY <2>2, <3>1, <3>2, <3>3, <3>4 DEF HostStep
    <2> QED
        BY <1>1, <2>1, <2>2 DEF RemoteNext

LEMMA OutputTypesStep ==
    ASSUME RemoteInvariant, OutputTypes, [RemoteNext]_remoteVars
    PROVE  OutputTypes'
<1>1. ASSUME NEW m \in MeantMessages, Writes(m) PROVE OutputTypes'
    <2>1. m \in OutMessages
        BY DEF MeantMessages
    <2> QED
        BY <1>1, <2>1, AppendProperties DEF OutputTypes, Writes
<1>2. CASE WritesAnswer
    <2>1. PICK type \in UserAnswers : Writes(Out(type, 0))
        BY <1>2 DEF WritesAnswer
    <2>2. Out(type, 0) \in MeantMessages
        BY <2>1, ZeroIsAnId DEF UserAnswers, Out, MeantMessages, OutMessages, OutTypes
    <2> QED
        BY <1>1, <2>1, <2>2
<1>3. CASE WritesOther
    BY <1>1, <1>3 DEF WritesOther
<1>4. CASE WritesNothing
    BY <1>4 DEF WritesNothing, OutputTypes
<1>5. CASE ForwardStep
    <2>1. output # <<>> => Tail(output) \in Seq(MeantMessages)
        BY HeadTailProperties DEF OutputTypes
    <2> QED
        BY <1>5, <2>1 DEF ForwardStep, OutputTypes
<1> QED
    BY <1>2, <1>3, <1>4, <1>5, EmissionOfAStep
    DEF OtherMessageStep, TurnAnswerStep, UserAnswerStep, TurnBeginStep, ReturnStep

--------------------------------------------------------------------------------
(***************************************************************************)
(* Types.                                                                  *)
(***************************************************************************)

\* The turn and the host between them: no model pass outlives its turn.
TurnTypes == TurnTypeOK /\ (turn \in {"idle", "begun"} => passes = 0)

LEMMA TurnTypesStep ==
    ASSUME TurnTypes, [RemoteNext]_remoteVars
    PROVE  TurnTypes'
<1>1. [TurnNext]_turnVars
    <2>1. CASE \/ ClientSends \/ OutputForwarded \/ TransportLost \/ HostNotified \/ Reconnects
               \/ GivesUp \/ HostDropped \/ HostJoined \/ UNCHANGED remoteVars
        BY <2>1 DEF ClientSends, OutputForwarded, TransportLost, HostNotified, Reconnects,
            GivesUp, HostDropped, HostJoined, frameOfLink, remoteVars
    <2>2. CASE TurnStep \/ DriverAnswers
        BY <2>2 DEF TurnStep, TurnRuns, DriverAnswers, PermissionRequested, PermissionDecided,
            TurnFinished, TurnNext
    <2>3. CASE HostStep
        BY <2>3 DEF HostStep, UserBeginsTurn, UserTurnedAway, Interrupt, ResponseApplied,
            ResponseRefused, KeepAlive, TransportClosed, Shutdown, TurnNext
    <2> QED
        BY <2>1, <2>2, <2>3 DEF RemoteNext
<1>2. limit \in Limits /\ limit \in Nat /\ passes \in 0 .. limit
    BY TurnAssumption DEF TurnTypes, TurnTypeOK
<1>3. CASE TurnBegins
    <2>1. passes = 0 /\ limit' \in Nat /\ limit' \in Limits /\ passes' = 0
        BY <1>3, TurnAssumption DEF TurnBegins, TurnTypes
    <2>2. passes' \in 0 .. limit'
        BY <2>1
    <2> QED
        BY <1>3, <2>1, <2>2 DEF TurnBegins, TurnTypes, TurnTypeOK
<1>4. CASE TurnAwaitsModel
    <2>1. passes' \in 0 .. limit
        BY <1>2, <1>4 DEF TurnAwaitsModel
    <2> QED
        BY <1>4, <2>1 DEF TurnAwaitsModel, TurnTypes, TurnTypeOK
<1>5. CASE TurnLeaves
    BY <1>2, <1>5 DEF TurnLeaves, TurnTypes, TurnTypeOK
<1>6. CASE TurnIsCancelled \/ TurnIsPolled \/ ModelAnswers \/ TurnAsks \/ TurnResumes
    BY <1>6 DEF TurnIsCancelled, TurnIsPolled, ModelAnswers, TurnAsks, TurnResumes, TurnTypes,
        TurnTypeOK
<1>7. CASE UNCHANGED turnVars
    BY <1>7 DEF turnVars, TurnTypes, TurnTypeOK
<1> QED
    BY <1>1, <1>3, <1>4, <1>5, <1>6, <1>7 DEF TurnNext

\* The user messages the client has sent are those the host took and those still on their way.
UserMessages == {m \in InputMessages : m.kind = "user"}

OnTheirWay == Len(Selected(input, UserMessages))

LinkTypes ==
    /\ link \in {"up", "closing", "down", "ended"} /\ losses \in 0 .. MaxLosses
    /\ host \in {"idle", "turn", "returned"}
    /\ main \in {"waiting", "dropping", "exited"}
    /\ seen \subseteq RequestIds /\ lost \subseteq OutMessages
    /\ sent \in 0 .. MaxMessages /\ taken \in Nat
    /\ taken + OnTheirWay <= sent
    /\ answered \subseteq RequestIds

\* A step of the link, of the client or of main.
LEMMA LinkTypesOfTheLink ==
    ASSUME RemoteInvariant, OutputTypes, LinkTypes,
           \/ ClientSends \/ OutputForwarded \/ TransportLost \/ HostNotified \/ Reconnects
           \/ GivesUp \/ HostDropped \/ HostJoined
    PROVE  LinkTypes'
<1>1. /\ input \in Seq(InputMessages) /\ MaxLosses \in Nat /\ MaxMessages \in Nat
      /\ OnTheirWay \in Nat
    <2>1. input \in Seq(InputMessages)
        BY DEF RemoteInvariant, ChannelTypes
    <2>2. Selected(input, UserMessages) \in Seq(InputMessages \cap UserMessages)
        BY <2>1, SelectedIn
    <2> QED
        BY <2>1, <2>2, RemoteAssumption DEF OnTheirWay
<1>2. host' = host /\ taken' = taken /\ answered' = answered
    BY DEF ClientSends, OutputForwarded, TransportLost, HostNotified, Reconnects, GivesUp,
        HostDropped, HostJoined, frameOfLink
<1>3. /\ link' \in {"up", "closing", "down", "ended"}
      /\ main' \in {"waiting", "dropping", "exited"}
    BY DEF ClientSends, OutputForwarded, TransportLost, HostNotified, Reconnects, GivesUp,
        HostDropped, HostJoined, linkVars, LinkTypes
<1>4. losses' \in 0 .. MaxLosses
    <2>1. losses' = losses \/ (losses < MaxLosses /\ losses' = losses + 1)
        BY DEF ClientSends, OutputForwarded, TransportLost, HostNotified, Reconnects, GivesUp,
            HostDropped, HostJoined, linkVars
    <2> QED
        BY <1>1, <2>1 DEF LinkTypes
<1>5. seen' \subseteq RequestIds /\ lost' \subseteq OutMessages
    <2>1. output # <<>> => Head(output) \in MeantMessages
        BY HeadTailProperties DEF OutputTypes
    <2>2. output # <<>> => /\ Head(output) \in OutMessages
                           /\ Head(output).type = "control_request" => Head(output).id \in RequestIds
        BY <2>1 DEF MeantMessages
    <2>3. \/ seen' = seen \/ seen' = {}
          \/ /\ output # <<>>
             /\ seen' = IF Head(output).type = "control_request"
                        THEN seen \cup {Head(output).id} ELSE seen
        BY DEF ClientSends, OutputForwarded, TransportLost, HostNotified, Reconnects, GivesUp,
            HostDropped, HostJoined, linkVars
    <2>4. \/ lost' = lost
          \/ output # <<>> /\ lost' = lost \cup {Head(output)}
        BY DEF ClientSends, OutputForwarded, TransportLost, HostNotified, Reconnects, GivesUp,
            HostDropped, HostJoined, linkVars
    <2>5. seen' \subseteq RequestIds
        BY <2>2, <2>3 DEF LinkTypes
    <2>6. lost' \subseteq OutMessages
        BY <2>2, <2>4 DEF LinkTypes
    <2> QED
        BY <2>5, <2>6
<1>6. sent' \in 0 .. MaxMessages /\ taken + OnTheirWay' <= sent'
    <2>1. taken \in Nat /\ sent \in 0 .. MaxMessages /\ taken + OnTheirWay <= sent
        BY DEF LinkTypes
    <2>2. ASSUME NEW m \in InputMessages, input' = Append(input, m)
          PROVE  OnTheirWay' = OnTheirWay + (IF m \in UserMessages THEN 1 ELSE 0)
        <3>1. UserMessages' = UserMessages
            BY DEF UserMessages
        <3>2. Len(Selected(Append(input, m), UserMessages)) =
                  Len(Selected(input, UserMessages)) + (IF m \in UserMessages THEN 1 ELSE 0)
            BY <1>1, SelectedAppendLength
        <3> QED
            BY <2>2, <3>2 DEF OnTheirWay
    <2>3. CASE ClientSends
        <3>1. PICK m \in InputMessages : input' = Append(input, m)
            BY <2>3, MessagesOfTheClient DEF ClientSends
        <3>2. OnTheirWay' \in {OnTheirWay, OnTheirWay + 1}
            BY <1>1, <2>2, <3>1
        <3>3. sent < MaxMessages /\ sent' = sent + 1
            BY <2>3 DEF ClientSends
        <3> QED
            <4>1. OnTheirWay' <= OnTheirWay + 1 /\ OnTheirWay' \in Nat
                BY <1>1, <3>2
            <4>2. sent + 1 \in 0 .. MaxMessages
                BY <1>1, <2>1, <3>3
            <4>3. taken + OnTheirWay' <= sent + 1
                <5>1. taken \in Nat /\ sent \in Nat /\ taken + OnTheirWay <= sent
                    BY <1>1, <2>1
                <5>2. \A a, b, c, d \in Nat : a + b <= c /\ d <= b + 1 => a + d <= c + 1
                    OBVIOUS
                <5> QED
                    BY <1>1, <4>1, <5>1, <5>2
            <4> QED
                BY <3>3, <4>2, <4>3
    <2>4. CASE HostNotified \/ HostDropped
        <3>1. PICK kind \in {"closed", "shutdown"} : input' = Append(input, Plain(kind))
            BY <2>4 DEF HostNotified, HostDropped
        <3>2. Plain(kind) \in InputMessages /\ Plain(kind) \notin UserMessages
            BY MessagesOfTheClient DEF UserMessages, Plain, InputMessage
        <3>3. OnTheirWay' = OnTheirWay + 0
            BY <2>2, <3>1, <3>2
        <3>4. sent' = sent
            BY <2>4 DEF HostNotified, HostDropped
        <3> QED
            BY <1>1, <2>1, <3>3, <3>4
    <2>5. CASE OutputForwarded \/ TransportLost \/ Reconnects \/ GivesUp \/ HostJoined
        <3>1. input' = input /\ sent' = sent
            BY <2>5 DEF OutputForwarded, TransportLost, Reconnects, GivesUp, HostJoined
        <3>2. OnTheirWay' = OnTheirWay
            BY <3>1 DEF OnTheirWay, UserMessages
        <3> QED
            BY <2>1, <3>1, <3>2
    <2> QED
        BY <2>3, <2>4, <2>5
<1> QED
    BY <1>2, <1>3, <1>4, <1>5, <1>6 DEF LinkTypes

\* A step that takes an input.
LEMMA LinkTypesOfTheHost ==
    ASSUME RemoteInvariant, LinkTypes, HostStep
    PROVE  LinkTypes'
<1>1. /\ input \in Seq(InputMessages) /\ input # <<>> /\ input' = Tail(input)
      /\ UNCHANGED <<linkVars, main, sent>>
    BY DEF RemoteInvariant, ChannelTypes, HostStep, UserBeginsTurn, UserTurnedAway, Interrupt,
        ResponseApplied, ResponseRefused, KeepAlive, TransportClosed, Shutdown, Take
<1>2. \/ taken' = taken
      \/ Head(input).kind = "user" /\ taken' = taken + 1
    BY DEF HostStep, UserBeginsTurn, UserTurnedAway, Interrupt, ResponseApplied,
        ResponseRefused, KeepAlive, TransportClosed, Shutdown, Take
<1>3. host' \in {host, "turn", "returned"}
    BY DEF HostStep, UserBeginsTurn, UserTurnedAway, Interrupt, ResponseApplied,
        ResponseRefused, KeepAlive, TransportClosed, Shutdown
<1>4. answered' \subseteq RequestIds
    <2>1. \/ answered' = answered
          \/ Head(input).id \in pending /\ answered' = answered \cup {Head(input).id}
        BY DEF HostStep, UserBeginsTurn, UserTurnedAway, Interrupt, ResponseApplied,
            ResponseRefused, KeepAlive, TransportClosed, Shutdown, ApplyResponse
    <2> QED
        BY <2>1 DEF LinkTypes, RemoteInvariant, ResolverTypeOK
<1>5. taken' \in Nat /\ taken' + OnTheirWay' <= sent
    <2>1. Head(input) \in InputMessages /\ Tail(input) \in Seq(InputMessages)
        BY <1>1, HeadTailProperties
    <2>2. Len(Selected(input, UserMessages)) =
              Len(Selected(Tail(input), UserMessages))
              + (IF Head(input) \in UserMessages THEN 1 ELSE 0)
        BY <1>1, SelectedTailLength
    <2>3. Selected(Tail(input), UserMessages) \in Seq(InputMessages \cap UserMessages)
        BY <2>1, SelectedIn
    <2>4. OnTheirWay' = Len(Selected(Tail(input), UserMessages)) /\ OnTheirWay' \in Nat
        BY <1>1, <2>3 DEF OnTheirWay, UserMessages
    <2>5. OnTheirWay = OnTheirWay' + (IF Head(input) \in UserMessages THEN 1 ELSE 0)
        BY <2>2, <2>4 DEF OnTheirWay
    <2>6. Head(input).kind = "user" => Head(input) \in UserMessages
        BY <2>1 DEF UserMessages
    <2>7. taken \in Nat /\ sent \in Nat /\ taken + OnTheirWay <= sent
        BY RemoteAssumption DEF LinkTypes
    <2>8. CASE Head(input) \in UserMessages
        BY <1>2, <2>4, <2>5, <2>7, <2>8
    <2>9. CASE Head(input) \notin UserMessages
        BY <1>2, <2>4, <2>5, <2>6, <2>7, <2>9
    <2> QED
        BY <2>8, <2>9
<1> QED
    BY <1>1, <1>3, <1>4, <1>5 DEF LinkTypes, linkVars

LEMMA LinkTypesStep ==
    ASSUME RemoteInvariant, OutputTypes, LinkTypes, [RemoteNext]_remoteVars
    PROVE  LinkTypes'
<1>1. CASE TurnStep \/ DriverAnswers \/ UNCHANGED remoteVars
    <2>1. /\ UNCHANGED <<linkVars, main, sent, taken, answered, input>>
          /\ host' \in {host, "idle"}
        BY <1>1 DEF TurnStep, TurnRuns, DriverAnswers, PermissionRequested, PermissionDecided,
            TurnFinished, frameOfTurn, remoteVars, historyVars
    <2>2. OnTheirWay' = OnTheirWay
        BY <2>1 DEF OnTheirWay, UserMessages
    <2> QED
        BY <2>1, <2>2 DEF LinkTypes, linkVars
<1> QED
    BY <1>1, LinkTypesOfTheLink, LinkTypesOfTheHost DEF RemoteNext

RemoteTyping == RemoteInvariant /\ TurnTypes /\ OutputTypes /\ LinkTypes

LEMMA RemoteTypingInit == RemoteInit => RemoteTyping
<1> SUFFICES ASSUME RemoteInit PROVE RemoteTyping
    OBVIOUS
<1>1. RemoteInvariant
    BY RemoteInvariantInit
<1>2. TurnTypes
    <2>1. limit \in Limits /\ limit \in Nat /\ passes = 0
        BY TurnAssumption DEF RemoteInit, TurnInit
    <2>2. passes \in 0 .. limit
        BY <2>1
    <2> QED
        BY <2>1, <2>2 DEF RemoteInit, TurnInit, TurnTypes, TurnTypeOK
<1>3. OutputTypes
    BY EmptySeq DEF RemoteInit, OutputTypes
<1>4. OnTheirWay = 0
    BY SelectedEmpty DEF RemoteInit, OnTheirWay
<1>5. LinkTypes
    BY <1>4, RemoteAssumption DEF RemoteInit, LinkTypes
<1> QED
    BY <1>1, <1>2, <1>3, <1>5 DEF RemoteTyping

LEMMA RemoteTypingStep ==
    ASSUME RemoteTyping, [RemoteNext]_remoteVars
    PROVE  RemoteTyping'
<1>1. RemoteInvariant /\ TurnTypes /\ OutputTypes /\ LinkTypes
    BY DEF RemoteTyping
<1> QED
    BY <1>1, RemoteInvariantStep, TurnTypesStep, OutputTypesStep, LinkTypesStep
    DEF RemoteTyping

\* The standalone host is type correct; it takes no user message the client has not sent, and is
\* in a turn exactly when there is one.
THEOREM RemoteTypes == RemoteSpec => []RemoteTypeOK
<1>1. RemoteInit => RemoteTyping
    BY RemoteTypingInit
<1>2. RemoteTyping /\ [RemoteNext]_remoteVars => RemoteTyping'
    BY RemoteTypingStep
<1>3. RemoteTyping => RemoteTypeOK
    <2> SUFFICES ASSUME RemoteTyping PROVE RemoteTypeOK
        OBVIOUS
    <2>1. /\ TurnTypeOK /\ ResolverTypeOK /\ ChannelTypes /\ TurnIsOfTheHost /\ LinkTypes
          /\ emitted \in Seq(OutMessages) /\ executed \subseteq RequestIds
        BY DEF RemoteTyping, RemoteInvariant, TurnTypes, OutputTypes, RequestsOfTheTurn,
            ResolverTypeOK
    <2>2. taken \in 0 .. MaxMessages
        <3>1. input \in Seq(InputMessages)
            BY <2>1 DEF ChannelTypes
        <3>2. Selected(input, UserMessages) \in Seq(InputMessages \cap UserMessages)
            BY <3>1, SelectedIn
        <3>3. OnTheirWay \in Nat
            BY <3>2 DEF OnTheirWay
        <3> QED
            BY <2>1, <3>3, RemoteAssumption DEF LinkTypes
    <2> QED
        BY <2>1, <2>2 DEF RemoteTypeOK, ChannelTypes, TurnIsOfTheHost, LinkTypes
<1> QED
    BY <1>1, <1>2, <1>3, PTL DEF RemoteSpec

--------------------------------------------------------------------------------
(***************************************************************************)
(* Every user message is answered once.                                    *)
(***************************************************************************)

Replies == Len(Selected(emitted, [type : {"result", "error", "busy"}, id : 0 .. MaxRequests]))

LEMMA RepliesOfAMessage ==
    ASSUME OutputTypes, NEW m \in OutMessages, emitted' = Append(emitted, m)
    PROVE  Replies' = Replies + (IF m.type \in UserAnswers THEN 1 ELSE 0)
<1> DEFINE S == [type : {"result", "error", "busy"}, id : 0 .. MaxRequests]
<1>1. m \in S <=> m.type \in UserAnswers
    BY DEF OutMessages, UserAnswers
<1>2. Replies = Len(Selected(emitted, S)) /\ Replies' = Len(Selected(emitted', S))
    BY DEF Replies
<1> HIDE DEF S
<1>3. emitted \in Seq(OutMessages)
    BY DEF OutputTypes
<1>4. Len(Selected(Append(emitted, m), S)) =
          Len(Selected(emitted, S)) + (IF m \in S THEN 1 ELSE 0)
    BY <1>3, SelectedAppendLength
<1> QED
    BY <1>1, <1>2, <1>4

LEMMA RepliesStep ==
    ASSUME EveryRemoteUserIsAnswered, RemoteTyping, [RemoteNext]_remoteVars
    PROVE  EveryRemoteUserIsAnswered'
<1>1. RemoteInvariant /\ OutputTypes /\ host \in {"idle", "turn", "returned"} /\ taken \in Nat
    BY DEF RemoteTyping, LinkTypes
<1>2. Replies \in Nat
    <2>1. emitted \in Seq(OutMessages)
        BY <1>1 DEF OutputTypes
    <2> QED
        BY <2>1, SelectedIn DEF Replies
<1>3. IF host = "returned" THEN taken - Replies \in {0, 1}
      ELSE taken = Replies + (IF host = "turn" THEN 1 ELSE 0)
    BY DEF EveryRemoteUserIsAnswered, Replies
<1>4. SUFFICES IF host' = "returned" THEN taken' - Replies' \in {0, 1}
               ELSE taken' = Replies' + (IF host' = "turn" THEN 1 ELSE 0)
    BY DEF EveryRemoteUserIsAnswered, Replies
<1>5. (WritesNothing \/ WritesOther \/ emitted' = emitted) => Replies' = Replies
    <2>1. emitted' = emitted => Replies' = Replies
        BY DEF Replies
    <2>2. ASSUME WritesOther PROVE Replies' = Replies
        <3>1. PICK m \in MeantMessages : m.type \notin UserAnswers /\ Writes(m)
            BY <2>2 DEF WritesOther
        <3>2. Replies' = Replies + 0
            BY <1>1, <3>1, RepliesOfAMessage DEF Writes, MeantMessages
        <3> QED
            BY <1>2, <3>2
    <2> QED
        BY <2>1, <2>2 DEF WritesNothing
<1>6. WritesAnswer => Replies' = Replies + 1
    <2> SUFFICES ASSUME WritesAnswer PROVE Replies' = Replies + 1
        OBVIOUS
    <2>1. PICK type \in UserAnswers : Writes(Out(type, 0))
        BY DEF WritesAnswer
    <2>2. Out(type, 0) \in OutMessages /\ Out(type, 0).type = type
        BY <2>1, ZeroIsAnId DEF UserAnswers, Out, OutMessages, OutTypes
    <2> QED
        BY <1>1, <2>1, <2>2, RepliesOfAMessage DEF Writes
<1>7. CASE ForwardStep \/ OtherMessageStep \/ TurnBeginStep
    <2>1. Replies' = Replies
        BY <1>5, <1>7 DEF ForwardStep, OtherMessageStep, TurnBeginStep
    <2> QED
        BY <1>1, <1>2, <1>3, <1>7, <2>1 DEF ForwardStep, OtherMessageStep, TurnBeginStep
<1>8. CASE TurnAnswerStep \/ UserAnswerStep
    <2>1. Replies' = Replies + 1
        BY <1>6, <1>8 DEF TurnAnswerStep, UserAnswerStep
    <2> QED
        BY <1>1, <1>2, <1>3, <1>8, <2>1 DEF TurnAnswerStep, UserAnswerStep
<1>9. CASE ReturnStep
    <2>1. Replies' = Replies
        BY <1>5, <1>9 DEF ReturnStep
    <2> QED
        BY <1>1, <1>2, <1>3, <1>9, <2>1 DEF ReturnStep
<1> QED
    BY <1>1, <1>7, <1>8, <1>9, EmissionOfAStep

\* Every user message of a remote client is answered by exactly one message, the one of the turn
\* that runs or was dropped excepted, however often the transport is lost.
THEOREM RemoteUsersAreAnswered == RemoteSpec => []EveryRemoteUserIsAnswered
<1>1. RemoteInit => RemoteTyping /\ EveryRemoteUserIsAnswered
    BY RemoteTypingInit, SelectedEmpty DEF RemoteInit, EveryRemoteUserIsAnswered
<1>2. RemoteTyping /\ EveryRemoteUserIsAnswered /\ [RemoteNext]_remoteVars
      => RemoteTyping' /\ EveryRemoteUserIsAnswered'
    BY RemoteTypingStep, RepliesStep
<1> QED
    BY <1>1, <1>2, PTL DEF RemoteSpec
================================================================================
