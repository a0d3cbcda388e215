--------------------------- MODULE PermissionResolver ---------------------------
(***************************************************************************)
(* The permission resolver of a host that asks a remote client: a counter  *)
(* of request ids, the map of pending requests, and one oneshot channel    *)
(* per request on which the waiting tool call receives its decision.       *)
(* StructuredPermissionResolver (headless), ChannelPermissionResolver      *)
(* (standalone remote control) and BridgePermissionResolver (REPL) are     *)
(* three copies of it; they differ in how they send to the client.         *)
(***************************************************************************)
EXTENDS Integers

CONSTANT MaxRequests    \* bound: permission requests of a session

ASSUME ResolverAssumption == MaxRequests \in Nat

VARIABLES
    nextRequestId,      \* "perm-<n>" of the next request
    pending,            \* the ids in the map of senders
    oneshot,            \* what became of the channel of each request
    received            \* the ids whose decision has reached the tool call

resolverVars == <<nextRequestId, pending, oneshot, received>>

RequestIds == 1 .. MaxRequests

\* unused: not asked yet; open: no decision sent; failed: the request could not
\* be sent and resolve returned an error.
OneshotStates == {"unused", "open", "Allow", "Deny", "failed"}

ResolverInit ==
    /\ nextRequestId = 1
    /\ pending = {}
    /\ oneshot = [id \in RequestIds |-> "unused"]
    /\ received = {}

\* The request the engine is waiting for, if it is waiting.
CurrentRequest == nextRequestId - 1

\* Mutant: the request is sent but never entered into the map.
OpenRequestUnregistered ==
    /\ nextRequestId <= MaxRequests
    /\ nextRequestId' = nextRequestId + 1
    /\ oneshot' = [oneshot EXCEPT ![nextRequestId] = "open"]
    /\ UNCHANGED <<pending, received>>

\* resolve up to its await: take an id, enter the map, send the request.
OpenRequest ==
    /\ nextRequestId <= MaxRequests
    /\ nextRequestId' = nextRequestId + 1
    /\ pending' = pending \cup {nextRequestId}
    /\ oneshot' = [oneshot EXCEPT ![nextRequestId] = "open"]
    /\ UNCHANGED received

\* Sending the request failed: the entry is removed again.
OpenRequestFails ==
    /\ nextRequestId <= MaxRequests
    /\ nextRequestId' = nextRequestId + 1
    /\ oneshot' = [oneshot EXCEPT ![nextRequestId] = "failed"]
    /\ UNCHANGED <<pending, received>>

\* Mutant: a response to any request ever made is taken.
ApplyLateResponse(id, behavior) ==
    /\ id < nextRequestId
    /\ behavior # "Ask"
    /\ pending' = pending \ {id}
    /\ oneshot' = [oneshot EXCEPT ![id] = behavior]
    /\ UNCHANGED <<nextRequestId, received>>

\* Mutant: a response with behavior ask is taken like the others.
ApplyAnyBehavior(id, behavior) ==
    /\ id \in pending
    /\ pending' = pending \ {id}
    /\ oneshot' = [oneshot EXCEPT ![id] = behavior]
    /\ UNCHANGED <<nextRequestId, received>>

\* apply_response for a request that is pending; otherwise it returns false.
ApplyResponse(id, behavior) ==
    /\ id \in pending
    /\ behavior # "Ask"
    /\ pending' = pending \ {id}
    /\ oneshot' = [oneshot EXCEPT ![id] = behavior]
    /\ UNCHANGED <<nextRequestId, received>>

\* cancel_all: every pending request is denied.
CancelAll ==
    /\ pending' = {}
    /\ oneshot' = [id \in RequestIds |-> IF id \in pending THEN "Deny" ELSE oneshot[id]]
    /\ UNCHANGED <<nextRequestId, received>>

\* Mutant: the decision is booked for the next request.
ReceiveDecisionForNext(behavior) ==
    /\ CurrentRequest \in RequestIds
    /\ oneshot[CurrentRequest] = behavior
    /\ received' = received \cup {nextRequestId}
    /\ UNCHANGED <<nextRequestId, pending, oneshot>>

\* The await in resolve returns the decision that was sent.
ReceiveDecision(behavior) ==
    /\ CurrentRequest \in RequestIds \ received
    /\ oneshot[CurrentRequest] = behavior
    /\ received' = received \cup {CurrentRequest}
    /\ UNCHANGED <<nextRequestId, pending, oneshot>>

ResolverTypeOK ==
    /\ nextRequestId \in 1 .. MaxRequests + 1
    /\ pending \subseteq RequestIds
    /\ oneshot \in [RequestIds -> OneshotStates]
    /\ received \subseteq RequestIds

================================================================================
