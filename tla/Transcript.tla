------------------------------- MODULE Transcript -------------------------------
(***************************************************************************)
(* The message history of one conversation and its deterministic           *)
(* compaction.  The content of a message is abstracted to where it comes   *)
(* from: the turn and model pass that produced it, and the tool call it    *)
(* belongs to (NoCall for the others).                                     *)
(***************************************************************************)
EXTENDS Integers, Sequences

CONSTANTS
    CallIds,    \* the identifiers a model driver gives to its tool calls
    NoCall      \* the call field of a message that belongs to no tool call

ASSUME TranscriptAssumption == NoCall \notin CallIds

MessageKinds ==
    {"User", "Assistant", "ToolUse", "ToolResult", "System", "CompactSummary"}

Message ==
    [kind : MessageKinds, turn : Nat, pass : Nat, call : CallIds \cup {NoCall}]

MessageOf(kind, turn, pass, call) ==
    [kind |-> kind, turn |-> turn, pass |-> pass, call |-> call]

PlainMessage(kind, turn, pass) == MessageOf(kind, turn, pass, NoCall)

\* "No message": the value of an Option that is None.
NoMessage == [kind |-> "None", turn |-> 0, pass |-> 0, call |-> NoCall]

\* CompactionPolicy: Disabled, or MessageCount with its two limits.
CompactionPolicy == [enabled : BOOLEAN, trigger : Nat, keep : Nat]

\* Mutant: the summary does not count as a message.
ReplacedCountShort(messages, policy) ==
    IF ~ policy.enabled \/ Len(messages) <= policy.trigger \/ policy.keep >= Len(messages)
    THEN 0
    ELSE Len(messages) - policy.keep - 1

\* How many of the oldest messages the summary replaces.
ReplacedCount(messages, policy) ==
    IF ~ policy.enabled \/ Len(messages) <= policy.trigger \/ policy.keep >= Len(messages)
    THEN 0
    ELSE Len(messages) - policy.keep

\* Mutant: the summary goes behind the messages kept.
CompactedBehind(messages, policy, summary) ==
    LET replaced == ReplacedCount(messages, policy)
    IN  IF replaced = 0
        THEN messages
        ELSE SubSeq(messages, replaced + 1, Len(messages)) \o <<summary>>

\* maybe_compact_transcript: one summary in front of the messages kept.
Compacted(messages, policy, summary) ==
    LET replaced == ReplacedCount(messages, policy)
    IN  IF replaced = 0
        THEN messages
        ELSE <<summary>> \o SubSeq(messages, replaced + 1, Len(messages))

\* append_message_and_maybe_compact, and whether it emitted CompactionApplied.
Appended(messages, message, policy) ==
    Compacted(Append(messages, message), policy,
              PlainMessage("CompactSummary", message.turn, message.pass))

AppendCompacts(messages, message, policy) ==
    ReplacedCount(Append(messages, message), policy) > 0

================================================================================
