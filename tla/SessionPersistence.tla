--------------------------- MODULE SessionPersistence ---------------------------
(***************************************************************************)
(* Sessions on disk: JsonlSessionStore, the bootstrap modes of run.rs, the *)
(* saving of a turn around submit_with_driver_and_resolver, the worktree   *)
(* tools, and the /resume command of the REPL.                             *)
(*                                                                         *)
(* One process runs at a time.  Any write may fail, leaving nothing, part  *)
(* of a line, or a line without its newline (writeln! on a File writes the *)
(* newline by a second call); the process may end at any moment, and only  *)
(* the files and the git worktrees survive.  The prompt of a turn and a    *)
(* message of the transcript are the number of the turn and a place in it. *)
(***************************************************************************)
EXTENDS Naturals, Selection, SequencesExt, FiniteSets

CONSTANTS
    Main,               \* the canonical project root, where every process is launched
    Worktrees,          \* the directories a worktree may be created in
    None,               \* no worktree, no path
    MaxSessions,        \* bound: session ids generated
    MaxTurns,           \* bound: prompts submitted
    MaxTurnMessages,    \* bound: messages of a turn
    MaxToolCalls,       \* bound: calls of the worktree tools
    MaxFaults,          \* bound: failing writes
    MaxStarts           \* bound: processes started

Sessions == 1 .. MaxSessions
Roots == Worktrees \cup {Main}
Paths == [root : Roots, session : Sessions]

ASSUME SessionAssumption ==
    /\ Main \notin Worktrees
    /\ None \notin Worktrees \cup {Main} \cup Paths
    /\ MaxSessions \in Nat \ {0}
    /\ {MaxTurns, MaxTurnMessages, MaxToolCalls, MaxFaults, MaxStarts} \subseteq Nat

\* ToolUse, ToolResult and CompactSummary play the same part here.
Message == [type : {"message"}, kind : {"User", "Assistant", "Tool"},
            turn : 1 .. MaxTurns, index : 1 .. MaxTurnMessages]
Header == [type : {"session_header"}, session : Sessions, root : Roots]
LastPrompt == [type : {"last_prompt"}, turn : 1 .. MaxTurns]
WorktreeState == [type : {"worktree_state"}, state : Worktrees \cup {None}]
Invalid == [type |-> "invalid"]     \* a line that does not parse
Entries == Message \cup Header \cup LastPrompt \cup WorktreeState \cup {Invalid}

VARIABLES
    existing,           \* the transcript files that exist
    lines,              \* their lines
    unterminated,       \* the files whose last line has no newline
    recency,            \* the files by modification time, latest first
    worktrees,          \* the directories: none, there, removed (its branch is left)
    proc,               \* down, idle, turn, tool (before save_worktree_state), saving
    runtime,            \* SessionRuntime
    transcript,         \* of the engine
    lenBefore,          \* transcript_len_before, then the length of the transcript that is saved
    sessions, turns, toolCalls, starts, faults,     \* counters
    faithful            \* history: this process knows its file and no write of it failed

diskVars == <<existing, lines, unterminated, recency>>
memoryVars == <<runtime, transcript, lenBefore>>
counters == <<sessions, turns, toolCalls, starts>>
sessionVars == <<diskVars, worktrees, proc, memoryVars, counters, faults, faithful>>

PathOf(root, session) == [root |-> root, session |-> session]

Runtime == [session : Sessions, active : Roots, worktree : Worktrees \cup {None},
            transcriptPath : Paths \cup {None}]
RuntimeOf(session, active, worktree, path) ==
    [session |-> session, active |-> active, worktree |-> worktree, transcriptPath |-> path]

SessionInit ==
    /\ existing = {}
    /\ lines = [p \in Paths |-> <<>>]
    /\ unterminated = {}
    /\ recency = <<>>
    /\ worktrees = [w \in Worktrees |-> "none"]
    /\ proc = "down"
    /\ runtime = RuntimeOf(1, Main, None, None)
    /\ transcript = <<>>
    /\ lenBefore = 0
    /\ sessions = 0 /\ turns = 0 /\ toolCalls = 0 /\ starts = 0 /\ faults = 0
    /\ faithful = FALSE

--------------------------------------------------------------------------------
(***************************************************************************)
(* Reading a file: load_entries, load_session_file, detect_interruption.   *)
(***************************************************************************)

OfType(p, S) == Selected(lines[p], S)
LastOf(p, S, default) == IF OfType(p, S) = <<>> THEN default ELSE Last(OfType(p, S))

Loadable(p) == OfType(p, {Invalid}) = <<>> /\ OfType(p, Header) # <<>>

SavedHeader(p) == LastOf(p, Header, None)
Messages(p) == OfType(p, Message)
SavedPrompt(p) == LastOf(p, LastPrompt, [turn |-> 0]).turn         \* 0: no prompt was saved
SavedWorktree(p) == LastOf(p, WorktreeState, [state |-> None]).state
SavedRoot(p) == IF SavedWorktree(p) = None THEN SavedHeader(p).root ELSE SavedWorktree(p)

\* Mutant: a prompt without any message after it counts as answered.
InterruptedWithMessagesOnly(p) ==
    /\ SavedPrompt(p) # 0
    /\ LastOf(p, Message, [kind |-> "Tool"]).kind = "User"

Interrupted(p) ==
    /\ SavedPrompt(p) # 0
    /\ LastOf(p, Message, [kind |-> "User"]).kind = "User"

\* session_files_in_scope: the directory of the active root and those of the repository's worktrees.
InScope(active) ==
    {p \in existing : p.root \in {active, Main} \/ (p.root \in Worktrees /\ worktrees[p.root] = "there")}

\* list_recent_sessions fails as a whole when one file does not load.
ListingWorks(active) == \A p \in InScope(active) : Loadable(p)

\* resolve_resume for Continue, Exact, Search and Path; several matches are an error.
ContinueFinds(active, p) ==
    /\ p \in InScope(active)
    /\ ListingWorks(active)
    /\ p = Selected(recency, InScope(active))[1]
OnlyMatch(matches, p) == matches = {p}
ExactFinds(active, p) ==
    /\ OnlyMatch({q \in InScope(active) : q.session = p.session}, p)
    /\ Loadable(p)
SearchFinds(active, p) ==
    /\ ListingWorks(active)
    /\ OnlyMatch({q \in InScope(active) : SavedPrompt(q) # 0 /\ SavedPrompt(q) = SavedPrompt(p)}, p)
PathFinds(p) == p \in existing /\ Loadable(p)

\* resolve_resume_target: a path, or an exact id and else a search.
ResumeFinds(active, p) == PathFinds(p) \/ ExactFinds(active, p) \/ SearchFinds(active, p)

--------------------------------------------------------------------------------
(***************************************************************************)
(* Writing: append_entry.                                                  *)
(***************************************************************************)

TranscriptPath ==
    IF runtime.transcriptPath = None
    THEN PathOf(runtime.active, runtime.session) ELSE runtime.transcriptPath

HeaderOf(r) == [type |-> "session_header", session |-> r.session, root |-> r.active]

Touched(p) == <<p>> \o Selected(recency, Paths \ {p})

\* The lines after a write to p: a missing file gets a header first, and what follows a line
\* without a newline becomes part of that line.
LinesWith(p, entry) ==
    IF p \in unterminated THEN Append(Front(lines[p]), Invalid)
    ELSE Append(IF p \in existing THEN lines[p] ELSE <<HeaderOf(runtime)>>, entry)

WriteTo(p, content) ==
    /\ existing' = existing \cup {p}
    /\ lines' = [lines EXCEPT ![p] = content]
    /\ recency' = Touched(p)

EntryWritten(entry) ==
    /\ WriteTo(TranscriptPath, LinesWith(TranscriptPath, entry))
    /\ unterminated' = unterminated \ {TranscriptPath}
    /\ runtime' = [runtime EXCEPT !.transcriptPath = TranscriptPath]
    /\ UNCHANGED <<faults, faithful>>

\* The write fails before it changed the file, after it created the file without or with its
\* header, or with part of the line (or all of it but the newline) in the file.
EntryFails(entry) ==
    /\ faults < MaxFaults
    /\ faults' = faults + 1
    /\ faithful' = FALSE
    /\ runtime' = [runtime EXCEPT !.transcriptPath = TranscriptPath]
    /\ \/ UNCHANGED diskVars
       \/ /\ TranscriptPath \notin existing
          /\ \E content \in {<<>>, <<HeaderOf(runtime)>>} : WriteTo(TranscriptPath, content)
          /\ UNCHANGED unterminated
       \/ /\ \E part \in {Invalid, entry} :
                WriteTo(TranscriptPath, LinesWith(TranscriptPath, part))
          /\ unterminated' = unterminated \cup {TranscriptPath}

--------------------------------------------------------------------------------
(***************************************************************************)
(* Starting a process: bootstrap_context_from_with_dependencies and        *)
(* BootstrappedSession::new.  A restore that finds nothing changes         *)
(* nothing.                                                                *)
(***************************************************************************)

MayStart ==
    /\ proc = "down"
    /\ starts < MaxStarts
    /\ starts' = starts + 1

FreshRuntime == RuntimeOf(sessions + 1, Main, None, PathOf(Main, sessions + 1))

StartFresh ==
    /\ MayStart
    /\ sessions < MaxSessions
    /\ sessions' = sessions + 1
    /\ runtime' = FreshRuntime
    /\ proc' = "idle"
    /\ transcript' = <<>>
    /\ faithful' = TRUE
    /\ WriteTo(FreshRuntime.transcriptPath, <<HeaderOf(FreshRuntime)>>)
    /\ UNCHANGED <<unterminated, worktrees, lenBefore, turns, toolCalls, faults>>

\* initialize_session created the file and could not write the header: the process exits.
StartFreshFails ==
    /\ MayStart
    /\ sessions < MaxSessions
    /\ faults < MaxFaults
    /\ sessions' = sessions + 1
    /\ faults' = faults + 1
    /\ WriteTo(FreshRuntime.transcriptPath, <<>>)
    /\ UNCHANGED <<unterminated, worktrees, proc, memoryVars, turns, toolCalls, faithful>>

\* Mutant: the runtime is restored and the engine starts with an empty transcript.
RestoreRuntimeOnly(p, path) ==
    /\ runtime' = RuntimeOf(SavedHeader(p).session, SavedRoot(p), SavedWorktree(p), path)
    /\ transcript' = <<>>
    /\ UNCHANGED <<diskVars, worktrees, lenBefore, sessions, turns, toolCalls, faults>>

\* The runtime and the engine of a restored session.
Restore(p, path) ==
    /\ runtime' = RuntimeOf(SavedHeader(p).session, SavedRoot(p), SavedWorktree(p), path)
    /\ transcript' = Messages(p)
    /\ UNCHANGED <<diskVars, worktrees, lenBefore, sessions, turns, toolCalls, faults>>

\* build_restored_runtime
StartRestored(p) ==
    /\ MayStart
    /\ Restore(p, p)
    /\ proc' = "idle"
    /\ faithful' = (p \notin unterminated)

StartContinue == \E p \in existing : ContinueFinds(Main, p) /\ StartRestored(p)
StartResume == \E p \in existing : ResumeFinds(Main, p) /\ StartRestored(p)

\* /resume in the REPL: finalize_worker_result puts a new runtime and a new engine in place.
\* restore_runtime keeps no transcript path: the next write computes it from the active root.
ReplResume ==
    /\ proc = "idle"
    /\ \E p \in existing :
        /\ ResumeFinds(runtime.active, p)
        /\ Restore(p, None)
        /\ faithful' = (p \notin unterminated /\ p.root = SavedRoot(p))
    /\ UNCHANGED <<proc, starts>>

\* The process exits or is killed; what it had in memory is lost.
ProcessEnds ==
    /\ proc # "down"
    /\ proc' = "down"
    /\ transcript' = <<>>
    /\ UNCHANGED <<diskVars, worktrees, runtime, lenBefore, counters, faults, faithful>>

--------------------------------------------------------------------------------
(***************************************************************************)
(* A turn: submit_with_driver_and_resolver.                                *)
(***************************************************************************)

Prompt == [type |-> "last_prompt", turn |-> turns + 1]

\* Mutant: the length of the transcript is not read again at the start of a turn.
SubmitPromptKeepsLength ==
    /\ proc = "idle"
    /\ turns < MaxTurns
    /\ turns' = turns + 1
    /\ EntryWritten(Prompt)
    /\ proc' = "turn"
    /\ UNCHANGED <<worktrees, transcript, lenBefore, sessions, toolCalls, starts>>

SubmitPrompt ==
    /\ proc = "idle"
    /\ turns < MaxTurns
    /\ turns' = turns + 1
    /\ lenBefore' = Len(transcript)
    /\ EntryWritten(Prompt)
    /\ proc' = "turn"
    /\ UNCHANGED <<worktrees, transcript, sessions, toolCalls, starts>>

PromptNotSaved ==
    /\ proc = "idle"
    /\ turns < MaxTurns
    /\ turns' = turns + 1
    /\ lenBefore' = Len(transcript)
    /\ EntryFails(Prompt)
    /\ UNCHANGED <<proc, worktrees, transcript, sessions, toolCalls, starts>>

\* The engine appends the prompt, and then what the model and the tools say.
EngineAppends ==
    LET index == Len(transcript) - lenBefore + 1 IN
    /\ proc = "turn"
    /\ index <= MaxTurnMessages
    /\ \E kind \in IF index = 1 THEN {"User"} ELSE {"Assistant", "Tool"} :
        transcript' = Append(transcript, [type |-> "message", kind |-> kind, turn |-> turns,
                                          index |-> index])
    /\ UNCHANGED <<diskVars, worktrees, proc, runtime, lenBefore, counters, faults, faithful>>

ToolCall ==
    /\ proc = "turn"
    /\ Len(transcript) > lenBefore
    /\ toolCalls < MaxToolCalls
    /\ toolCalls' = toolCalls + 1
    /\ proc' = "tool"
    /\ UNCHANGED <<diskVars, transcript, lenBefore, sessions, turns, starts, faults, faithful>>

\* git refuses a directory or a branch that exists, and removing a worktree leaves its branch.
CreateWorktree(w) ==
    /\ worktrees[w] = "none"
    /\ worktrees' = [worktrees EXCEPT ![w] = "there"]
RemoveWorktree(w) ==
    /\ worktrees[w] = "there"
    /\ worktrees' = [worktrees EXCEPT ![w] = "removed"]

\* An active worktree is not looked at.
EnterWorktree ==
    /\ ToolCall
    /\ \E w \in Worktrees :
        /\ CreateWorktree(w)
        /\ runtime' = [runtime EXCEPT !.active = w, !.worktree = w]

\* Keep, or Remove where git agrees; without an active worktree only the state is saved.
ExitWorktree ==
    /\ ToolCall
    /\ runtime' = IF runtime.worktree = None THEN runtime
                  ELSE [runtime EXCEPT !.active = Main, !.worktree = None]
    /\ \/ UNCHANGED worktrees
       \/ runtime.worktree # None /\ RemoveWorktree(runtime.worktree)

WorktreeEntry == [type |-> "worktree_state", state |-> runtime.worktree]

SaveWorktreeState ==
    /\ proc = "tool"
    /\ EntryWritten(WorktreeEntry)
    /\ proc' = "turn"
    /\ UNCHANGED <<worktrees, transcript, lenBefore, counters>>

\* The tool fails, and with it the turn.
WorktreeStateNotSaved ==
    /\ proc = "tool"
    /\ EntryFails(WorktreeEntry)
    /\ proc' = "saving"
    /\ UNCHANGED <<worktrees, transcript, lenBefore, counters>>

\* The turn ends with a result or an error.
TurnEnds ==
    /\ proc = "turn"
    /\ proc' = "saving"
    /\ UNCHANGED <<diskVars, worktrees, memoryVars, counters, faults, faithful>>

\* persist_transcript_delta, message by message.
SaveMessage ==
    /\ proc = "saving"
    /\ lenBefore < Len(transcript)
    /\ EntryWritten(transcript[lenBefore + 1])
    /\ lenBefore' = lenBefore + 1
    /\ UNCHANGED <<proc, worktrees, transcript, counters>>

\* Mutant: a message that cannot be saved is skipped.
MessageSkipped ==
    /\ proc = "saving"
    /\ lenBefore < Len(transcript)
    /\ EntryFails(transcript[lenBefore + 1])
    /\ lenBefore' = lenBefore + 1
    /\ UNCHANGED <<proc, worktrees, transcript, counters>>

MessageNotSaved ==
    /\ proc = "saving"
    /\ lenBefore < Len(transcript)
    /\ EntryFails(transcript[lenBefore + 1])
    /\ proc' = "idle"
    /\ UNCHANGED <<worktrees, transcript, lenBefore, counters>>

TurnSaved ==
    /\ proc = "saving"
    /\ lenBefore = Len(transcript)
    /\ proc' = "idle"
    /\ UNCHANGED <<diskVars, worktrees, memoryVars, counters, faults, faithful>>

SessionNext ==
    \/ StartFresh \/ StartFreshFails \/ StartContinue \/ StartResume \/ ReplResume
    \/ ProcessEnds
    \/ SubmitPrompt \/ PromptNotSaved
    \/ EngineAppends \/ EnterWorktree \/ ExitWorktree
    \/ SaveWorktreeState \/ WorktreeStateNotSaved
    \/ TurnEnds \/ SaveMessage \/ MessageNotSaved \/ TurnSaved

SessionSpec == SessionInit /\ [][SessionNext]_sessionVars

--------------------------------------------------------------------------------
(***************************************************************************)
(* Properties.                                                             *)
(***************************************************************************)

\* Type invariant.
SessionTypeOK ==
    /\ existing \subseteq Paths
    /\ lines \in [Paths -> Seq(Entries)]
    /\ unterminated \subseteq existing
    /\ recency \in Seq(existing) /\ IsInjective(recency) /\ ToSet(recency) = existing
    /\ worktrees \in [Worktrees -> {"none", "there", "removed"}]
    /\ proc \in {"down", "idle", "turn", "tool", "saving"}
    /\ runtime \in Runtime
    /\ transcript \in Seq(Message)
    /\ lenBefore \in Nat
    /\ proc \in {"turn", "tool", "saving"} => lenBefore <= Len(transcript)
    /\ sessions \in 0 .. MaxSessions /\ turns \in 0 .. MaxTurns
    /\ toolCalls \in 0 .. MaxToolCalls /\ starts \in 0 .. MaxStarts /\ faults \in 0 .. MaxFaults
    /\ faithful \in BOOLEAN

\* What a restore gets is, for every turn of the session, the beginning of what the engine had: in
\* order, nothing twice, no gap inside a turn, across failed writes, crashes, restarts and resumes
\* (persist_transcript_delta stops at the first failure, and skips what a restore loaded).
FilesHoldBeginningsOfTurns ==
    \A p \in existing : Loadable(p) => \A i \in 1 .. Len(Messages(p)) :
        LET m == Messages(p)[i] IN
        IF i = 1 \/ m.index = 1
        THEN m.index = 1 /\ (i > 1 => Messages(p)[i - 1].turn < m.turn)
        ELSE Messages(p)[i - 1].turn = m.turn /\ Messages(p)[i - 1].index = m.index - 1

\* Between turns, a process that knows its file and had no failing write could be killed and its
\* session restored from that file as it is: the same messages, root and worktree.  Only a file that
\* was begun in a worktree (its header names it) leads back there after the session left it for Main.
RestoreIsFaithful ==
    proc = "idle" /\ faithful =>
        /\ Loadable(TranscriptPath)
        /\ Messages(TranscriptPath) = transcript
        /\ SavedHeader(TranscriptPath).session = runtime.session
        /\ SavedWorktree(TranscriptPath) = runtime.worktree
        /\ \/ SavedRoot(TranscriptPath) = runtime.active
           \/ runtime.active = Main /\ SavedHeader(TranscriptPath).root # Main

\* A session has one transcript file, wherever its worktrees are.
OneTranscriptPerSession == \A p, q \in existing : p.session = q.session => p = q

\* A restored session is reported as interrupted only if the last prompt got no answer into the
\* file, and always if its file holds a prompt and nothing else (detect_interruption).
InterruptionIsReal ==
    \A p \in existing : Loadable(p) =>
        /\ Interrupted(p) =>
             \A i \in 1 .. Len(Messages(p)) :
                ~ (Messages(p)[i].turn = SavedPrompt(p) /\ Messages(p)[i].kind = "Assistant")
        /\ SavedPrompt(p) # 0 /\ Messages(p) = <<>> => Interrupted(p)
=============================================================================
