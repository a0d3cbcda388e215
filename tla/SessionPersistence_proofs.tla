----------------------- MODULE SessionPersistence_proofs -----------------------
(***************************************************************************)
(* Proofs about SessionPersistence, for any worktrees and any number of    *)
(* sessions, turns, messages, calls, failing writes and processes.         *)
(***************************************************************************)
EXTENDS SessionPersistence, Selection_proofs

(***************************************************************************)
(* The inductive invariant.                                                *)
(***************************************************************************)

\* What loading says of some lines, wherever they are.
Loads(c) == Selected(c, {Invalid}) = <<>> /\ Selected(c, Header) # <<>>
LastIn(c, S, default) == IF Selected(c, S) = <<>> THEN default ELSE Last(Selected(c, S))
PromptIn(c) == LastIn(c, LastPrompt, [turn |-> 0]).turn
WorktreeIn(c) == LastIn(c, WorktreeState, [state |-> None]).state

\* One message comes before another: of an earlier turn, or at an earlier place of the same one.
Precedes(m, n) == m.turn < n.turn \/ (m.turn = n.turn /\ m.index < n.index)

\* One message is next to another: it begins a turn or continues it.
Follows(m, n) ==
    IF n.index = 1 THEN m.turn < n.turn ELSE m.turn = n.turn /\ m.index = n.index - 1

\* Messages are in order: each turn has a beginning and no gap, and begins with its prompt.
InOrder(ms) ==
    /\ Len(ms) > 0 => ms[1].index = 1
    /\ \A i \in 1 .. Len(ms) : ms[i].kind = "User" <=> ms[i].index = 1
    /\ \A i \in 2 .. Len(ms) : Follows(ms[i - 1], ms[i])
    /\ \A i, j \in 1 .. Len(ms) : i < j => Precedes(ms[i], ms[j])

TurnsUpTo(ms, n) == \A i \in 1 .. Len(ms) : ms[i].turn <= n
TurnsBelow(ms, n) == \A i \in 1 .. Len(ms) : ms[i].turn < n

\* The lines of a file of a session, after n turns: its headers name the session, and if it loads,
\* its messages are in order and not of a later turn than its last prompt.
FileInOrder(c, session, n) ==
    /\ \A i \in 1 .. Len(Selected(c, Header)) : Selected(c, Header)[i].session = session
    /\ Loads(c) => /\ InOrder(Selected(c, Message))
                   /\ TurnsUpTo(Selected(c, Message), PromptIn(c))
                   /\ PromptIn(c) <= n

FilesInOrder ==
    \A p \in existing : p.session <= sessions /\ FileInOrder(lines[p], p.session, turns)

Running == proc # "down"
InTurn == proc \in {"turn", "tool", "saving"}

\* A process works on a session that was begun, and its transcript is in order.
SessionIsKnown ==
    Running => /\ runtime.session <= sessions
               /\ runtime.transcriptPath # None => runtime.transcriptPath.session = runtime.session
               /\ runtime.worktree # None => runtime.active = runtime.worktree
               /\ InOrder(transcript) /\ TurnsUpTo(transcript, turns)

\* The file a process writes to holds these lines.
OwnLines == lines[TranscriptPath]

\* During a turn its prompt is the last one in its file, and the transcript ends with its messages.
TurnIsInItsFile ==
    InTurn => /\ turns > 0
              /\ runtime.transcriptPath # None /\ TranscriptPath \in existing
              /\ Loads(OwnLines) => PromptIn(OwnLines) = turns
              /\ \A i \in lenBefore + 1 .. Len(transcript) : transcript[i].turn = turns

\* Nothing of the turn is saved ...
NothingSaved ==
    /\ \A i \in 1 .. lenBefore : transcript[i].turn < turns
    /\ Loads(OwnLines) => TurnsBelow(Selected(OwnLines, Message), turns)

\* ... or what is saved of it ends with the message before the next one to save.
SavedUpToHere ==
    /\ lenBefore > 0 /\ transcript[lenBefore].turn = turns
    /\ Loads(OwnLines) =>
         /\ Selected(OwnLines, Message) # <<>>
         /\ Last(Selected(OwnLines, Message)) = transcript[lenBefore]

SavingIsInStep ==
    /\ proc \in {"turn", "tool"} =>
         /\ NothingSaved
         /\ \A i \in lenBefore + 1 .. Len(transcript) : transcript[i].index = i - lenBefore
    /\ proc = "saving" => NothingSaved \/ SavedUpToHere

\* A process that knows its file and had no failing write has in it what it has in memory, up to
\* what the turn still saves.
FileIsTheSession ==
    Running /\ faithful =>
        /\ TranscriptPath \in existing \ unterminated
        /\ Loads(OwnLines)
        /\ Selected(OwnLines, Message) =
               IF proc = "idle" THEN transcript ELSE SubSeq(transcript, 1, lenBefore)
        /\ proc # "tool" => WorktreeIn(OwnLines) = runtime.worktree
        /\ runtime.worktree = None =>
               runtime.active = Main \/ runtime.active = LastIn(OwnLines, Header, None).root

\* The files are of their types, and recency lists each of them once.
DiskTypes ==
    /\ existing \subseteq Paths
    /\ lines \in [Paths -> Seq(Entries)]
    /\ unterminated \subseteq existing
    /\ recency \in Seq(existing) /\ IsInjective(recency) /\ ToSet(recency) = existing

\* What is not on the disk is of its type.
MemoryTypes ==
    /\ worktrees \in [Worktrees -> {"none", "there", "removed"}]
    /\ proc \in {"down", "idle", "turn", "tool", "saving"}
    /\ runtime \in Runtime
    /\ transcript \in Seq(Message)
    /\ lenBefore \in Nat
    /\ InTurn => lenBefore <= Len(transcript)
    /\ sessions \in 0 .. MaxSessions /\ turns \in 0 .. MaxTurns
    /\ toolCalls \in 0 .. MaxToolCalls /\ starts \in 0 .. MaxStarts /\ faults \in 0 .. MaxFaults
    /\ faithful \in BOOLEAN

SessionInv ==
    /\ DiskTypes /\ MemoryTypes /\ FilesInOrder /\ SessionIsKnown
    /\ TurnIsInItsFile /\ SavingIsInStep /\ FileIsTheSession

--------------------------------------------------------------------------------
(***************************************************************************)
(* Lines: what appending an entry changes in what is read.                 *)
(***************************************************************************)

\* Entries of different kinds are different.
LEMMA KindsAreDisjoint ==
    /\ \A e \in Message : /\ e \in Entries /\ e \notin Header /\ e \notin LastPrompt
                          /\ e \notin WorktreeState /\ e \notin {Invalid}
    /\ \A e \in Header : /\ e \in Entries /\ e \notin Message /\ e \notin LastPrompt
                         /\ e \notin WorktreeState /\ e \notin {Invalid}
    /\ \A e \in LastPrompt : /\ e \in Entries /\ e \notin Message /\ e \notin Header
                             /\ e \notin WorktreeState /\ e \notin {Invalid}
    /\ \A e \in WorktreeState : /\ e \in Entries /\ e \notin Message /\ e \notin Header
                                /\ e \notin LastPrompt /\ e \notin {Invalid}
    /\ \A e \in {Invalid} : /\ e \in Entries /\ e \notin Message /\ e \notin Header
                            /\ e \notin LastPrompt /\ e \notin WorktreeState
<1>1. /\ \A e \in Message : e.type = "message"
      /\ \A e \in Header : e.type = "session_header"
      /\ \A e \in LastPrompt : e.type = "last_prompt"
      /\ \A e \in WorktreeState : e.type = "worktree_state"
      /\ \A e \in {Invalid} : e.type = "invalid"
    BY DEF Message, Header, LastPrompt, WorktreeState, Invalid
<1> QED
    BY <1>1 DEF Entries

\* What is selected of a kind is a sequence of that kind.
LEMMA SelectedKinds ==
    ASSUME NEW c \in Seq(Entries)
    PROVE  /\ Selected(c, Message) \in Seq(Message) /\ Selected(c, Header) \in Seq(Header)
           /\ Selected(c, LastPrompt) \in Seq(LastPrompt)
           /\ Selected(c, WorktreeState) \in Seq(WorktreeState)
           /\ Selected(c, {Invalid}) \in Seq({Invalid})
<1>1. /\ Entries \cap Message = Message /\ Entries \cap Header = Header
      /\ Entries \cap LastPrompt = LastPrompt /\ Entries \cap WorktreeState = WorktreeState
      /\ Entries \cap {Invalid} = {Invalid}
    BY DEF Entries
<1>2. \A S : Selected(c, S) \in Seq(Entries \cap S)
    BY SelectedIn
<1> QED
    BY <1>1, <1>2

\* An appended entry is added to what is selected of its own kind.
LEMMA EntryAppended ==
    ASSUME NEW c \in Seq(Entries), NEW e \in Entries
    PROVE  /\ Append(c, e) \in Seq(Entries)
           /\ \A S : Selected(Append(c, e), S) =
                         IF e \in S THEN Append(Selected(c, S), e) ELSE Selected(c, S)
BY SelectedAppend

\* The last of a sequence that grew by one is what was appended.
LEMMA LastAppended ==
    ASSUME NEW S, NEW s \in Seq(S), NEW e \in S
    PROVE  /\ Append(s, e) \in Seq(S) /\ Append(s, e) # <<>> /\ Last(Append(s, e)) = e
           /\ Len(Append(s, e)) = Len(s) + 1
           /\ \A i \in 1 .. Len(s) : Append(s, e)[i] = s[i]
           /\ Append(s, e)[Len(s) + 1] = e
BY DEF Last

\* A message is added to the messages, and nothing else changes.
LEMMA MessageAppended ==
    ASSUME NEW c \in Seq(Entries), NEW m \in Message
    PROVE  /\ Loads(Append(c, m)) <=> Loads(c)
           /\ Selected(Append(c, m), Message) = Append(Selected(c, Message), m)
           /\ Selected(Append(c, m), Header) = Selected(c, Header)
           /\ PromptIn(Append(c, m)) = PromptIn(c)
           /\ WorktreeIn(Append(c, m)) = WorktreeIn(c)
           /\ LastIn(Append(c, m), Header, None) = LastIn(c, Header, None)
<1>1. /\ m \in Entries /\ m \notin Header /\ m \notin LastPrompt
      /\ m \notin WorktreeState /\ m \notin {Invalid}
    BY KindsAreDisjoint
<1>2. /\ Selected(Append(c, m), Message) = Append(Selected(c, Message), m)
      /\ Selected(Append(c, m), Header) = Selected(c, Header)
      /\ Selected(Append(c, m), LastPrompt) = Selected(c, LastPrompt)
      /\ Selected(Append(c, m), WorktreeState) = Selected(c, WorktreeState)
      /\ Selected(Append(c, m), {Invalid}) = Selected(c, {Invalid})
    BY <1>1, EntryAppended, Zenon
<1> QED
    BY <1>2, Zenon DEF Loads, PromptIn, WorktreeIn, LastIn

\* A prompt becomes the last prompt, and nothing else changes.
LEMMA PromptAppended ==
    ASSUME NEW c \in Seq(Entries), NEW e \in LastPrompt
    PROVE  /\ Loads(Append(c, e)) <=> Loads(c)
           /\ Selected(Append(c, e), Message) = Selected(c, Message)
           /\ Selected(Append(c, e), Header) = Selected(c, Header)
           /\ PromptIn(Append(c, e)) = e.turn
           /\ WorktreeIn(Append(c, e)) = WorktreeIn(c)
           /\ LastIn(Append(c, e), Header, None) = LastIn(c, Header, None)
<1>1. /\ e \in Entries /\ e \notin Header /\ e \notin Message
      /\ e \notin WorktreeState /\ e \notin {Invalid}
    BY KindsAreDisjoint
<1>2. /\ Selected(Append(c, e), LastPrompt) = Append(Selected(c, LastPrompt), e)
      /\ Selected(Append(c, e), Header) = Selected(c, Header)
      /\ Selected(Append(c, e), Message) = Selected(c, Message)
      /\ Selected(Append(c, e), WorktreeState) = Selected(c, WorktreeState)
      /\ Selected(Append(c, e), {Invalid}) = Selected(c, {Invalid})
    BY <1>1, EntryAppended, Zenon
<1>3. /\ Append(Selected(c, LastPrompt), e) # <<>>
      /\ Last(Append(Selected(c, LastPrompt), e)) = e
    BY SelectedKinds, LastAppended
<1> QED
    BY <1>2, <1>3, Zenon DEF Loads, PromptIn, WorktreeIn, LastIn

\* A worktree state becomes the last one, and nothing else changes.
LEMMA WorktreeAppended ==
    ASSUME NEW c \in Seq(Entries), NEW e \in WorktreeState
    PROVE  /\ Loads(Append(c, e)) <=> Loads(c)
           /\ Selected(Append(c, e), Message) = Selected(c, Message)
           /\ Selected(Append(c, e), Header) = Selected(c, Header)
           /\ PromptIn(Append(c, e)) = PromptIn(c)
           /\ WorktreeIn(Append(c, e)) = e.state
           /\ LastIn(Append(c, e), Header, None) = LastIn(c, Header, None)
<1>1. /\ e \in Entries /\ e \notin Header /\ e \notin Message
      /\ e \notin LastPrompt /\ e \notin {Invalid}
    BY KindsAreDisjoint
<1>2. /\ Selected(Append(c, e), WorktreeState) = Append(Selected(c, WorktreeState), e)
      /\ Selected(Append(c, e), Header) = Selected(c, Header)
      /\ Selected(Append(c, e), Message) = Selected(c, Message)
      /\ Selected(Append(c, e), LastPrompt) = Selected(c, LastPrompt)
      /\ Selected(Append(c, e), {Invalid}) = Selected(c, {Invalid})
    BY <1>1, EntryAppended, Zenon
<1>3. /\ Append(Selected(c, WorktreeState), e) # <<>>
      /\ Last(Append(Selected(c, WorktreeState), e)) = e
    BY SelectedKinds, LastAppended
<1> QED
    BY <1>2, <1>3, Zenon DEF Loads, PromptIn, WorktreeIn, LastIn

\* A line that does not parse keeps a file from loading, and leaves its headers alone.
LEMMA InvalidAppended ==
    ASSUME NEW c \in Seq(Entries)
    PROVE  /\ Append(c, Invalid) \in Seq(Entries)
           /\ ~ Loads(Append(c, Invalid))
           /\ Selected(Append(c, Invalid), Header) = Selected(c, Header)
<1>1. Invalid \in {Invalid} /\ Invalid \in Entries /\ Invalid \notin Header
    BY KindsAreDisjoint
<1>2. /\ Append(c, Invalid) \in Seq(Entries)
      /\ Selected(Append(c, Invalid), Header) = Selected(c, Header)
      /\ Selected(Append(c, Invalid), {Invalid}) = Append(Selected(c, {Invalid}), Invalid)
    BY <1>1, EntryAppended, Zenon
<1>3. Append(Selected(c, {Invalid}), Invalid) # <<>>
    BY <1>1, SelectedKinds, LastAppended
<1> QED
    BY <1>2, <1>3, Zenon DEF Loads

\* A file that was just begun loads, without messages, prompt or worktree.
LEMMA BeginningLoads ==
    ASSUME NEW h \in Header
    PROVE  /\ <<h>> \in Seq(Entries) /\ Loads(<<h>>)
           /\ Selected(<<h>>, Header) = <<h>> /\ Selected(<<h>>, Message) = <<>>
           /\ PromptIn(<<h>>) = 0 /\ WorktreeIn(<<h>>) = None
           /\ LastIn(<<h>>, Header, None) = h
<1>1. <<>> \in Seq(Entries) /\ <<h>> = Append(<<>>, h) /\ <<h>> # <<>> /\ Last(<<h>>) = h
    BY DEF Last
<1>2. /\ h \in Entries /\ h \notin Message /\ h \notin LastPrompt
      /\ h \notin WorktreeState /\ h \notin {Invalid}
    BY KindsAreDisjoint
<1>3. /\ Append(<<>>, h) \in Seq(Entries)
      /\ \A S : Selected(Append(<<>>, h), S) =
                    IF h \in S THEN Append(Selected(<<>>, S), h) ELSE Selected(<<>>, S)
    BY <1>1, <1>2, EntryAppended, Zenon
<1>4. /\ Selected(<<h>>, Header) = <<h>> /\ Selected(<<h>>, Message) = <<>>
      /\ Selected(<<h>>, LastPrompt) = <<>> /\ Selected(<<h>>, WorktreeState) = <<>>
      /\ Selected(<<h>>, {Invalid}) = <<>>
    BY <1>1, <1>2, <1>3, SelectedEmpty
<1> QED
    BY <1>1, <1>3, <1>4 DEF Loads, PromptIn, WorktreeIn, LastIn

\* Headers of a file without its last line are headers of the file.
LEMMA HeadersOfFront ==
    ASSUME NEW c \in Seq(Entries), NEW session,
           \A i \in 1 .. Len(Selected(c, Header)) : Selected(c, Header)[i].session = session
    PROVE  /\ Front(c) \in Seq(Entries)
           /\ \A i \in 1 .. Len(Selected(Front(c), Header)) :
                  Selected(Front(c), Header)[i].session = session
<1> DEFINE f == Front(c)
<1>1. f \in Seq(Entries) /\ \A k \in 1 .. Len(f) : k \in 1 .. Len(c) /\ f[k] = c[k]
    BY DEF Front
<1> HIDE DEF f
<1>2. ASSUME NEW i \in 1 .. Len(Selected(f, Header))
      PROVE  Selected(f, Header)[i].session = session
    <2>1. PICK k \in 1 .. Len(f) : Selected(f, Header)[i] = f[k] /\ f[k] \in Header
        BY <1>1, SelectedElements
    <2>2. k \in 1 .. Len(c) /\ c[k] \in Header /\ Selected(f, Header)[i] = c[k]
        BY <1>1, <2>1
    <2>3. PICK j \in 1 .. Len(Selected(c, Header)) : Selected(c, Header)[j] = c[k]
        BY <2>2, SelectedElements
    <2> QED
        BY <2>2, <2>3
<1> QED
    BY <1>1, <1>2 DEF f

\* Messages stay in order when the next one of a turn, or the first of a later one, is appended.
LEMMA OrderedAppend ==
    ASSUME NEW ms \in Seq(Message), NEW m \in Message, InOrder(ms),
           m.kind = "User" <=> m.index = 1,
           \/ m.index = 1 /\ TurnsBelow(ms, m.turn)
           \/ /\ m.index # 1 /\ ms # <<>>
              /\ Last(ms).turn = m.turn /\ Last(ms).index = m.index - 1
    PROVE  InOrder(Append(ms, m))
<1> DEFINE w == Append(ms, m)
           n == Len(ms)
<1>1. /\ w \in Seq(Message) /\ n \in Nat /\ Len(w) = n + 1 /\ w[n + 1] = m
      /\ \A i \in 1 .. n : w[i] = ms[i]
    BY LastAppended
<1>2. /\ \A i \in 1 .. n : ms[i].turn \in Nat /\ ms[i].index \in Nat
      /\ m.turn \in Nat /\ m.index \in Nat
    <2>1. \A i \in 1 .. n : ms[i] \in Message
        OBVIOUS
    <2> QED
        BY <2>1 DEF Message
<1> HIDE DEF w, n
<1>3. \A i \in 1 .. n + 1 : i \in 1 .. n \/ i = n + 1
    BY <1>1
<1>4. Len(w) > 0 => w[1].index = 1
    <2>1. CASE n = 0
        <3>1. ms = <<>> /\ m.index = 1
            BY <2>1 DEF n
        <3> QED
            BY <1>1, <2>1, <3>1
    <2>2. CASE n # 0
        <3>1. 1 \in 1 .. n /\ ms[1].index = 1
            BY <1>1, <2>2 DEF InOrder, n
        <3> QED
            BY <1>1, <3>1
    <2> QED
        BY <2>1, <2>2
<1>5. \A i \in 1 .. Len(w) : w[i].kind = "User" <=> w[i].index = 1
    BY <1>1, <1>3 DEF InOrder, n
<1>6. n # 0 => Follows(ms[n], m) /\ (\A i \in 1 .. n : Precedes(ms[i], m))
    <2> SUFFICES ASSUME n # 0 PROVE Follows(ms[n], m) /\ (\A i \in 1 .. n : Precedes(ms[i], m))
        OBVIOUS
    <2>1. n \in 1 .. n /\ Last(ms) = ms[n]
        BY <1>1 DEF Last, n
    <2>2. CASE m.index = 1 /\ TurnsBelow(ms, m.turn)
        <3>1. \A i \in 1 .. n : ms[i].turn < m.turn
            BY <2>2 DEF TurnsBelow, n
        <3> QED
            BY <2>1, <2>2, <3>1 DEF Follows, Precedes
    <2>3. CASE m.index # 1 /\ Last(ms).turn = m.turn /\ Last(ms).index = m.index - 1
        <3>1. ms[n].turn = m.turn /\ ms[n].index = m.index - 1
            BY <2>1, <2>3
        <3>2. Follows(ms[n], m) /\ Precedes(ms[n], m)
            BY <1>2, <2>1, <2>3, <3>1 DEF Follows, Precedes
        <3>3. ASSUME NEW i \in 1 .. n, i # n PROVE Precedes(ms[i], m)
            <4>1. Precedes(ms[i], ms[n])
                BY <1>1, <2>1, <3>3 DEF InOrder, n
            <4>2. /\ ms[i].turn \in Nat /\ ms[i].index \in Nat /\ ms[n].turn \in Nat
                  /\ ms[n].index \in Nat /\ m.turn \in Nat /\ m.index \in Nat
                BY <1>2, <2>1
            <4> QED
                BY <3>1, <4>1, <4>2 DEF Precedes
        <3> QED
            BY <3>2, <3>3
    <2> QED
        BY <2>2, <2>3
<1>7. ASSUME NEW i \in 2 .. Len(w) PROVE Follows(w[i - 1], w[i])
    <2>1. CASE i = n + 1
        <3>1. n # 0 /\ n \in 1 .. n /\ i - 1 = n
            BY <1>1, <2>1
        <3> QED
            BY <1>1, <1>6, <2>1, <3>1
    <2>2. CASE i # n + 1
        <3>1. i \in 2 .. n /\ i \in 1 .. n /\ i - 1 \in 1 .. n
            BY <1>1, <2>2
        <3>2. Follows(ms[i - 1], ms[i])
            BY <3>1 DEF InOrder, n
        <3> QED
            BY <1>1, <3>1, <3>2
    <2> QED
        BY <2>1, <2>2
<1>8. ASSUME NEW i \in 1 .. Len(w), NEW j \in 1 .. Len(w), i < j PROVE Precedes(w[i], w[j])
    <2>1. CASE j = n + 1
        <3>1. i \in 1 .. n /\ n # 0
            BY <1>1, <1>8, <2>1
        <3> QED
            BY <1>1, <1>6, <2>1, <3>1
    <2>2. CASE j # n + 1
        <3>1. i \in 1 .. n /\ j \in 1 .. n
            BY <1>1, <1>8, <2>2
        <3>2. Precedes(ms[i], ms[j])
            BY <1>8, <3>1 DEF InOrder, n
        <3> QED
            BY <1>1, <3>1, <3>2
    <2> QED
        BY <2>1, <2>2
<1>9. InOrder(w)
    BY <1>4, <1>5, <1>7, <1>8 DEF InOrder
<1> QED
    BY <1>9 DEF w

--------------------------------------------------------------------------------
(***************************************************************************)
(* Files: what a write, whatever comes of it, does to them.                *)
(***************************************************************************)

\* A file that is written to moves to the front, and the others stay where they are.
LEMMA TouchedFiles ==
    ASSUME DiskTypes, NEW p \in Paths
    PROVE  /\ Touched(p) \in Seq(existing \cup {p}) /\ IsInjective(Touched(p))
           /\ ToSet(Touched(p)) = existing \cup {p}
<1> DEFINE others == Selected(recency, Paths \ {p})
           w == Touched(p)
<1>1. /\ recency \in Seq(existing) /\ existing \subseteq Paths
      /\ \A i, j \in 1 .. Len(recency) : recency[i] = recency[j] => i = j
      /\ \A q \in existing : \E i \in 1 .. Len(recency) : recency[i] = q
    BY DEF DiskTypes, IsInjective, ToSet
<1>2. others \in Seq(existing \cap (Paths \ {p}))
    BY <1>1, SelectedIn
<1>3. \A i, j \in 1 .. Len(others) : others[i] = others[j] => i = j
    BY <1>1, SelectedDistinct
<1>4. ASSUME NEW q \in existing, q # p PROVE \E i \in 1 .. Len(others) : others[i] = q
    <2>1. PICK k \in 1 .. Len(recency) : recency[k] = q /\ recency[k] \in Paths \ {p}
        BY <1>1, <1>4
    <2>2. \E i \in 1 .. Len(Selected(recency, Paths \ {p})) :
              Selected(recency, Paths \ {p})[i] = recency[k]
        <3>1. recency \in Seq(existing)
            BY <1>1
        <3>2. \A j \in 1 .. Len(recency) : recency[j] \in Paths \ {p} =>
                  \E i \in 1 .. Len(Selected(recency, Paths \ {p})) :
                      Selected(recency, Paths \ {p})[i] = recency[j]
            BY <3>1, SelectedElements
        <3> QED
            BY <2>1, <3>2, Zenon
    <2> QED
        BY <2>1, <2>2
<1> HIDE DEF others
<1>5. /\ w \in Seq(existing \cup {p}) /\ Len(w) = Len(others) + 1 /\ w[1] = p
      /\ \A i \in 1 .. Len(others) : w[i + 1] = others[i] /\ others[i] # p
      /\ Len(others) \in Nat
    <2>1. others \in Seq(existing \cup {p}) /\ \A i \in 1 .. Len(others) : others[i] # p
        BY <1>2
    <2>2. w = <<p>> \o others
        BY DEF Touched, others
    <2>3. <<p>> \in Seq(existing \cup {p})
        OBVIOUS
    <2> HIDE DEF w
    <2>4. w \in Seq(existing \cup {p}) /\ Len(others) \in Nat
        BY <2>1, <2>2, <2>3
    <2>5. Len(w) = Len(others) + 1 /\ w[1] = p
        BY <2>1, <2>2, <2>3
    <2>6. \A i \in 1 .. Len(others) : w[i + 1] = others[i]
        BY <2>1, <2>2, <2>3
    <2> QED
        BY <2>1, <2>4, <2>5, <2>6
<1> HIDE DEF w
<1>6. \A i \in 1 .. Len(w) : i = 1 \/ (i - 1 \in 1 .. Len(others) /\ w[i] = others[i - 1])
    <2> SUFFICES ASSUME NEW i \in 1 .. Len(w), i # 1
                 PROVE  i - 1 \in 1 .. Len(others) /\ w[i] = others[i - 1]
        OBVIOUS
    <2>1. i - 1 \in 1 .. Len(others) /\ (i - 1) + 1 = i
        BY <1>5
    <2> QED
        BY <1>5, <2>1
<1>7. ASSUME NEW i \in 1 .. Len(w), NEW j \in 1 .. Len(w), w[i] = w[j] PROVE i = j
    <2>1. CASE i = 1 /\ j = 1
        BY <2>1
    <2>2. CASE i = 1 /\ j # 1
        BY <1>5, <1>6, <1>7, <2>2
    <2>3. CASE i # 1 /\ j = 1
        BY <1>5, <1>6, <1>7, <2>3
    <2>4. CASE i # 1 /\ j # 1
        <3>1. i - 1 \in 1 .. Len(others) /\ j - 1 \in 1 .. Len(others) /\ others[i - 1] = others[j - 1]
            BY <1>6, <1>7, <2>4
        <3>2. i - 1 = j - 1
            BY <1>3, <3>1
        <3> QED
            BY <1>5, <3>2
    <2> QED
        BY <2>1, <2>2, <2>3, <2>4
<1>8. \A q \in existing \cup {p} : \E i \in 1 .. Len(w) : w[i] = q
    <2>1. 1 \in 1 .. Len(w)
        BY <1>5
    <2>2. ASSUME NEW q \in existing, q # p PROVE \E i \in 1 .. Len(w) : w[i] = q
        <3>1. PICK k \in 1 .. Len(others) : others[k] = q
            BY <1>4, <2>2
        <3>2. k + 1 \in 1 .. Len(w)
            BY <1>5
        <3> QED
            BY <1>5, <3>1, <3>2
    <2> QED
        BY <1>5, <2>1, <2>2
<1>9. \A i \in 1 .. Len(w) : w[i] \in existing \cup {p}
    BY <1>5
<1>10. DOMAIN w = 1 .. Len(w)
    BY <1>5
<1>11. IsInjective(w)
    BY <1>7, <1>10 DEF IsInjective
<1>12. ToSet(w) = existing \cup {p}
    BY <1>8, <1>9, <1>10 DEF ToSet
<1> QED
    BY <1>5, <1>11, <1>12 DEF w

\* The lines a file has, or begins with.
LinesOf(p) == IF p \in existing THEN lines[p] ELSE <<HeaderOf(runtime)>>

\* What a write can leave in the file it goes to: what was there, nothing, a header, the entry
\* behind what was there, or a line that does not parse.
Outcome(entry) ==
    \/ existing' = existing /\ lines' = lines
    \/ TranscriptPath \notin existing /\ lines'[TranscriptPath] = <<>>
    \/ TranscriptPath \notin existing /\ lines'[TranscriptPath] = <<HeaderOf(runtime)>>
    \/ /\ TranscriptPath \notin unterminated
       /\ lines'[TranscriptPath] = Append(LinesOf(TranscriptPath), entry)
    \/ lines'[TranscriptPath] = Append(LinesOf(TranscriptPath), Invalid)
    \/ /\ TranscriptPath \in existing
       /\ lines'[TranscriptPath] = Append(Front(lines[TranscriptPath]), Invalid)

\* The path a process writes to is a path, and writing makes it the path of the runtime.
LEMMA PathIsKnown ==
    ASSUME runtime \in Runtime
    PROVE  /\ TranscriptPath \in Paths /\ TranscriptPath # None
           /\ HeaderOf(runtime) \in Header
           /\ [runtime EXCEPT !.transcriptPath = TranscriptPath] \in Runtime
           /\ [runtime EXCEPT !.transcriptPath = TranscriptPath].transcriptPath = TranscriptPath
           /\ [runtime EXCEPT !.transcriptPath = TranscriptPath].session = runtime.session
           /\ [runtime EXCEPT !.transcriptPath = TranscriptPath].active = runtime.active
           /\ [runtime EXCEPT !.transcriptPath = TranscriptPath].worktree = runtime.worktree
<1>1. /\ runtime.session \in Sessions /\ runtime.active \in Roots
      /\ runtime.transcriptPath \in Paths \cup {None}
    BY DEF Runtime
<1>2. PathOf(runtime.active, runtime.session) \in Paths
    BY <1>1 DEF PathOf, Paths
<1>3. TranscriptPath \in Paths
    BY <1>1, <1>2 DEF TranscriptPath
<1>4. TranscriptPath # None
    BY <1>3, SessionAssumption
<1>5. HeaderOf(runtime) \in Header
    BY <1>1 DEF HeaderOf, Header
<1> QED
    BY <1>3, <1>4, <1>5 DEF Runtime

\* What a write leaves are lines.
LEMMA WrittenLines ==
    ASSUME DiskTypes, runtime \in Runtime, NEW p \in Paths, NEW e \in Entries
    PROVE  LinesWith(p, e) \in Seq(Entries) /\ LinesOf(p) \in Seq(Entries)
<1>1. lines[p] \in Seq(Entries) /\ Invalid \in Entries
    BY DEF DiskTypes, Entries
<1>2. <<HeaderOf(runtime)>> \in Seq(Entries)
    BY PathIsKnown, BeginningLoads
<1>3. LinesOf(p) \in Seq(Entries)
    BY <1>1, <1>2 DEF LinesOf
<1>4. Append(LinesOf(p), e) \in Seq(Entries)
    BY <1>3
<1>5. Append(Front(lines[p]), Invalid) \in Seq(Entries)
    BY <1>1 DEF Front
<1> QED
    BY <1>3, <1>4, <1>5 DEF LinesWith, LinesOf

\* Writing a content keeps the types of the files.
LEMMA WriteTypes ==
    ASSUME DiskTypes, NEW p \in Paths, NEW content \in Seq(Entries), WriteTo(p, content)
    PROVE  /\ existing' = existing \cup {p} /\ lines'[p] = content
           /\ existing' \subseteq Paths /\ lines' \in [Paths -> Seq(Entries)]
           /\ \A q \in Paths \ {p} : lines'[q] = lines[q]
           /\ recency' \in Seq(existing') /\ IsInjective(recency')
           /\ ToSet(recency') = existing'
<1>1. /\ existing' = existing \cup {p} /\ lines' = [lines EXCEPT ![p] = content]
      /\ recency' = Touched(p)
    BY DEF WriteTo
<1>2. existing \subseteq Paths /\ lines \in [Paths -> Seq(Entries)]
    BY DEF DiskTypes
<1>3. /\ lines'[p] = content /\ lines' \in [Paths -> Seq(Entries)]
      /\ \A q \in Paths \ {p} : lines'[q] = lines[q]
    BY <1>1, <1>2
<1>4. /\ Touched(p) \in Seq(existing \cup {p}) /\ IsInjective(Touched(p))
      /\ ToSet(Touched(p)) = existing \cup {p}
    BY TouchedFiles
<1> QED
    BY <1>1, <1>2, <1>3, <1>4

\* A write touches one file, whatever comes of it.
LEMMA WriteOutcome ==
    ASSUME DiskTypes, runtime \in Runtime, NEW entry \in Entries,
           EntryWritten(entry) \/ EntryFails(entry)
    PROVE  /\ DiskTypes'
           /\ runtime' = [runtime EXCEPT !.transcriptPath = TranscriptPath]
           /\ existing \subseteq existing' /\ existing' \subseteq existing \cup {TranscriptPath}
           /\ \A q \in Paths \ {TranscriptPath} : lines'[q] = lines[q]
           /\ Outcome(entry)
<1> DEFINE p == TranscriptPath
<1>1. p \in Paths /\ Invalid \in Entries
    BY PathIsKnown DEF Entries
<1>2. unterminated \subseteq existing
    BY DEF DiskTypes
<1>3. \A e \in {entry, Invalid} :
          /\ LinesWith(p, e) \in Seq(Entries)
          /\ \/ p \notin unterminated /\ LinesWith(p, e) = Append(LinesOf(p), e)
             \/ p \in existing /\ LinesWith(p, e) = Append(Front(lines[p]), Invalid)
    BY <1>1, <1>2, WrittenLines DEF LinesWith, LinesOf
<1> HIDE DEF p
<1>4. ASSUME NEW content \in Seq(Entries), WriteTo(p, content),
             unterminated' \subseteq existing'
      PROVE  /\ DiskTypes' /\ lines'[p] = content
             /\ existing \subseteq existing' /\ existing' \subseteq existing \cup {p}
             /\ \A q \in Paths \ {p} : lines'[q] = lines[q]
    <2>1. /\ existing' = existing \cup {p} /\ lines'[p] = content
          /\ existing' \subseteq Paths /\ lines' \in [Paths -> Seq(Entries)]
          /\ \A q \in Paths \ {p} : lines'[q] = lines[q]
          /\ recency' \in Seq(existing') /\ IsInjective(recency')
          /\ ToSet(recency') = existing'
        BY <1>1, <1>4, WriteTypes
    <2> QED
        BY <1>4, <2>1 DEF DiskTypes
<1>5. CASE EntryWritten(entry)
    <2>1. /\ WriteTo(p, LinesWith(p, entry)) /\ unterminated' = unterminated \ {p}
          /\ runtime' = [runtime EXCEPT !.transcriptPath = p]
        BY <1>5 DEF EntryWritten, p
    <2>2. unterminated' \subseteq existing'
        BY <1>2, <2>1 DEF WriteTo
    <2>3. LinesWith(p, entry) \in Seq(Entries)
        BY <1>3
    <2>4. /\ DiskTypes' /\ lines'[p] = LinesWith(p, entry)
          /\ existing \subseteq existing' /\ existing' \subseteq existing \cup {p}
          /\ \A q \in Paths \ {p} : lines'[q] = lines[q]
        BY <1>4, <2>1, <2>2, <2>3
    <2>5. \/ p \notin unterminated /\ lines'[p] = Append(LinesOf(p), entry)
          \/ p \in existing /\ lines'[p] = Append(Front(lines[p]), Invalid)
        BY <1>3, <2>4
    <2> QED
        BY <2>1, <2>4, <2>5 DEF Outcome, p
<1>6. CASE EntryFails(entry)
    <2>1. runtime' = [runtime EXCEPT !.transcriptPath = p]
        BY <1>6 DEF EntryFails, p
    <2>2. CASE UNCHANGED diskVars
        <3>1. /\ existing' = existing /\ lines' = lines /\ unterminated' = unterminated
              /\ recency' = recency
            BY <2>2 DEF diskVars
        <3>2. DiskTypes'
            BY <3>1 DEF DiskTypes
        <3> QED
            BY <2>1, <3>1, <3>2 DEF Outcome, p
    <2>3. CASE /\ p \notin existing
               /\ \E content \in {<<>>, <<HeaderOf(runtime)>>} : WriteTo(p, content)
               /\ UNCHANGED unterminated
        <3>1. PICK content \in {<<>>, <<HeaderOf(runtime)>>} : WriteTo(p, content)
            BY <2>3
        <3>2. content \in Seq(Entries)
            <4>1. <<HeaderOf(runtime)>> \in Seq(Entries)
                BY PathIsKnown, BeginningLoads
            <4>2. <<>> \in Seq(Entries)
                OBVIOUS
            <4> QED
                BY <4>1, <4>2, Zenon
        <3>3. unterminated' \subseteq existing'
            BY <1>2, <2>3, <3>1 DEF WriteTo
        <3>4. /\ DiskTypes' /\ lines'[p] = content
              /\ existing \subseteq existing' /\ existing' \subseteq existing \cup {p}
              /\ \A q \in Paths \ {p} : lines'[q] = lines[q]
            BY <1>4, <3>1, <3>2, <3>3
        <3> QED
            BY <2>1, <2>3, <3>4 DEF Outcome, p
    <2>4. CASE /\ \E part \in {Invalid, entry} : WriteTo(p, LinesWith(p, part))
               /\ unterminated' = unterminated \cup {p}
        <3>1. PICK part \in {Invalid, entry} : WriteTo(p, LinesWith(p, part))
            BY <2>4
        <3>2. LinesWith(p, part) \in Seq(Entries)
            BY <1>3
        <3>3. unterminated' \subseteq existing'
            BY <1>2, <2>4, <3>1 DEF WriteTo
        <3>4. /\ DiskTypes' /\ lines'[p] = LinesWith(p, part)
              /\ existing \subseteq existing' /\ existing' \subseteq existing \cup {p}
              /\ \A q \in Paths \ {p} : lines'[q] = lines[q]
            BY <1>4, <3>1, <3>2, <3>3
        <3>5. \/ p \notin unterminated /\ lines'[p] = Append(LinesOf(p), part)
              \/ p \in existing /\ lines'[p] = Append(Front(lines[p]), Invalid)
            BY <1>3, <3>4
        <3> QED
            BY <2>1, <3>4, <3>5 DEF Outcome, p
    <2> QED
        BY <1>6, <2>2, <2>3, <2>4 DEF EntryFails, p
<1> QED
    BY <1>5, <1>6

\* The prompt a file was last given is a number.
LEMMA PromptIsNumber ==
    ASSUME NEW c \in Seq(Entries)
    PROVE  PromptIn(c) \in Nat
<1>1. Selected(c, LastPrompt) \in Seq(LastPrompt)
    BY SelectedKinds
<1>2. CASE Selected(c, LastPrompt) = <<>>
    BY <1>2 DEF PromptIn, LastIn
<1>3. CASE Selected(c, LastPrompt) # <<>>
    <2>1. Last(Selected(c, LastPrompt)) \in LastPrompt
        BY <1>1, <1>3 DEF Last
    <2>2. Last(Selected(c, LastPrompt)).turn \in Nat
        BY <2>1 DEF LastPrompt
    <2> QED
        BY <1>3, <2>2 DEF PromptIn, LastIn
<1> QED
    BY <1>2, <1>3

\* Lines in order stay so while more prompts are submitted elsewhere.
LEMMA InOrderLater ==
    ASSUME NEW c \in Seq(Entries), NEW session, NEW n \in Nat, NEW m \in Nat, n <= m,
           FileInOrder(c, session, n)
    PROVE  FileInOrder(c, session, m)
<1>1. PromptIn(c) \in Nat
    BY PromptIsNumber
<1>2. Loads(c) => PromptIn(c) <= m
    BY <1>1 DEF FileInOrder
<1> QED
    BY <1>2, Zenon DEF FileInOrder

\* A file with a header only, or with less, is in order.
LEMMA BeginningInOrder ==
    ASSUME NEW h \in Header, NEW n \in Nat
    PROVE  FileInOrder(<<h>>, h.session, n) /\ FileInOrder(<<>>, h.session, n)
<1>1. /\ Selected(<<h>>, Header) = <<h>> /\ Selected(<<h>>, Message) = <<>>
      /\ PromptIn(<<h>>) = 0
    BY BeginningLoads
<1>2. InOrder(<<>>) /\ TurnsUpTo(<<>>, 0)
    BY DEF InOrder, TurnsUpTo
<1>3. \A i \in 1 .. Len(<<h>>) : <<h>>[i].session = h.session
    OBVIOUS
<1>4. FileInOrder(<<h>>, h.session, n)
    BY <1>1, <1>2, <1>3 DEF FileInOrder
<1>5. FileInOrder(<<>>, h.session, n)
    BY SelectedEmpty DEF FileInOrder, Loads
<1> QED
    BY <1>4, <1>5

\* The lines a process adds to are in order, and in a file of its session.
LEMMA OwnFile ==
    ASSUME DiskTypes, runtime \in Runtime, FilesInOrder, Running, SessionIsKnown, turns \in Nat
    PROVE  /\ TranscriptPath.session = runtime.session
           /\ FileInOrder(LinesOf(TranscriptPath), TranscriptPath.session, turns)
           /\ TranscriptPath.session <= sessions
<1>1. TranscriptPath.session = runtime.session
    BY DEF SessionIsKnown, TranscriptPath, PathOf
<1>2. HeaderOf(runtime) \in Header /\ HeaderOf(runtime).session = runtime.session
    BY PathIsKnown DEF HeaderOf
<1>3. FileInOrder(<<HeaderOf(runtime)>>, TranscriptPath.session, turns)
    BY <1>1, <1>2, BeginningInOrder
<1>4. FileInOrder(LinesOf(TranscriptPath), TranscriptPath.session, turns)
    BY <1>3 DEF LinesOf, FilesInOrder
<1> QED
    BY <1>1, <1>4 DEF SessionIsKnown

\* If a file loads after a write, it loaded before, was begun by it, or got the entry.
LEMMA WrittenFile ==
    ASSUME DiskTypes, runtime \in Runtime, FilesInOrder, Running, SessionIsKnown, turns \in Nat,
           NEW entry \in Message \cup LastPrompt \cup WorktreeState, Outcome(entry),
           TranscriptPath \in existing'
    PROVE  /\ \A i \in 1 .. Len(Selected(lines'[TranscriptPath], Header)) :
                  Selected(lines'[TranscriptPath], Header)[i].session = TranscriptPath.session
           /\ Loads(lines'[TranscriptPath]) =>
                  \/ TranscriptPath \in existing /\ lines'[TranscriptPath] = lines[TranscriptPath]
                  \/ /\ TranscriptPath \notin existing
                     /\ lines'[TranscriptPath] = <<HeaderOf(runtime)>>
                  \/ /\ lines'[TranscriptPath] = Append(LinesOf(TranscriptPath), entry)
                     /\ Loads(LinesOf(TranscriptPath))
<1> DEFINE p == TranscriptPath
           c == lines'[TranscriptPath]
           Named(d) == \A i \in 1 .. Len(Selected(d, Header)) :
                           Selected(d, Header)[i].session = p.session
           Reads == \/ p \in existing /\ c = lines[p]
                    \/ p \notin existing /\ c = <<HeaderOf(runtime)>>
                    \/ c = Append(LinesOf(p), entry) /\ Loads(LinesOf(p))
<1>1. p \in Paths /\ Invalid \in Entries /\ HeaderOf(runtime) \in Header
    BY PathIsKnown DEF Entries
<1>2. LinesOf(p) \in Seq(Entries) /\ lines[p] \in Seq(Entries)
    BY <1>1, WrittenLines DEF DiskTypes
<1>3. Named(LinesOf(p))
    BY OwnFile DEF FileInOrder
<1> HIDE DEF p, c
<1>4. CASE existing' = existing /\ lines' = lines
    <2>1. p \in existing /\ c = lines[p] /\ LinesOf(p) = lines[p]
        BY <1>4 DEF p, c, LinesOf
    <2>2. Named(c)
        BY <1>3, <2>1
    <2> QED
        BY <2>1, <2>2 DEF p, c
<1>5. CASE p \notin existing /\ c = <<>>
    <2>1. Selected(c, Header) = <<>>
        BY <1>5, SelectedEmpty
    <2>2. Named(c) /\ ~ Loads(c)
        BY <2>1 DEF Loads
    <2> QED
        BY <2>2 DEF p, c
<1>6. CASE p \notin existing /\ c = <<HeaderOf(runtime)>>
    <2>1. Named(c)
        BY <1>3, <1>6 DEF LinesOf
    <2> QED
        BY <1>6, <2>1 DEF p, c
<1>7. CASE c = Append(LinesOf(p), entry)
    <2>1. /\ Loads(c) <=> Loads(LinesOf(p))
          /\ Selected(c, Header) = Selected(LinesOf(p), Header)
        BY <1>2, <1>7, MessageAppended, PromptAppended, WorktreeAppended
    <2>2. Named(c)
        BY <1>3, <2>1
    <2> QED
        BY <1>7, <2>1, <2>2 DEF p, c
<1>8. CASE c = Append(LinesOf(p), Invalid)
    <2>1. ~ Loads(c) /\ Selected(c, Header) = Selected(LinesOf(p), Header)
        BY <1>2, <1>8, InvalidAppended
    <2>2. Named(c)
        BY <1>3, <2>1
    <2> QED
        BY <2>1, <2>2 DEF p, c
<1>9. CASE p \in existing /\ c = Append(Front(lines[p]), Invalid)
    <2>1. Named(lines[p])
        BY <1>3, <1>9 DEF LinesOf
    <2>2. Front(lines[p]) \in Seq(Entries) /\ Named(Front(lines[p]))
        BY <1>2, <2>1, HeadersOfFront
    <2>3. ~ Loads(c) /\ Selected(c, Header) = Selected(Front(lines[p]), Header)
        BY <1>9, <2>2, InvalidAppended
    <2>4. Named(c)
        BY <2>2, <2>3
    <2> QED
        BY <2>3, <2>4 DEF p, c
<1> QED
    BY <1>4, <1>5, <1>6, <1>7, <1>8, <1>9 DEF Outcome, p, c

\* Files stay in order if what is appended fits behind what is there.
LEMMA FilesStayInOrder ==
    ASSUME DiskTypes, runtime \in Runtime, FilesInOrder, Running, SessionIsKnown,
           NEW entry \in Message \cup LastPrompt \cup WorktreeState,
           EntryWritten(entry) \/ EntryFails(entry),
           turns \in Nat, turns' \in Nat, turns <= turns', sessions' = sessions,
           Loads(LinesOf(TranscriptPath)) =>
               LET c == Append(LinesOf(TranscriptPath), entry)
               IN  /\ InOrder(Selected(c, Message)) /\ TurnsUpTo(Selected(c, Message), PromptIn(c))
                   /\ PromptIn(c) <= turns'
    PROVE  FilesInOrder'
<1> DEFINE p == TranscriptPath
<1>1. entry \in Entries
    BY DEF Entries
<1>2. /\ DiskTypes' /\ existing \subseteq existing' /\ existing' \subseteq existing \cup {p}
      /\ \A q \in Paths \ {p} : lines'[q] = lines[q]
      /\ Outcome(entry)
    BY <1>1, WriteOutcome
<1>3. p \in Paths /\ HeaderOf(runtime) \in Header /\ LinesOf(p) \in Seq(Entries)
    BY <1>1, PathIsKnown, WrittenLines
<1>4. existing \subseteq Paths /\ lines \in [Paths -> Seq(Entries)] /\ lines' \in [Paths -> Seq(Entries)]
    BY <1>2 DEF DiskTypes
<1>5. FileInOrder(LinesOf(p), p.session, turns) /\ p.session <= sessions
    BY OwnFile
<1>6. FileInOrder(LinesOf(p), p.session, turns')
    BY <1>3, <1>5, InOrderLater
<1>7. ASSUME p \in existing' PROVE FileInOrder(lines'[p], p.session, turns')
    <2>1. /\ \A i \in 1 .. Len(Selected(lines'[p], Header)) :
                  Selected(lines'[p], Header)[i].session = p.session
          /\ Loads(lines'[p]) => \/ p \in existing /\ lines'[p] = lines[p]
                                 \/ p \notin existing /\ lines'[p] = <<HeaderOf(runtime)>>
                                 \/ /\ lines'[p] = Append(LinesOf(p), entry)
                                    /\ Loads(LinesOf(p))
        BY <1>2, <1>7, WrittenFile
    <2>2. CASE ~ Loads(lines'[p])
        BY <2>1, <2>2 DEF FileInOrder
    <2>3. CASE \/ p \in existing /\ lines'[p] = lines[p]
               \/ p \notin existing /\ lines'[p] = <<HeaderOf(runtime)>>
        <3>1. lines'[p] = LinesOf(p)
            BY <2>3 DEF LinesOf
        <3> QED
            BY <1>6, <3>1
    <2>4. CASE lines'[p] = Append(LinesOf(p), entry) /\ Loads(LinesOf(p))
        BY <2>1, <2>4 DEF FileInOrder
    <2> QED
        BY <2>1, <2>2, <2>3, <2>4
<1>8. ASSUME NEW q \in existing', q # p
      PROVE  q.session <= sessions /\ FileInOrder(lines'[q], q.session, turns')
    <2>1. q \in existing /\ q \in Paths /\ lines'[q] = lines[q] /\ lines[q] \in Seq(Entries)
        BY <1>2, <1>4, <1>8
    <2>2. q.session <= sessions /\ FileInOrder(lines[q], q.session, turns)
        BY <2>1 DEF FilesInOrder
    <2>3. FileInOrder(lines[q], q.session, turns')
        BY <2>1, <2>2, InOrderLater
    <2> QED
        BY <2>1, <2>2, <2>3
<1> HIDE DEF p
<1> QED
    BY <1>5, <1>7, <1>8 DEF FilesInOrder

--------------------------------------------------------------------------------
(***************************************************************************)
(* Starting and ending a process.                                          *)
(***************************************************************************)

\* The bounds are numbers.
LEMMA Bounds ==
    /\ MaxSessions \in Nat /\ MaxSessions > 0 /\ MaxTurns \in Nat /\ MaxTurnMessages \in Nat
    /\ MaxToolCalls \in Nat /\ MaxFaults \in Nat /\ MaxStarts \in Nat
BY SessionAssumption

\* The first state satisfies the invariant.
LEMMA InitInv == SessionInit => SessionInv
<1> SUFFICES ASSUME SessionInit PROVE SessionInv
    OBVIOUS
<1> USE DEF SessionInit
<1>1. DiskTypes
    BY DEF DiskTypes, IsInjective, ToSet
<1>2. runtime \in Runtime
    BY Bounds DEF RuntimeOf, Runtime, Sessions, Roots
<1>3. MemoryTypes
    <2>1. worktrees \in [Worktrees -> {"none", "there", "removed"}] /\ transcript \in Seq(Message)
        OBVIOUS
    <2>2. /\ sessions \in 0 .. MaxSessions /\ turns \in 0 .. MaxTurns
          /\ toolCalls \in 0 .. MaxToolCalls /\ starts \in 0 .. MaxStarts
          /\ faults \in 0 .. MaxFaults /\ lenBefore \in Nat
        BY Bounds
    <2> QED
        BY <1>2, <2>1, <2>2 DEF MemoryTypes, InTurn
<1>4. FilesInOrder /\ SessionIsKnown /\ TurnIsInItsFile /\ SavingIsInStep /\ FileIsTheSession
    BY DEF FilesInOrder, SessionIsKnown, TurnIsInItsFile, SavingIsInStep, FileIsTheSession,
           Running, InTurn
<1> QED
    BY <1>1, <1>3, <1>4 DEF SessionInv

\* While no process runs, nothing but the files has to be in order.
LEMMA DownInv ==
    ASSUME proc = "down", DiskTypes, MemoryTypes, FilesInOrder
    PROVE  SessionInv
BY DEF SessionInv, SessionIsKnown, TurnIsInItsFile, SavingIsInStep, FileIsTheSession, Running,
       InTurn

\* Files that are not written to stay as they are.
LEMMA DiskUntouched ==
    ASSUME SessionInv, UNCHANGED diskVars, turns' = turns, sessions' = sessions
    PROVE  /\ DiskTypes' /\ FilesInOrder'
           /\ existing' = existing /\ lines' = lines /\ unterminated' = unterminated
<1>1. /\ existing' = existing /\ lines' = lines /\ unterminated' = unterminated
      /\ recency' = recency
    BY DEF diskVars
<1> QED
    BY <1>1 DEF SessionInv, DiskTypes, FilesInOrder

\* A new session begins a new file.
LEMMA FreshFile ==
    ASSUME SessionInv, sessions < MaxSessions, sessions' = sessions + 1, turns' = turns,
           NEW content \in {<<>>, <<HeaderOf(FreshRuntime)>>},
           WriteTo(FreshRuntime.transcriptPath, content), UNCHANGED unterminated
    PROVE  /\ FreshRuntime \in Runtime /\ HeaderOf(FreshRuntime) \in Header
           /\ FreshRuntime.transcriptPath \in Paths \ existing
           /\ DiskTypes' /\ FilesInOrder'
           /\ FreshRuntime.transcriptPath \in existing'
           /\ lines'[FreshRuntime.transcriptPath] = content
<1> DEFINE p == FreshRuntime.transcriptPath
           h == HeaderOf(FreshRuntime)
<1>1. /\ DiskTypes /\ FilesInOrder /\ sessions \in Nat /\ turns \in Nat
      /\ sessions + 1 \in Sessions /\ Main \in Roots
    BY Bounds DEF SessionInv, MemoryTypes, Sessions, Roots
<1>2. p = PathOf(Main, sessions + 1) /\ p.session = sessions + 1 /\ p \in Paths
    BY <1>1 DEF FreshRuntime, RuntimeOf, PathOf, Paths
<1>3. FreshRuntime \in Runtime
    BY <1>1, <1>2 DEF FreshRuntime, RuntimeOf, Runtime
<1>4. h \in Header /\ h.session = sessions + 1
    BY <1>1 DEF FreshRuntime, RuntimeOf, HeaderOf, Header
<1> HIDE DEF p, h
<1>5. p \notin existing
    BY <1>1, <1>2 DEF FilesInOrder
<1>6. content \in Seq(Entries)
    <2>1. <<h>> \in Seq(Entries)
        BY <1>4, BeginningLoads
    <2>2. <<>> \in Seq(Entries)
        OBVIOUS
    <2> QED
        BY <2>1, <2>2, Zenon DEF h
<1>7. /\ existing' = existing \cup {p} /\ lines'[p] = content
      /\ existing' \subseteq Paths /\ lines' \in [Paths -> Seq(Entries)]
      /\ \A q \in Paths \ {p} : lines'[q] = lines[q]
      /\ recency' \in Seq(existing') /\ IsInjective(recency') /\ ToSet(recency') = existing'
    BY <1>1, <1>2, <1>6, WriteTypes DEF p
<1>8. DiskTypes'
    BY <1>1, <1>7 DEF DiskTypes
<1>9. ASSUME NEW q \in existing'
      PROVE  q.session <= sessions' /\ FileInOrder(lines'[q], q.session, turns')
    <2>1. CASE q = p
        <3>1. FileInOrder(content, sessions + 1, turns)
            BY <1>1, <1>4, BeginningInOrder DEF h
        <3> QED
            BY <1>1, <1>2, <1>7, <2>1, <3>1
    <2>2. CASE q # p
        <3>1. q \in existing /\ lines'[q] = lines[q] /\ q.session \in Nat
            <4>1. q \in existing /\ q \in Paths
                BY <1>7, <2>2
            <4>2. \A r \in Paths : r.session \in Nat
                BY DEF Paths, Sessions
            <4> QED
                BY <1>7, <2>2, <4>1, <4>2
        <3>2. q.session <= sessions /\ FileInOrder(lines[q], q.session, turns)
            BY <1>1, <3>1 DEF FilesInOrder
        <3>3. q.session <= sessions + 1
            BY <1>1, <3>1, <3>2
        <3> QED
            BY <3>1, <3>2, <3>3
    <2> QED
        BY <2>1, <2>2
<1>10. FilesInOrder'
    BY <1>9 DEF FilesInOrder
<1> QED
    BY <1>2, <1>3, <1>4, <1>5, <1>7, <1>8, <1>10 DEF p, h

\* A fresh session is in its file.
LEMMA StartFreshInv == ASSUME SessionInv, StartFresh PROVE SessionInv'
<1> DEFINE p == FreshRuntime.transcriptPath
           h == HeaderOf(FreshRuntime)
<1>1. /\ sessions < MaxSessions /\ sessions' = sessions + 1 /\ turns' = turns
      /\ WriteTo(p, <<h>>) /\ UNCHANGED unterminated
      /\ runtime' = FreshRuntime /\ proc' = "idle" /\ transcript' = <<>> /\ faithful' = TRUE
      /\ starts < MaxStarts /\ starts' = starts + 1
      /\ UNCHANGED <<worktrees, lenBefore, toolCalls, faults>>
    BY DEF StartFresh, MayStart
<1>2. /\ FreshRuntime \in Runtime /\ h \in Header /\ p \in Paths \ existing
      /\ DiskTypes' /\ FilesInOrder' /\ p \in existing' /\ lines'[p] = <<h>>
    BY <1>1, FreshFile
<1>3. /\ FreshRuntime.session = sessions + 1 /\ FreshRuntime.active = Main
      /\ FreshRuntime.worktree = None /\ FreshRuntime.transcriptPath = PathOf(Main, sessions + 1)
      /\ PathOf(Main, sessions + 1).session = sessions + 1
    BY DEF FreshRuntime, RuntimeOf, PathOf
<1>4. TranscriptPath' = p
    <2>1. p # None
        BY <1>2, SessionAssumption
    <2> QED
        BY <1>1, <2>1 DEF TranscriptPath
<1> HIDE DEF p, h
<1>5. MemoryTypes'
    BY <1>1, <1>2, Bounds DEF SessionInv, MemoryTypes, InTurn
<1>6. SessionIsKnown'
    <2>1. InOrder(<<>>) /\ TurnsUpTo(<<>>, turns)
        BY DEF InOrder, TurnsUpTo
    <2>2. sessions + 1 <= sessions + 1
        BY DEF SessionInv, MemoryTypes
    <2> QED
        BY <1>1, <1>3, <2>1, <2>2 DEF SessionIsKnown
<1>7. TurnIsInItsFile' /\ SavingIsInStep'
    BY <1>1 DEF TurnIsInItsFile, SavingIsInStep, InTurn
<1>8. FileIsTheSession'
    <2>1. OwnLines' = <<h>>
        BY <1>2, <1>4 DEF OwnLines
    <2>2. p \notin unterminated'
        BY <1>1, <1>2 DEF SessionInv, DiskTypes
    <2>3. /\ Loads(<<h>>) /\ Selected(<<h>>, Message) = <<>> /\ WorktreeIn(<<h>>) = None
        BY <1>2, BeginningLoads
    <2> QED
        BY <1>1, <1>2, <1>3, <1>4, <2>1, <2>2, <2>3 DEF FileIsTheSession
<1> QED
    BY <1>2, <1>5, <1>6, <1>7, <1>8 DEF SessionInv

\* A session that could not begin leaves a file without lines and no process.
LEMMA StartFreshFailsInv == ASSUME SessionInv, StartFreshFails PROVE SessionInv'
<1>1. /\ proc = "down" /\ sessions < MaxSessions /\ sessions' = sessions + 1 /\ turns' = turns
      /\ WriteTo(FreshRuntime.transcriptPath, <<>>) /\ UNCHANGED unterminated
      /\ starts < MaxStarts /\ starts' = starts + 1 /\ faults < MaxFaults /\ faults' = faults + 1
      /\ UNCHANGED <<worktrees, proc, memoryVars, toolCalls, faithful>>
    BY DEF StartFreshFails, MayStart
<1>2. DiskTypes' /\ FilesInOrder'
    BY <1>1, FreshFile
<1>3. MemoryTypes'
    BY <1>1, Bounds DEF SessionInv, MemoryTypes, InTurn, memoryVars
<1>4. proc' = "down"
    BY <1>1
<1> QED
    BY <1>2, <1>3, <1>4 DEF SessionInv, SessionIsKnown, TurnIsInItsFile, SavingIsInStep,
                            FileIsTheSession, Running, InTurn

\* The process that ends leaves its files in order.
LEMMA ProcessEndsInv == ASSUME SessionInv, ProcessEnds PROVE SessionInv'
<1>1. /\ proc' = "down" /\ transcript' = <<>> /\ UNCHANGED diskVars
      /\ UNCHANGED <<worktrees, runtime, lenBefore, counters, faults, faithful>>
    BY DEF ProcessEnds
<1>2. DiskTypes' /\ FilesInOrder'
    BY <1>1, DiskUntouched DEF counters
<1>3. MemoryTypes'
    BY <1>1 DEF SessionInv, MemoryTypes, InTurn, counters
<1> QED
    BY <1>1, <1>2, <1>3 DEF SessionInv, SessionIsKnown, TurnIsInItsFile, SavingIsInStep,
                            FileIsTheSession, Running, InTurn

\* What a file that loads gives to a restored session is of its type, and of the file's session.
LEMMA LoadedFile ==
    ASSUME SessionInv, NEW p \in existing, Loadable(p)
    PROVE  /\ p \in Paths /\ Loads(lines[p])
           /\ SavedHeader(p) = LastIn(lines[p], Header, None) /\ SavedHeader(p) \in Header
           /\ SavedHeader(p).session = p.session /\ p.session <= sessions
           /\ SavedWorktree(p) = WorktreeIn(lines[p])
           /\ SavedWorktree(p) \in Worktrees \cup {None}
           /\ SavedRoot(p) \in Roots
           /\ SavedWorktree(p) # None => SavedRoot(p) = SavedWorktree(p)
           /\ SavedWorktree(p) = None => SavedRoot(p) = SavedHeader(p).root
           /\ Messages(p) = Selected(lines[p], Message) /\ Messages(p) \in Seq(Message)
           /\ InOrder(Messages(p)) /\ TurnsUpTo(Messages(p), turns)
<1>1. /\ p \in Paths /\ lines[p] \in Seq(Entries) /\ p.session <= sessions
      /\ FileInOrder(lines[p], p.session, turns) /\ turns \in Nat
    BY Bounds DEF SessionInv, DiskTypes, FilesInOrder, MemoryTypes
<1>2. Loads(lines[p])
    BY DEF Loadable, OfType, Loads
<1>3. /\ SavedHeader(p) = LastIn(lines[p], Header, None)
      /\ SavedWorktree(p) = WorktreeIn(lines[p])
      /\ Messages(p) = Selected(lines[p], Message)
    BY DEF SavedHeader, SavedWorktree, Messages, LastOf, OfType, LastIn, WorktreeIn
<1>4. /\ Selected(lines[p], Header) \in Seq(Header)
      /\ Selected(lines[p], WorktreeState) \in Seq(WorktreeState)
      /\ Selected(lines[p], Message) \in Seq(Message)
    BY <1>1, SelectedKinds
<1>5. SavedHeader(p) \in Header /\ SavedHeader(p).session = p.session
    <2> DEFINE hs == Selected(lines[p], Header)
    <2>1. hs # <<>> /\ hs \in Seq(Header) /\ SavedHeader(p) = Last(hs)
        BY <1>2, <1>3, <1>4 DEF Loads, LastIn
    <2>2. \A i \in 1 .. Len(hs) : hs[i].session = p.session
        BY <1>1 DEF FileInOrder
    <2> HIDE DEF hs
    <2>3. Len(hs) \in 1 .. Len(hs) /\ Last(hs) = hs[Len(hs)]
        BY <2>1 DEF Last
    <2> QED
        BY <2>1, <2>2, <2>3
<1>6. SavedWorktree(p) \in Worktrees \cup {None}
    <2> DEFINE ws == Selected(lines[p], WorktreeState)
    <2>1. WorktreeIn(lines[p]) = (IF ws = <<>> THEN [state |-> None] ELSE Last(ws)).state
        BY Zenon DEF WorktreeIn, LastIn
    <2>2. ws \in Seq(WorktreeState)
        BY <1>4
    <2> HIDE DEF ws
    <2>3. ws # <<>> => Last(ws).state \in Worktrees \cup {None}
        <3>1. ws # <<>> => Last(ws) \in WorktreeState
            BY <2>2 DEF Last
        <3> QED
            BY <3>1 DEF WorktreeState
    <2> QED
        BY <1>3, <2>1, <2>3
<1>7. SavedRoot(p) \in Roots
    <2>1. SavedHeader(p).root \in Roots
        BY <1>5 DEF Header
    <2> QED
        BY <1>6, <2>1 DEF SavedRoot, Roots
<1>8. InOrder(Messages(p)) /\ TurnsUpTo(Messages(p), turns)
    <2>1. /\ InOrder(Messages(p)) /\ TurnsUpTo(Messages(p), PromptIn(lines[p]))
          /\ PromptIn(lines[p]) <= turns /\ PromptIn(lines[p]) \in Nat
        BY <1>1, <1>2, <1>3, PromptIsNumber DEF FileInOrder
    <2>2. \A i \in 1 .. Len(Messages(p)) : Messages(p)[i].turn \in Nat
        <3>1. \A i \in 1 .. Len(Messages(p)) : Messages(p)[i] \in Message
            BY <1>3, <1>4
        <3> QED
            BY <3>1 DEF Message
    <2> QED
        BY <1>1, <2>1, <2>2 DEF TurnsUpTo
<1>9. /\ SavedWorktree(p) # None => SavedRoot(p) = SavedWorktree(p)
      /\ SavedWorktree(p) = None => SavedRoot(p) = SavedHeader(p).root
    BY DEF SavedRoot
<1> QED
    BY <1>1, <1>2, <1>3, <1>4, <1>5, <1>6, <1>7, <1>8, <1>9

\* A restored process has what the file it was restored from holds, if it writes to that file.
LEMMA RestoreInv ==
    ASSUME SessionInv, NEW p \in existing, Loadable(p), NEW path \in {p, None}, Restore(p, path),
           proc' = "idle", starts' \in 0 .. MaxStarts, faithful' \in BOOLEAN,
           faithful' => p \notin unterminated /\ (path = None => p.root = SavedRoot(p))
    PROVE  SessionInv'
<1>1. /\ runtime' = RuntimeOf(SavedHeader(p).session, SavedRoot(p), SavedWorktree(p), path)
      /\ transcript' = Messages(p) /\ UNCHANGED diskVars
      /\ UNCHANGED <<worktrees, lenBefore, sessions, turns, toolCalls, faults>>
    BY DEF Restore
<1>2. /\ DiskTypes' /\ FilesInOrder'
      /\ existing' = existing /\ lines' = lines /\ unterminated' = unterminated
    BY <1>1, DiskUntouched
<1>3. /\ p \in Paths /\ Loads(lines[p])
      /\ SavedHeader(p) = LastIn(lines[p], Header, None) /\ SavedHeader(p) \in Header
      /\ SavedHeader(p).session = p.session /\ p.session <= sessions
      /\ SavedWorktree(p) = WorktreeIn(lines[p]) /\ SavedWorktree(p) \in Worktrees \cup {None}
      /\ SavedRoot(p) \in Roots
      /\ SavedWorktree(p) # None => SavedRoot(p) = SavedWorktree(p)
      /\ SavedWorktree(p) = None => SavedRoot(p) = SavedHeader(p).root
      /\ Messages(p) = Selected(lines[p], Message) /\ Messages(p) \in Seq(Message)
      /\ InOrder(Messages(p)) /\ TurnsUpTo(Messages(p), turns)
    BY LoadedFile
<1>4. /\ runtime'.session = p.session /\ runtime'.active = SavedRoot(p)
      /\ runtime'.worktree = SavedWorktree(p) /\ runtime'.transcriptPath = path
    BY <1>1, <1>3 DEF RuntimeOf
<1>5. runtime' \in Runtime
    <2>1. p.session \in Sessions
        BY <1>3 DEF Paths
    <2> QED
        BY <1>1, <1>3, <2>1 DEF RuntimeOf, Runtime
<1>6. MemoryTypes'
    BY <1>1, <1>3, <1>5 DEF SessionInv, MemoryTypes, InTurn
<1>7. SessionIsKnown'
    BY <1>1, <1>3, <1>4 DEF SessionIsKnown
<1>8. TurnIsInItsFile' /\ SavingIsInStep'
    BY DEF TurnIsInItsFile, SavingIsInStep, InTurn
<1>9. ASSUME faithful' PROVE TranscriptPath' = p
    <2>1. CASE path = None
        <3>1. p.root = SavedRoot(p)
            BY <1>9, <2>1
        <3>2. TranscriptPath' = PathOf(SavedRoot(p), p.session)
            BY <1>4, <2>1 DEF TranscriptPath
        <3>3. p = PathOf(p.root, p.session)
            BY <1>3 DEF Paths, PathOf
        <3> QED
            BY <3>1, <3>2, <3>3
    <2>2. CASE path # None
        BY <1>4, <2>2 DEF TranscriptPath
    <2> QED
        BY <2>1, <2>2
<1>10. FileIsTheSession'
    <2> SUFFICES ASSUME faithful' PROVE FileIsTheSession'
        BY DEF FileIsTheSession
    <2>1. TranscriptPath' = p /\ OwnLines' = lines[p] /\ p \notin unterminated'
        BY <1>2, <1>9 DEF OwnLines
    <2> QED
        BY <1>1, <1>2, <1>3, <1>4, <2>1 DEF FileIsTheSession
<1> QED
    BY <1>2, <1>6, <1>7, <1>8, <1>10 DEF SessionInv

\* Every way to find a file finds one that loads.
LEMMA FoundFilesLoad ==
    ASSUME NEW active, NEW p \in existing, ContinueFinds(active, p) \/ ResumeFinds(active, p)
    PROVE  Loadable(p)
<1>1. CASE ContinueFinds(active, p)
    BY <1>1 DEF ContinueFinds, ListingWorks
<1>2. CASE PathFinds(p)
    BY <1>2 DEF PathFinds
<1>3. CASE ExactFinds(active, p)
    BY <1>3 DEF ExactFinds
<1>4. CASE SearchFinds(active, p)
    BY <1>4 DEF SearchFinds, OnlyMatch, ListingWorks
<1> QED
    BY <1>1, <1>2, <1>3, <1>4 DEF ResumeFinds

\* A process that continues or resumes a session at its start.
LEMMA StartRestoredInv == ASSUME SessionInv, StartContinue \/ StartResume PROVE SessionInv'
<1>1. PICK p \in existing : StartRestored(p) /\ (ContinueFinds(Main, p) \/ ResumeFinds(Main, p))
    BY DEF StartContinue, StartResume
<1>2. Loadable(p)
    BY <1>1, FoundFilesLoad
<1>3. /\ starts < MaxStarts /\ starts' = starts + 1 /\ Restore(p, p) /\ proc' = "idle"
      /\ faithful' = (p \notin unterminated)
    BY <1>1 DEF StartRestored, MayStart
<1>4. starts' \in 0 .. MaxStarts
    BY <1>3, Bounds DEF SessionInv, MemoryTypes
<1>5. p # None
    BY SessionAssumption DEF SessionInv, DiskTypes
<1>6. /\ faithful' \in BOOLEAN
      /\ faithful' => p \notin unterminated /\ (p = None => p.root = SavedRoot(p))
    BY <1>3, <1>5
<1> QED
    BY <1>2, <1>3, <1>4, <1>6, RestoreInv

\* /resume in the REPL.
LEMMA ReplResumeInv == ASSUME SessionInv, ReplResume PROVE SessionInv'
<1>1. PICK p \in existing : /\ ResumeFinds(runtime.active, p) /\ Restore(p, None)
                            /\ faithful' = (p \notin unterminated /\ p.root = SavedRoot(p))
    BY DEF ReplResume
<1>2. Loadable(p)
    BY <1>1, FoundFilesLoad
<1>3. proc' = "idle" /\ starts' \in 0 .. MaxStarts
    BY DEF ReplResume, SessionInv, MemoryTypes
<1>4. /\ faithful' \in BOOLEAN
      /\ faithful' => p \notin unterminated /\ (None = None => p.root = SavedRoot(p))
    BY <1>1
<1> QED
    BY <1>1, <1>2, <1>3, <1>4, RestoreInv

--------------------------------------------------------------------------------
(***************************************************************************)
(* The steps of a turn that write nothing.                                 *)
(***************************************************************************)

\* The path of a process in a turn does not depend on its root.
LEMMA PathStays ==
    ASSUME runtime.transcriptPath # None, runtime'.transcriptPath = runtime.transcriptPath
    PROVE  TranscriptPath' = TranscriptPath /\ TranscriptPath = runtime.transcriptPath
BY DEF TranscriptPath

\* A message has a turn and a place in it.
LEMMA MessageTypes ==
    ASSUME NEW ms \in Seq(Message)
    PROVE  /\ Len(ms) \in Nat
           /\ \A i \in 1 .. Len(ms) : ms[i] \in Message /\ ms[i].turn \in Nat /\ ms[i].index \in Nat
<1>1. Len(ms) \in Nat /\ \A i \in 1 .. Len(ms) : ms[i] \in Message
    OBVIOUS
<1> QED
    BY <1>1 DEF Message

\* The engine appends a message of the turn.
LEMMA EngineAppendsInv == ASSUME SessionInv, EngineAppends PROVE SessionInv'
<1> DEFINE index == Len(transcript) - lenBefore + 1
<1>1. /\ proc = "turn" /\ index <= MaxTurnMessages
      /\ UNCHANGED diskVars
      /\ UNCHANGED <<worktrees, proc, runtime, lenBefore, counters, faults, faithful>>
    BY DEF EngineAppends
<1>2. PICK kind \in IF index = 1 THEN {"User"} ELSE {"Assistant", "Tool"} :
          transcript' = Append(transcript, [type |-> "message", kind |-> kind, turn |-> turns,
                                            index |-> index])
    BY DEF EngineAppends
<1> DEFINE m == [type |-> "message", kind |-> kind, turn |-> turns, index |-> index]
<1>3. /\ MemoryTypes /\ SessionIsKnown /\ TurnIsInItsFile /\ SavingIsInStep /\ FileIsTheSession
      /\ transcript \in Seq(Message) /\ Len(transcript) \in Nat /\ lenBefore \in Nat
      /\ lenBefore <= Len(transcript) /\ turns \in Nat /\ turns > 0 /\ turns <= MaxTurns
      /\ runtime.transcriptPath # None
      /\ InOrder(transcript) /\ TurnsUpTo(transcript, turns)
      /\ \A i \in lenBefore + 1 .. Len(transcript) : transcript[i].turn = turns
      /\ \A i \in lenBefore + 1 .. Len(transcript) : transcript[i].index = i - lenBefore
      /\ NothingSaved
    BY <1>1, Bounds DEF SessionInv, MemoryTypes, SessionIsKnown, TurnIsInItsFile, SavingIsInStep,
                        InTurn, Running
<1>4. /\ m \in Message /\ (m.kind = "User" <=> m.index = 1)
      /\ m.turn = turns /\ m.index = index
    <2>1. index \in 1 .. MaxTurnMessages /\ turns \in 1 .. MaxTurns
        BY <1>1, <1>3, Bounds
    <2> HIDE DEF index
    <2> QED
        BY <2>1, <1>2 DEF Message
<1> HIDE DEF m
<1>5. /\ transcript' = Append(transcript, m) /\ transcript' \in Seq(Message)
      /\ Len(transcript') = Len(transcript) + 1 /\ transcript'[Len(transcript) + 1] = m
      /\ \A i \in 1 .. Len(transcript) : transcript'[i] = transcript[i]
    <2>1. transcript' = Append(transcript, m)
        BY <1>2 DEF m
    <2>2. transcript \in Seq(Message) /\ m \in Message
        BY <1>3, <1>4
    <2> QED
        BY <2>1, <2>2, LastAppended
<1>6. InOrder(transcript')
    <2>1. CASE index = 1
        <3>1. lenBefore = Len(transcript)
            BY <1>3, <2>1
        <3>2. TurnsBelow(transcript, m.turn)
            BY <1>3, <1>4, <3>1 DEF TurnsBelow, NothingSaved
        <3> QED
            BY <1>3, <1>4, <1>5, <2>1, <3>2, OrderedAppend
    <2>2. CASE index # 1
        <3>1. Len(transcript) \in lenBefore + 1 .. Len(transcript) /\ transcript # <<>>
            BY <1>3, <2>2
        <3>2. /\ Last(transcript).turn = m.turn
              /\ Last(transcript).index = m.index - 1
            BY <1>3, <1>4, <3>1 DEF Last
        <3> QED
            BY <1>3, <1>4, <1>5, <2>2, <3>1, <3>2, OrderedAppend
    <2> QED
        BY <2>1, <2>2
<1>7. \A i \in 1 .. Len(transcript') : i \in 1 .. Len(transcript) \/ i = Len(transcript) + 1
    BY <1>3, <1>5
<1>8. /\ DiskTypes' /\ FilesInOrder'
      /\ existing' = existing /\ lines' = lines /\ unterminated' = unterminated
    BY <1>1, DiskUntouched DEF counters
<1>9. MemoryTypes'
    <2>1. lenBefore <= Len(transcript')
        BY <1>3, <1>5
    <2> QED
        BY <1>1, <1>3, <1>5, <2>1 DEF MemoryTypes, InTurn, counters
<1>10. SessionIsKnown'
    <2>1. TurnsUpTo(transcript', turns)
        BY <1>3, <1>4, <1>5, <1>7 DEF TurnsUpTo
    <2> QED
        BY <1>1, <1>3, <1>6, <2>1 DEF SessionIsKnown, Running, counters
<1>11. TranscriptPath' = TranscriptPath /\ OwnLines' = OwnLines
    BY <1>1, <1>3, <1>8, PathStays DEF OwnLines
<1>12. TurnIsInItsFile'
    <2>1. \A i \in lenBefore + 1 .. Len(transcript') : transcript'[i].turn = turns
        <3>1. \A i \in lenBefore + 1 .. Len(transcript') :
                  i = Len(transcript) + 1
                  \/ (i \in lenBefore + 1 .. Len(transcript) /\ i \in 1 .. Len(transcript))
            BY <1>3, <1>5
        <3> QED
            BY <1>3, <1>4, <1>5, <3>1
    <2> QED
        BY <1>1, <1>3, <1>8, <1>11, <2>1 DEF TurnIsInItsFile, InTurn, counters
<1>13. SavingIsInStep'
    <2>1. \A i \in lenBefore + 1 .. Len(transcript') : transcript'[i].index = i - lenBefore
        <3>1. \A i \in lenBefore + 1 .. Len(transcript') :
                  i = Len(transcript) + 1
                  \/ (i \in lenBefore + 1 .. Len(transcript) /\ i \in 1 .. Len(transcript))
            BY <1>3, <1>5
        <3>2. (Len(transcript) + 1) - lenBefore = index
            BY <1>3
        <3> HIDE DEF index
        <3> QED
            BY <1>3, <1>4, <1>5, <3>1, <3>2
    <2>2. \A i \in 1 .. lenBefore : transcript'[i].turn < turns
        <3>1. \A i \in 1 .. lenBefore : i \in 1 .. Len(transcript)
            BY <1>3
        <3> QED
            BY <1>3, <1>5, <3>1 DEF NothingSaved
    <2>3. NothingSaved'
        BY <1>1, <1>3, <1>11, <2>2 DEF NothingSaved, counters
    <2> QED
        BY <1>1, <2>1, <2>3 DEF SavingIsInStep
<1>14. FileIsTheSession'
    <2>1. SubSeq(transcript', 1, lenBefore) = SubSeq(transcript, 1, lenBefore)
        <3>1. \A i \in 1 .. lenBefore : i \in 1 .. Len(transcript)
            BY <1>3
        <3> QED
            BY <1>3, <1>5, <3>1
    <2> QED
        BY <1>1, <1>3, <1>8, <1>11, <2>1 DEF FileIsTheSession, Running
<1> QED
    BY <1>8, <1>9, <1>10, <1>12, <1>13, <1>14 DEF SessionInv

\* A worktree tool moves the runtime; the file stays the same.
LEMMA ToolCallInv ==
    ASSUME SessionInv, ToolCall, runtime' \in Runtime,
           worktrees' \in [Worktrees -> {"none", "there", "removed"}],
           runtime'.session = runtime.session, runtime'.transcriptPath = runtime.transcriptPath,
           runtime'.worktree # None => runtime'.active = runtime'.worktree,
           runtime'.worktree = None =>
               runtime'.active = Main \/ (runtime.worktree = None /\ runtime'.active = runtime.active)
    PROVE  SessionInv'
<1>1. /\ proc = "turn" /\ proc' = "tool" /\ toolCalls < MaxToolCalls /\ toolCalls' = toolCalls + 1
      /\ UNCHANGED diskVars
      /\ UNCHANGED <<transcript, lenBefore, sessions, turns, starts, faults, faithful>>
    BY DEF ToolCall
<1>2. /\ DiskTypes' /\ FilesInOrder'
      /\ existing' = existing /\ lines' = lines /\ unterminated' = unterminated
    BY <1>1, DiskUntouched
<1>3. /\ MemoryTypes /\ SessionIsKnown /\ TurnIsInItsFile /\ SavingIsInStep /\ FileIsTheSession
      /\ runtime.transcriptPath # None
    BY <1>1 DEF SessionInv, TurnIsInItsFile, InTurn
<1>4. TranscriptPath' = TranscriptPath /\ OwnLines' = OwnLines
    BY <1>2, <1>3, PathStays DEF OwnLines
<1>5. MemoryTypes'
    BY <1>1, <1>3, Bounds DEF MemoryTypes, InTurn
<1>6. SessionIsKnown'
    BY <1>1, <1>3 DEF SessionIsKnown, Running
<1>7. TurnIsInItsFile'
    BY <1>1, <1>2, <1>3, <1>4 DEF TurnIsInItsFile, InTurn
<1>8. SavingIsInStep'
    BY <1>1, <1>3, <1>4 DEF SavingIsInStep, NothingSaved
<1>9. FileIsTheSession'
    BY <1>1, <1>2, <1>3, <1>4 DEF FileIsTheSession, Running
<1> QED
    BY <1>2, <1>5, <1>6, <1>7, <1>8, <1>9 DEF SessionInv

\* A worktree that is entered is the root, until it is left for Main.
LEMMA EnterWorktreeInv == ASSUME SessionInv, EnterWorktree PROVE SessionInv'
<1>1. PICK w \in Worktrees : /\ CreateWorktree(w)
                             /\ runtime' = [runtime EXCEPT !.active = w, !.worktree = w]
    BY DEF EnterWorktree
<1>2. ToolCall /\ runtime \in Runtime /\ worktrees \in [Worktrees -> {"none", "there", "removed"}]
    BY DEF EnterWorktree, SessionInv, MemoryTypes
<1>3. worktrees' \in [Worktrees -> {"none", "there", "removed"}]
    BY <1>1, <1>2 DEF CreateWorktree
<1>4. /\ runtime' \in Runtime /\ runtime'.session = runtime.session
      /\ runtime'.transcriptPath = runtime.transcriptPath
      /\ runtime'.active = w /\ runtime'.worktree = w
    BY <1>1, <1>2 DEF Runtime, Roots
<1>5. w # None
    BY SessionAssumption
<1> QED
    BY <1>2, <1>3, <1>4, <1>5, ToolCallInv

\* Without a worktree the root was Main, or where the file leads.
LEMMA ExitWorktreeInv == ASSUME SessionInv, ExitWorktree PROVE SessionInv'
<1>1. /\ ToolCall /\ runtime \in Runtime /\ worktrees \in [Worktrees -> {"none", "there", "removed"}]
      /\ runtime.worktree # None => runtime.active = runtime.worktree
    BY DEF ExitWorktree, ToolCall, SessionInv, MemoryTypes, SessionIsKnown, Running
<1>2. worktrees' \in [Worktrees -> {"none", "there", "removed"}]
    BY <1>1 DEF ExitWorktree, RemoveWorktree
<1>3. CASE runtime.worktree = None
    <2>1. runtime' = runtime
        BY <1>3 DEF ExitWorktree
    <2> QED
        BY <1>1, <1>2, <1>3, <2>1, ToolCallInv
<1>4. CASE runtime.worktree # None
    <2>1. runtime' = [runtime EXCEPT !.active = Main, !.worktree = None]
        BY <1>4 DEF ExitWorktree
    <2>2. /\ runtime' \in Runtime /\ runtime'.session = runtime.session
          /\ runtime'.transcriptPath = runtime.transcriptPath
          /\ runtime'.active = Main /\ runtime'.worktree = None
        BY <1>1, <2>1 DEF Runtime, Roots
    <2> QED
        BY <1>1, <1>2, <2>2, ToolCallInv
<1> QED
    BY <1>3, <1>4

\* What a turn and its end leave alone stays in the invariant.
LEMMA TurnEndsInv == ASSUME SessionInv, TurnEnds \/ TurnSaved PROVE SessionInv'
<1>1. /\ UNCHANGED diskVars
      /\ UNCHANGED <<worktrees, memoryVars, counters, faults, faithful>>
      /\ \/ proc = "turn" /\ proc' = "saving"
         \/ proc = "saving" /\ proc' = "idle" /\ lenBefore = Len(transcript)
    BY DEF TurnEnds, TurnSaved
<1>2. /\ DiskTypes' /\ FilesInOrder'
      /\ existing' = existing /\ lines' = lines /\ unterminated' = unterminated
    BY <1>1, DiskUntouched DEF counters
<1>3. /\ MemoryTypes /\ SessionIsKnown /\ TurnIsInItsFile /\ SavingIsInStep /\ FileIsTheSession
      /\ runtime.transcriptPath # None /\ transcript \in Seq(Message)
    BY <1>1 DEF SessionInv, TurnIsInItsFile, InTurn, MemoryTypes
<1>4. TranscriptPath' = TranscriptPath /\ OwnLines' = OwnLines
    BY <1>1, <1>2 DEF OwnLines, TranscriptPath, memoryVars
<1>5. MemoryTypes'
    BY <1>1, <1>3 DEF MemoryTypes, InTurn, memoryVars, counters
<1>6. SessionIsKnown'
    BY <1>1, <1>3 DEF SessionIsKnown, Running, memoryVars, counters
<1>7. TurnIsInItsFile'
    BY <1>1, <1>2, <1>3, <1>4 DEF TurnIsInItsFile, InTurn, memoryVars, counters
<1>8. SavingIsInStep'
    BY <1>1, <1>3, <1>4 DEF SavingIsInStep, NothingSaved, memoryVars, counters
<1>9. FileIsTheSession'
    <2>1. SubSeq(transcript, 1, Len(transcript)) = transcript
        BY <1>3
    <2> QED
        BY <1>1, <1>2, <1>3, <1>4, <2>1 DEF FileIsTheSession, Running, memoryVars
<1> QED
    BY <1>2, <1>5, <1>6, <1>7, <1>8, <1>9 DEF SessionInv

--------------------------------------------------------------------------------
(***************************************************************************)
(* The steps that write.                                                   *)
(***************************************************************************)

\* An entry that was written is behind the lines, or made them unreadable.
LEMMA WrittenExactly ==
    ASSUME DiskTypes, runtime \in Runtime, NEW entry \in Entries, EntryWritten(entry)
    PROVE  /\ TranscriptPath \in existing' \ unterminated'
           /\ TranscriptPath \notin unterminated =>
                  lines'[TranscriptPath] = Append(LinesOf(TranscriptPath), entry)
           /\ TranscriptPath \in unterminated => ~ Loads(lines'[TranscriptPath])
           /\ faults' = faults /\ faithful' = faithful
<1> DEFINE p == TranscriptPath
<1>1. /\ WriteTo(p, LinesWith(p, entry)) /\ unterminated' = unterminated \ {p}
      /\ faults' = faults /\ faithful' = faithful
    BY DEF EntryWritten
<1>2. p \in Paths /\ LinesWith(p, entry) \in Seq(Entries) /\ lines[p] \in Seq(Entries)
    BY PathIsKnown, WrittenLines DEF DiskTypes
<1> HIDE DEF p
<1>3. p \in existing' /\ lines'[p] = LinesWith(p, entry)
    BY <1>1, <1>2, WriteTypes
<1>4. Front(lines[p]) \in Seq(Entries)
    BY <1>2 DEF Front
<1>5. ~ Loads(Append(Front(lines[p]), Invalid))
    BY <1>4, InvalidAppended
<1> QED
    BY <1>1, <1>3, <1>5 DEF LinesWith, LinesOf, p

\* Writing leaves the process on its session and on the same file.
LEMMA WriterStays ==
    ASSUME SessionInv, Running, runtime' = [runtime EXCEPT !.transcriptPath = TranscriptPath]
    PROVE  /\ runtime' \in Runtime /\ TranscriptPath' = TranscriptPath
           /\ runtime'.transcriptPath = TranscriptPath /\ runtime'.transcriptPath # None
           /\ runtime'.transcriptPath.session = runtime'.session
           /\ runtime'.session = runtime.session /\ runtime'.active = runtime.active
           /\ runtime'.worktree = runtime.worktree
<1>1. runtime \in Runtime
    BY DEF SessionInv, MemoryTypes
<1>2. /\ TranscriptPath \in Paths /\ TranscriptPath # None
      /\ runtime' \in Runtime /\ runtime'.transcriptPath = TranscriptPath
      /\ runtime'.session = runtime.session /\ runtime'.active = runtime.active
      /\ runtime'.worktree = runtime.worktree
    BY <1>1, PathIsKnown
<1>3. TranscriptPath' = TranscriptPath
    BY <1>2 DEF TranscriptPath
<1>4. TranscriptPath.session = runtime.session
    BY DEF SessionInv, SessionIsKnown, TranscriptPath, PathOf
<1> QED
    BY <1>2, <1>3, <1>4

\* A process keeps its session, and its transcript in order, while more prompts come.
LEMMA StillKnown ==
    ASSUME SessionInv, Running, runtime' = [runtime EXCEPT !.transcriptPath = TranscriptPath],
           transcript' = transcript, sessions' = sessions, turns' \in Nat, turns <= turns'
    PROVE  SessionIsKnown'
<1>1. /\ SessionIsKnown /\ transcript \in Seq(Message) /\ turns \in Nat
    BY Bounds DEF SessionInv, MemoryTypes
<1>2. TurnsUpTo(transcript, turns')
    BY <1>1, MessageTypes DEF SessionIsKnown, TurnsUpTo
<1> QED
    BY <1>1, <1>2, WriterStays DEF SessionIsKnown

\* A prompt fits behind the lines of a session.
LEMMA PromptFits ==
    ASSUME SessionInv, Running, turns < MaxTurns
    PROVE  /\ Prompt \in LastPrompt /\ Prompt.turn = turns + 1
           /\ LinesOf(TranscriptPath) \in Seq(Entries)
           /\ Loads(LinesOf(TranscriptPath)) =>
                  LET c == Append(LinesOf(TranscriptPath), Prompt)
                  IN  /\ InOrder(Selected(c, Message))
                      /\ TurnsUpTo(Selected(c, Message), PromptIn(c))
                      /\ TurnsBelow(Selected(c, Message), turns + 1)
                      /\ PromptIn(c) = turns + 1
<1> DEFINE d == LinesOf(TranscriptPath)
           ms == Selected(d, Message)
<1>1. /\ DiskTypes /\ runtime \in Runtime /\ FilesInOrder /\ SessionIsKnown /\ turns \in Nat
    BY Bounds DEF SessionInv, MemoryTypes
<1>2. Prompt \in LastPrompt /\ Prompt.turn = turns + 1
    BY <1>1, Bounds DEF Prompt, LastPrompt
<1>3. d \in Seq(Entries)
    <2>1. TranscriptPath \in Paths /\ Invalid \in Entries
        BY <1>1, PathIsKnown DEF Entries
    <2> QED
        BY <1>1, <2>1, WrittenLines
<1>4. FileInOrder(d, TranscriptPath.session, turns)
    BY <1>1, OwnFile
<1> HIDE DEF d
<1>5. /\ Selected(Append(d, Prompt), Message) = ms /\ PromptIn(Append(d, Prompt)) = turns + 1
    BY <1>2, <1>3, PromptAppended
<1>6. ASSUME Loads(d) PROVE InOrder(ms) /\ TurnsUpTo(ms, turns + 1) /\ TurnsBelow(ms, turns + 1)
    <2>1. InOrder(ms) /\ TurnsUpTo(ms, PromptIn(d)) /\ PromptIn(d) <= turns
        BY <1>4, <1>6 DEF FileInOrder
    <2>2. ms \in Seq(Message) /\ PromptIn(d) \in Nat
        BY <1>3, SelectedKinds, PromptIsNumber
    <2> HIDE DEF ms
    <2>3. \A i \in 1 .. Len(ms) : ms[i].turn \in Nat
        BY <2>2, MessageTypes
    <2>4. \A i \in 1 .. Len(ms) : ms[i].turn <= turns
        BY <1>1, <2>1, <2>2, <2>3 DEF TurnsUpTo
    <2> QED
        BY <1>1, <2>1, <2>3, <2>4 DEF TurnsUpTo, TurnsBelow
<1> QED
    BY <1>2, <1>3, <1>5, <1>6 DEF d

\* A prompt that is saved begins a turn of which nothing is in the file.
LEMMA SubmitPromptInv == ASSUME SessionInv, SubmitPrompt PROVE SessionInv'
<1> DEFINE p == TranscriptPath
           c == Append(LinesOf(TranscriptPath), Prompt)
<1>1. /\ proc = "idle" /\ proc' = "turn" /\ turns < MaxTurns /\ turns' = turns + 1
      /\ lenBefore' = Len(transcript) /\ EntryWritten(Prompt)
      /\ UNCHANGED <<worktrees, transcript, sessions, toolCalls, starts>>
    BY DEF SubmitPrompt
<1>2. /\ DiskTypes /\ MemoryTypes /\ FilesInOrder /\ SessionIsKnown /\ FileIsTheSession
      /\ runtime \in Runtime /\ turns \in Nat /\ transcript \in Seq(Message)
      /\ Len(transcript) \in Nat /\ Running
    BY <1>1, Bounds DEF SessionInv, MemoryTypes, Running
<1>3. /\ Prompt \in LastPrompt /\ Prompt \in Entries /\ LinesOf(p) \in Seq(Entries)
      /\ Loads(LinesOf(p)) => /\ InOrder(Selected(c, Message))
                              /\ TurnsUpTo(Selected(c, Message), PromptIn(c))
                              /\ TurnsBelow(Selected(c, Message), turns + 1)
                              /\ PromptIn(c) = turns + 1
    BY <1>1, <1>2, PromptFits DEF Entries
<1>4. /\ DiskTypes' /\ runtime' = [runtime EXCEPT !.transcriptPath = p]
    BY <1>1, <1>2, <1>3, WriteOutcome
<1>5. /\ p \in existing' \ unterminated'
      /\ p \notin unterminated => lines'[p] = c
      /\ p \in unterminated => ~ Loads(lines'[p])
      /\ faults' = faults /\ faithful' = faithful
    BY <1>1, <1>2, <1>3, WrittenExactly
<1>6. /\ runtime' \in Runtime /\ TranscriptPath' = p /\ runtime'.transcriptPath # None
      /\ runtime'.active = runtime.active /\ runtime'.worktree = runtime.worktree
    BY <1>2, <1>4, WriterStays
<1>7. /\ Loads(c) <=> Loads(LinesOf(p))
      /\ Selected(c, Message) = Selected(LinesOf(p), Message)
      /\ WorktreeIn(c) = WorktreeIn(LinesOf(p))
      /\ LastIn(c, Header, None) = LastIn(LinesOf(p), Header, None)
    BY <1>3, PromptAppended
<1>8. FilesInOrder'
    <2>1. /\ turns' \in Nat /\ turns <= turns' /\ sessions' = sessions
          /\ Prompt \in Message \cup LastPrompt \cup WorktreeState
        BY <1>1, <1>2, <1>3
    <2>2. Loads(LinesOf(p)) => /\ InOrder(Selected(c, Message))
                               /\ TurnsUpTo(Selected(c, Message), PromptIn(c))
                               /\ PromptIn(c) <= turns'
        BY <1>1, <1>2, <1>3
    <2> QED
        BY <1>1, <1>2, <2>1, <2>2, FilesStayInOrder
<1>9. SessionIsKnown'
    BY <1>1, <1>2, <1>4, StillKnown
<1> HIDE DEF c, p
<1>10. MemoryTypes'
    BY <1>1, <1>2, <1>5, <1>6, Bounds DEF MemoryTypes, InTurn
<1>11. OwnLines' = lines'[p] /\ (Loads(OwnLines') => OwnLines' = c /\ Loads(LinesOf(p)))
    BY <1>5, <1>6, <1>7 DEF OwnLines
<1>12. TurnIsInItsFile'
    <2>1. \A i \in lenBefore' + 1 .. Len(transcript') : FALSE
        BY <1>1, <1>2
    <2>2. Loads(OwnLines') => PromptIn(OwnLines') = turns'
        BY <1>1, <1>3, <1>11
    <2> QED
        BY <1>1, <1>2, <1>5, <1>6, <2>1, <2>2 DEF TurnIsInItsFile
<1>13. SavingIsInStep'
    <2>1. \A i \in 1 .. Len(transcript) : transcript[i].turn < turns + 1
        BY <1>2, MessageTypes DEF SessionIsKnown, TurnsUpTo
    <2>2. Loads(OwnLines') => TurnsBelow(Selected(OwnLines', Message), turns')
        BY <1>1, <1>3, <1>11
    <2>3. NothingSaved'
        BY <1>1, <2>1, <2>2 DEF NothingSaved
    <2>4. \A i \in lenBefore' + 1 .. Len(transcript') : FALSE
        BY <1>1, <1>2
    <2> QED
        BY <1>1, <2>3, <2>4 DEF SavingIsInStep
<1>14. FileIsTheSession'
    <2> SUFFICES ASSUME faithful' PROVE FileIsTheSession'
        BY DEF FileIsTheSession
    <2>1. /\ p \in existing \ unterminated /\ Loads(lines[p])
          /\ Selected(lines[p], Message) = transcript
          /\ WorktreeIn(lines[p]) = runtime.worktree
          /\ runtime.worktree = None =>
                 runtime.active = Main \/ runtime.active = LastIn(lines[p], Header, None).root
        BY <1>1, <1>2, <1>5 DEF FileIsTheSession, OwnLines, p
    <2>2. OwnLines' = c /\ LinesOf(p) = lines[p]
        BY <1>5, <1>11, <2>1 DEF LinesOf
    <2>3. SubSeq(transcript', 1, lenBefore') = transcript
        BY <1>1, <1>2
    <2> QED
        BY <1>1, <1>5, <1>6, <1>7, <2>1, <2>2, <2>3 DEF FileIsTheSession
<1> QED
    BY <1>4, <1>8, <1>9, <1>10, <1>12, <1>13, <1>14 DEF SessionInv

\* A prompt that is not saved ends the turn before it began.
LEMMA PromptNotSavedInv == ASSUME SessionInv, PromptNotSaved PROVE SessionInv'
<1> DEFINE p == TranscriptPath
           c == Append(LinesOf(TranscriptPath), Prompt)
<1>1. /\ proc = "idle" /\ proc' = "idle" /\ turns < MaxTurns /\ turns' = turns + 1
      /\ lenBefore' = Len(transcript) /\ EntryFails(Prompt)
      /\ UNCHANGED <<worktrees, transcript, sessions, toolCalls, starts>>
    BY DEF PromptNotSaved
<1>2. /\ DiskTypes /\ MemoryTypes /\ FilesInOrder /\ SessionIsKnown
      /\ runtime \in Runtime /\ turns \in Nat /\ transcript \in Seq(Message)
      /\ Len(transcript) \in Nat /\ Running
    BY <1>1, Bounds DEF SessionInv, MemoryTypes, Running
<1>3. /\ Prompt \in LastPrompt /\ Prompt \in Entries /\ LinesOf(p) \in Seq(Entries)
      /\ Loads(LinesOf(p)) => /\ InOrder(Selected(c, Message))
                              /\ TurnsUpTo(Selected(c, Message), PromptIn(c))
                              /\ PromptIn(c) = turns + 1
    BY <1>1, <1>2, PromptFits DEF Entries
<1>4. DiskTypes' /\ runtime' = [runtime EXCEPT !.transcriptPath = p]
    BY <1>1, <1>2, <1>3, WriteOutcome
<1>5. faults < MaxFaults /\ faults' = faults + 1 /\ faithful' = FALSE
    BY <1>1 DEF EntryFails
<1>6. FilesInOrder'
    <2>1. /\ turns' \in Nat /\ turns <= turns' /\ sessions' = sessions
          /\ Prompt \in Message \cup LastPrompt \cup WorktreeState
        BY <1>1, <1>2, <1>3
    <2>2. Loads(LinesOf(p)) => /\ InOrder(Selected(c, Message))
                               /\ TurnsUpTo(Selected(c, Message), PromptIn(c))
                               /\ PromptIn(c) <= turns'
        BY <1>1, <1>2, <1>3
    <2> QED
        BY <1>1, <1>2, <2>1, <2>2, FilesStayInOrder
<1>7. SessionIsKnown' /\ runtime' \in Runtime
    BY <1>1, <1>2, <1>4, StillKnown, WriterStays
<1>8. MemoryTypes'
    <2>1. faults' \in 0 .. MaxFaults /\ turns' \in 0 .. MaxTurns
        BY <1>1, <1>2, <1>5, Bounds DEF MemoryTypes
    <2> QED
        BY <1>1, <1>2, <1>5, <1>7, <2>1 DEF MemoryTypes, InTurn
<1>9. TurnIsInItsFile' /\ SavingIsInStep' /\ FileIsTheSession'
    BY <1>1, <1>5 DEF TurnIsInItsFile, SavingIsInStep, FileIsTheSession, InTurn
<1> QED
    BY <1>4, <1>6, <1>7, <1>8, <1>9 DEF SessionInv

\* During a turn, an entry that is no prompt changes nothing about which prompt is the last.
LEMMA WrittenInTurn ==
    ASSUME SessionInv, InTurn, NEW entry \in Message \cup WorktreeState,
           EntryWritten(entry) \/ EntryFails(entry)
    PROVE  /\ DiskTypes' /\ runtime' = [runtime EXCEPT !.transcriptPath = TranscriptPath]
           /\ runtime' \in Runtime /\ TranscriptPath' = TranscriptPath
           /\ runtime'.transcriptPath # None /\ TranscriptPath \in existing'
           /\ runtime'.active = runtime.active /\ runtime'.worktree = runtime.worktree
           /\ LinesOf(TranscriptPath) = OwnLines /\ OwnLines \in Seq(Entries)
           /\ Loads(OwnLines') =>
                  /\ Loads(OwnLines)
                  /\ OwnLines' = OwnLines \/ OwnLines' = Append(OwnLines, entry)
                  /\ PromptIn(OwnLines') = turns
           /\ Loads(OwnLines) =>
                  /\ PromptIn(OwnLines) = turns /\ InOrder(Selected(OwnLines, Message))
                  /\ TurnsUpTo(Selected(OwnLines, Message), turns)
           /\ faults' \in 0 .. MaxFaults /\ faithful' \in BOOLEAN
<1> DEFINE p == TranscriptPath
<1>1. /\ DiskTypes /\ MemoryTypes /\ FilesInOrder /\ SessionIsKnown /\ TurnIsInItsFile
      /\ runtime \in Runtime /\ turns \in Nat /\ Running /\ p \in existing /\ p \in Paths
    BY PathIsKnown, Bounds DEF SessionInv, MemoryTypes, Running, InTurn, TurnIsInItsFile
<1>2. entry \in Entries /\ entry \in Message \cup LastPrompt \cup WorktreeState
    BY DEF Entries
<1>3. /\ DiskTypes' /\ runtime' = [runtime EXCEPT !.transcriptPath = p]
      /\ existing \subseteq existing' /\ Outcome(entry)
    BY <1>1, <1>2, WriteOutcome
<1>4. /\ runtime' \in Runtime /\ TranscriptPath' = p /\ runtime'.transcriptPath # None
      /\ runtime'.active = runtime.active /\ runtime'.worktree = runtime.worktree
    BY <1>1, <1>3, WriterStays
<1>5. /\ LinesOf(p) = OwnLines /\ OwnLines \in Seq(Entries) /\ OwnLines' = lines'[p]
    BY <1>1, <1>4 DEF LinesOf, OwnLines, DiskTypes
<1>6. Loads(OwnLines) =>
          /\ PromptIn(OwnLines) = turns /\ InOrder(Selected(OwnLines, Message))
          /\ TurnsUpTo(Selected(OwnLines, Message), turns)
    <2>1. FileInOrder(lines[p], p.session, turns)
        BY <1>1 DEF FilesInOrder
    <2> QED
        BY <1>1, <2>1 DEF FileInOrder, TurnIsInItsFile, OwnLines
<1>7. Loads(lines'[p]) => \/ p \in existing /\ lines'[p] = lines[p]
                          \/ p \notin existing /\ lines'[p] = <<HeaderOf(runtime)>>
                          \/ lines'[p] = Append(LinesOf(p), entry) /\ Loads(LinesOf(p))
    BY <1>1, <1>2, <1>3, WrittenFile
<1>8. PromptIn(Append(OwnLines, entry)) = PromptIn(OwnLines)
    BY <1>5, MessageAppended, WorktreeAppended
<1>9. Loads(OwnLines') => /\ Loads(OwnLines)
                          /\ OwnLines' = OwnLines \/ OwnLines' = Append(OwnLines, entry)
                          /\ PromptIn(OwnLines') = turns
    <2>1. lines[p] = OwnLines
        BY DEF OwnLines
    <2> HIDE DEF p
    <2> QED
        BY <1>1, <1>5, <1>6, <1>7, <1>8, <2>1
<1>10. faults' \in 0 .. MaxFaults /\ faithful' \in BOOLEAN
    <2>1. faults \in 0 .. MaxFaults /\ faithful \in BOOLEAN
        BY <1>1 DEF MemoryTypes
    <2>2. \/ faults' = faults /\ faithful' = faithful
          \/ faults < MaxFaults /\ faults' = faults + 1 /\ faithful' = FALSE
        BY DEF EntryWritten, EntryFails
    <2>3. faults' \in 0 .. MaxFaults
        <3>1. faults' = faults \/ (faults < MaxFaults /\ faults' = faults + 1)
            BY <2>2
        <3> QED
            BY <2>1, <3>1, Bounds
    <2>4. faithful' \in BOOLEAN
        BY <2>1, <2>2, Zenon
    <2> QED
        BY <2>3, <2>4
<1> QED
    BY <1>1, <1>3, <1>4, <1>5, <1>6, <1>9, <1>10

\* The state of the worktree leaves the messages in the file alone.
LEMMA WorktreeStateInv ==
    ASSUME SessionInv, SaveWorktreeState \/ WorktreeStateNotSaved
    PROVE  SessionInv'
<1> DEFINE p == TranscriptPath
           c == Append(OwnLines, WorktreeEntry)
<1>1. /\ proc = "tool"
      /\ \/ proc' = "turn" /\ EntryWritten(WorktreeEntry)
         \/ proc' = "saving" /\ EntryFails(WorktreeEntry)
      /\ UNCHANGED <<worktrees, transcript, lenBefore, counters>>
    BY DEF SaveWorktreeState, WorktreeStateNotSaved
<1>2. /\ DiskTypes /\ MemoryTypes /\ FilesInOrder /\ SessionIsKnown /\ TurnIsInItsFile
      /\ SavingIsInStep /\ FileIsTheSession /\ runtime \in Runtime /\ turns \in Nat
      /\ InTurn /\ Running
    BY <1>1, Bounds DEF SessionInv, MemoryTypes, Running, InTurn
<1>3. /\ WorktreeEntry \in WorktreeState /\ WorktreeEntry \in Entries
      /\ WorktreeEntry \in Message \cup WorktreeState
      /\ WorktreeEntry \in Message \cup LastPrompt \cup WorktreeState
      /\ WorktreeEntry.state = runtime.worktree
    BY <1>2 DEF WorktreeEntry, WorktreeState, Runtime, Entries
<1>4. /\ DiskTypes' /\ runtime' = [runtime EXCEPT !.transcriptPath = p]
      /\ runtime' \in Runtime /\ TranscriptPath' = p
      /\ runtime'.transcriptPath # None /\ p \in existing'
      /\ runtime'.active = runtime.active /\ runtime'.worktree = runtime.worktree
      /\ LinesOf(p) = OwnLines /\ OwnLines \in Seq(Entries)
      /\ Loads(OwnLines') => /\ Loads(OwnLines)
                             /\ OwnLines' = OwnLines \/ OwnLines' = c
                             /\ PromptIn(OwnLines') = turns
      /\ Loads(OwnLines) =>
             /\ PromptIn(OwnLines) = turns /\ InOrder(Selected(OwnLines, Message))
             /\ TurnsUpTo(Selected(OwnLines, Message), turns)
      /\ faults' \in 0 .. MaxFaults /\ faithful' \in BOOLEAN
    BY <1>1, <1>2, <1>3, WrittenInTurn
<1>5. /\ Loads(c) <=> Loads(OwnLines)
      /\ Selected(c, Message) = Selected(OwnLines, Message)
      /\ PromptIn(c) = PromptIn(OwnLines) /\ WorktreeIn(c) = runtime.worktree
      /\ LastIn(c, Header, None) = LastIn(OwnLines, Header, None)
    BY <1>3, <1>4, WorktreeAppended
<1>6. FilesInOrder'
    <2>1. turns' \in Nat /\ turns <= turns' /\ sessions' = sessions
        BY <1>1, <1>2 DEF counters
    <2>2. Loads(LinesOf(p)) =>
              /\ InOrder(Selected(c, Message)) /\ TurnsUpTo(Selected(c, Message), PromptIn(c))
              /\ PromptIn(c) <= turns'
        BY <1>4, <1>5, <2>1
    <2>3. c = Append(LinesOf(p), WorktreeEntry)
        BY <1>4
    <2> HIDE DEF c
    <2> QED
        BY <1>1, <1>2, <1>3, <2>1, <2>2, <2>3, FilesStayInOrder
<1>7. SessionIsKnown'
    BY <1>1, <1>2, <1>4, StillKnown DEF counters
<1>8. MemoryTypes'
    BY <1>1, <1>2, <1>4 DEF MemoryTypes, InTurn, counters
<1>9. TurnIsInItsFile'
    BY <1>1, <1>2, <1>4 DEF TurnIsInItsFile, counters
<1>10. Loads(OwnLines') => Loads(OwnLines) /\ Selected(OwnLines', Message) = Selected(OwnLines, Message)
    BY <1>4, <1>5
<1>11. SavingIsInStep'
    <2>1. NothingSaved
        BY <1>1, <1>2 DEF SavingIsInStep
    <2>2. NothingSaved'
        BY <1>1, <1>10, <2>1 DEF NothingSaved, counters
    <2> QED
        BY <1>1, <1>2, <2>2 DEF SavingIsInStep, counters
<1>12. FileIsTheSession'
    <2> SUFFICES ASSUME faithful' PROVE FileIsTheSession'
        BY DEF FileIsTheSession
    <2>1. EntryWritten(WorktreeEntry) /\ faithful
        BY <1>1 DEF EntryWritten, EntryFails
    <2>2. /\ p \in existing \ unterminated /\ Loads(OwnLines)
          /\ Selected(OwnLines, Message) = SubSeq(transcript, 1, lenBefore)
          /\ runtime.worktree = None =>
                 runtime.active = Main \/ runtime.active = LastIn(OwnLines, Header, None).root
        BY <1>1, <1>2, <2>1 DEF FileIsTheSession
    <2>3. /\ p \in existing' \ unterminated'
          /\ p \notin unterminated => lines'[p] = Append(LinesOf(p), WorktreeEntry)
        BY <1>2, <1>3, <2>1, WrittenExactly
    <2>4. OwnLines' = c
        BY <1>4, <2>2, <2>3 DEF OwnLines
    <2>5. proc' # "idle"
        BY <1>1
    <2> HIDE DEF c, p
    <2> QED
        BY <1>1, <1>4, <1>5, <2>2, <2>3, <2>4, <2>5 DEF FileIsTheSession, p
<1> QED
    BY <1>4, <1>6, <1>7, <1>8, <1>9, <1>11, <1>12 DEF SessionInv

\* The message to save fits behind those that are saved.
LEMMA MessageFits ==
    ASSUME SessionInv, proc = "saving", lenBefore < Len(transcript)
    PROVE  /\ transcript[lenBefore + 1] \in Message /\ transcript[lenBefore + 1].turn = turns
           /\ Loads(OwnLines) =>
                  /\ InOrder(Append(Selected(OwnLines, Message), transcript[lenBefore + 1]))
                  /\ TurnsUpTo(Append(Selected(OwnLines, Message), transcript[lenBefore + 1]), turns)
<1> DEFINE m == transcript[lenBefore + 1]
           ms == Selected(OwnLines, Message)
<1>1. /\ transcript \in Seq(Message) /\ lenBefore \in Nat /\ turns \in Nat /\ InOrder(transcript)
      /\ \A i \in lenBefore + 1 .. Len(transcript) : transcript[i].turn = turns
      /\ NothingSaved \/ SavedUpToHere
      /\ TranscriptPath \in existing /\ existing \subseteq Paths
      /\ lines \in [Paths -> Seq(Entries)] /\ FilesInOrder /\ TurnIsInItsFile
    BY Bounds DEF SessionInv, MemoryTypes, DiskTypes, SessionIsKnown, TurnIsInItsFile,
                  SavingIsInStep, InTurn, Running
<1>2. /\ Len(transcript) \in Nat /\ lenBefore + 1 \in 1 .. Len(transcript)
      /\ lenBefore + 1 \in lenBefore + 1 .. Len(transcript)
    BY <1>1
<1>3. m \in Message /\ m.turn = turns /\ m.index \in Nat /\ (m.kind = "User" <=> m.index = 1)
    BY <1>1, <1>2, MessageTypes DEF InOrder
<1>4. ms \in Seq(Message) /\ OwnLines \in Seq(Entries)
    BY <1>1, SelectedKinds DEF OwnLines
<1>5. CASE Loads(OwnLines)
    <2>1. InOrder(ms) /\ TurnsUpTo(ms, turns)
        <3>1. FileInOrder(OwnLines, TranscriptPath.session, turns)
            BY <1>1 DEF FilesInOrder, OwnLines
        <3> QED
            BY <1>1, <1>5, <3>1 DEF FileInOrder, TurnIsInItsFile, InTurn
    <2>2. lenBefore > 0 => Follows(transcript[lenBefore], m) /\ lenBefore \in 1 .. Len(transcript)
        <3> SUFFICES ASSUME lenBefore > 0
                     PROVE  Follows(transcript[lenBefore], m) /\ lenBefore \in 1 .. Len(transcript)
            OBVIOUS
        <3>1. /\ lenBefore + 1 \in 2 .. Len(transcript) /\ (lenBefore + 1) - 1 = lenBefore
              /\ lenBefore \in 1 .. Len(transcript)
            BY <1>1, <1>2
        <3> QED
            BY <1>1, <3>1 DEF InOrder
    <2> HIDE DEF m, ms
    <2>3. ASSUME NothingSaved PROVE InOrder(Append(ms, m))
        <3>1. TurnsBelow(ms, m.turn)
            BY <1>3, <1>5, <2>3 DEF NothingSaved, ms
        <3>2. m.index = 1
            <4>1. CASE lenBefore = 0
                BY <1>1, <1>2, <4>1 DEF InOrder, m
            <4>2. CASE lenBefore # 0
                <5>1. lenBefore > 0 /\ lenBefore \in 1 .. lenBefore
                    BY <1>1, <4>2
                <5>2. transcript[lenBefore].turn < turns /\ transcript[lenBefore].turn \in Nat
                    BY <1>1, <2>2, <2>3, <5>1, MessageTypes DEF NothingSaved
                <5> QED
                    BY <1>1, <1>3, <2>2, <5>1, <5>2 DEF Follows
            <4> QED
                BY <4>1, <4>2
        <3> QED
            BY <1>3, <1>4, <2>1, <3>1, <3>2, OrderedAppend
    <2>4. ASSUME SavedUpToHere PROVE InOrder(Append(ms, m))
        <3>1. /\ lenBefore > 0 /\ transcript[lenBefore].turn = turns /\ ms # <<>>
              /\ Last(ms) = transcript[lenBefore]
            BY <1>5, <2>4 DEF SavedUpToHere, ms
        <3>2. m.index # 1 /\ Last(ms).turn = m.turn /\ Last(ms).index = m.index - 1
            BY <1>1, <1>3, <2>2, <3>1 DEF Follows
        <3> QED
            BY <1>3, <1>4, <2>1, <3>1, <3>2, OrderedAppend
    <2>5. InOrder(Append(ms, m))
        BY <1>1, <2>3, <2>4
    <2>6. TurnsUpTo(Append(ms, m), turns)
        <3>1. /\ Len(Append(ms, m)) = Len(ms) + 1 /\ Len(ms) \in Nat
              /\ \A i \in 1 .. Len(ms) : Append(ms, m)[i] = ms[i]
              /\ Append(ms, m)[Len(ms) + 1] = m
            BY <1>3, <1>4, LastAppended
        <3>2. \A i \in 1 .. Len(Append(ms, m)) : i \in 1 .. Len(ms) \/ i = Len(ms) + 1
            BY <3>1
        <3> QED
            BY <1>1, <1>3, <2>1, <3>1, <3>2 DEF TurnsUpTo
    <2> QED
        BY <1>3, <2>5, <2>6 DEF m, ms
<1> QED
    BY <1>3, <1>5

\* A saved message is the next one in the file; one that cannot be saved ends the saving.
LEMMA MessageInv == ASSUME SessionInv, SaveMessage \/ MessageNotSaved PROVE SessionInv'
<1> DEFINE p == TranscriptPath
           m == transcript[lenBefore + 1]
           ms == Selected(OwnLines, Message)
           c == Append(OwnLines, transcript[lenBefore + 1])
<1>1. /\ proc = "saving" /\ lenBefore < Len(transcript)
      /\ \/ proc' = "saving" /\ EntryWritten(m) /\ lenBefore' = lenBefore + 1
         \/ proc' = "idle" /\ EntryFails(m) /\ lenBefore' = lenBefore
      /\ UNCHANGED <<worktrees, transcript, counters>>
    BY DEF SaveMessage, MessageNotSaved
<1>2. /\ DiskTypes /\ MemoryTypes /\ FilesInOrder /\ SessionIsKnown /\ TurnIsInItsFile
      /\ SavingIsInStep /\ FileIsTheSession /\ runtime \in Runtime /\ turns \in Nat
      /\ transcript \in Seq(Message) /\ lenBefore \in Nat /\ Len(transcript) \in Nat
      /\ InTurn /\ Running /\ lenBefore + 1 \in 1 .. Len(transcript)
    <2>1. transcript \in Seq(Message) /\ lenBefore \in Nat /\ Len(transcript) \in Nat
        BY DEF SessionInv, MemoryTypes
    <2> QED
        BY <1>1, <2>1, Bounds DEF SessionInv, MemoryTypes, Running, InTurn
<1>3. /\ m \in Message /\ m \in Entries /\ m.turn = turns
      /\ m \in Message \cup WorktreeState /\ m \in Message \cup LastPrompt \cup WorktreeState
      /\ Loads(OwnLines) => InOrder(Append(ms, m)) /\ TurnsUpTo(Append(ms, m), turns)
    BY <1>1, MessageFits DEF Entries
<1> HIDE DEF m
<1>4. /\ DiskTypes' /\ runtime' = [runtime EXCEPT !.transcriptPath = p]
      /\ runtime' \in Runtime /\ TranscriptPath' = p
      /\ runtime'.transcriptPath # None /\ p \in existing'
      /\ runtime'.active = runtime.active /\ runtime'.worktree = runtime.worktree
      /\ LinesOf(p) = OwnLines /\ OwnLines \in Seq(Entries)
      /\ Loads(OwnLines') => /\ Loads(OwnLines)
                             /\ OwnLines' = OwnLines \/ OwnLines' = Append(OwnLines, m)
                             /\ PromptIn(OwnLines') = turns
      /\ Loads(OwnLines) =>
             /\ PromptIn(OwnLines) = turns /\ InOrder(Selected(OwnLines, Message))
             /\ TurnsUpTo(Selected(OwnLines, Message), turns)
      /\ faults' \in 0 .. MaxFaults /\ faithful' \in BOOLEAN
    BY <1>1, <1>2, <1>3, WrittenInTurn
<1>5. /\ c = Append(OwnLines, m) /\ (Loads(c) <=> Loads(OwnLines))
      /\ Selected(c, Message) = Append(ms, m)
      /\ PromptIn(c) = PromptIn(OwnLines) /\ WorktreeIn(c) = WorktreeIn(OwnLines)
      /\ LastIn(c, Header, None) = LastIn(OwnLines, Header, None)
    <2>1. c = Append(OwnLines, m)
        BY DEF m
    <2> HIDE DEF c
    <2> QED
        BY <1>3, <1>4, <2>1, MessageAppended
<1> HIDE DEF c
<1>6. FilesInOrder'
    <2>1. turns' \in Nat /\ turns <= turns' /\ sessions' = sessions /\ turns' = turns
        BY <1>1, <1>2 DEF counters
    <2>2. Loads(LinesOf(p)) =>
              /\ InOrder(Selected(c, Message)) /\ TurnsUpTo(Selected(c, Message), PromptIn(c))
              /\ PromptIn(c) <= turns'
        BY <1>3, <1>4, <1>5, <2>1
    <2>3. c = Append(LinesOf(p), m)
        BY <1>4, <1>5
    <2> QED
        BY <1>1, <1>2, <1>3, <2>1, <2>2, <2>3, FilesStayInOrder
<1>7. SessionIsKnown'
    BY <1>1, <1>2, <1>4, StillKnown DEF counters
<1>8. MemoryTypes'
    <2>1. lenBefore' \in Nat /\ lenBefore' <= Len(transcript)
        BY <1>1, <1>2
    <2> QED
        BY <1>1, <1>2, <1>4, <2>1 DEF MemoryTypes, InTurn, counters
<1>9. TurnIsInItsFile'
    <2>1. \A i \in lenBefore' + 1 .. Len(transcript) : i \in lenBefore + 1 .. Len(transcript)
        BY <1>1, <1>2
    <2> QED
        BY <1>1, <1>2, <1>4, <2>1 DEF TurnIsInItsFile, counters
<1>10. SavingIsInStep' /\ FileIsTheSession'
    <2>1. CASE proc' = "idle"
        BY <1>1, <2>1 DEF SavingIsInStep, FileIsTheSession, EntryFails
    <2>2. CASE proc' = "saving"
        <3>1. EntryWritten(m) /\ lenBefore' = lenBefore + 1 /\ transcript' = transcript /\ turns' = turns
            BY <1>1, <2>2 DEF counters
        <3>2. /\ p \in existing' \ unterminated'
              /\ p \notin unterminated => lines'[p] = Append(LinesOf(p), m)
              /\ p \in unterminated => ~ Loads(lines'[p])
              /\ faithful' = faithful
            BY <1>2, <1>3, <3>1, WrittenExactly
        <3>3. /\ p \notin unterminated => OwnLines' = c
              /\ Loads(OwnLines') => OwnLines' = c
            BY <1>4, <1>5, <3>2 DEF OwnLines
        <3>4. ms \in Seq(Message)
            BY <1>4, SelectedKinds
        <3>5. SavedUpToHere'
            <4>1. lenBefore' > 0 /\ transcript'[lenBefore'] = m /\ m.turn = turns'
                BY <1>2, <1>3, <3>1 DEF m
            <4>2. Append(ms, m) # <<>> /\ Last(Append(ms, m)) = m
                BY <1>3, <3>4, LastAppended
            <4> QED
                BY <1>5, <3>3, <4>1, <4>2 DEF SavedUpToHere
        <3>6. SavingIsInStep'
            BY <2>2, <3>5 DEF SavingIsInStep
        <3>7. FileIsTheSession'
            <4> SUFFICES ASSUME faithful' PROVE FileIsTheSession'
                BY DEF FileIsTheSession
            <4>1. /\ p \in existing \ unterminated /\ Loads(OwnLines)
                  /\ ms = SubSeq(transcript, 1, lenBefore)
                  /\ WorktreeIn(OwnLines) = runtime.worktree
                  /\ runtime.worktree = None =>
                         runtime.active = Main \/ runtime.active = LastIn(OwnLines, Header, None).root
                BY <1>1, <1>2, <3>2 DEF FileIsTheSession
            <4>2. Append(SubSeq(transcript, 1, lenBefore), m) = SubSeq(transcript', 1, lenBefore')
                BY <1>2, <3>1 DEF m
            <4>3. OwnLines' = c
                BY <3>3, <4>1
            <4> HIDE DEF p, ms
            <4> QED
                BY <1>4, <1>5, <2>2, <3>2, <4>1, <4>2, <4>3 DEF FileIsTheSession, p
        <3> QED
            BY <3>6, <3>7
    <2> QED
        BY <1>1, <2>1, <2>2
<1> QED
    BY <1>4, <1>6, <1>7, <1>8, <1>9, <1>10 DEF SessionInv

--------------------------------------------------------------------------------
(***************************************************************************)
(* The theorems.                                                           *)
(***************************************************************************)

\* Every step of a process keeps the invariant.
LEMMA NextInv == ASSUME SessionInv, [SessionNext]_sessionVars PROVE SessionInv'
<1>1. CASE StartFresh
    BY <1>1, StartFreshInv
<1>2. CASE StartFreshFails
    BY <1>2, StartFreshFailsInv
<1>3. CASE StartContinue \/ StartResume
    BY <1>3, StartRestoredInv
<1>4. CASE ReplResume
    BY <1>4, ReplResumeInv
<1>5. CASE ProcessEnds
    BY <1>5, ProcessEndsInv
<1>6. CASE SubmitPrompt
    BY <1>6, SubmitPromptInv
<1>7. CASE PromptNotSaved
    BY <1>7, PromptNotSavedInv
<1>8. CASE EngineAppends
    BY <1>8, EngineAppendsInv
<1>9. CASE EnterWorktree
    BY <1>9, EnterWorktreeInv
<1>10. CASE ExitWorktree
    BY <1>10, ExitWorktreeInv
<1>11. CASE SaveWorktreeState \/ WorktreeStateNotSaved
    BY <1>11, WorktreeStateInv
<1>12. CASE TurnEnds \/ TurnSaved
    BY <1>12, TurnEndsInv
<1>13. CASE SaveMessage \/ MessageNotSaved
    BY <1>13, MessageInv
<1>14. CASE UNCHANGED sessionVars
    BY <1>14 DEF sessionVars, diskVars, memoryVars, counters, SessionInv, DiskTypes, MemoryTypes,
                 FilesInOrder, SessionIsKnown, TurnIsInItsFile, SavingIsInStep, NothingSaved,
                 SavedUpToHere, FileIsTheSession, Running, InTurn, OwnLines, TranscriptPath
<1> QED
    BY <1>1, <1>2, <1>3, <1>4, <1>5, <1>6, <1>7, <1>8, <1>9, <1>10, <1>11, <1>12, <1>13, <1>14
    DEF SessionNext

\* The inductive invariant holds in every state: files in order, a process that knows its session, and
\* a turn that is in its file up to where it was saved.
THEOREM SessionInvariant == SessionSpec => []SessionInv
<1>1. SessionInit => SessionInv
    BY InitInv
<1>2. SessionInv /\ [SessionNext]_sessionVars => SessionInv'
    BY NextInv
<1> QED
    BY <1>1, <1>2, PTL DEF SessionSpec

\* What is read of a file is what is read of its lines.
LEMMA ReadLines ==
    ASSUME NEW p
    PROVE  /\ Loadable(p) <=> Loads(lines[p])
           /\ Messages(p) = Selected(lines[p], Message)
           /\ SavedHeader(p) = LastIn(lines[p], Header, None)
           /\ SavedPrompt(p) = PromptIn(lines[p]) /\ SavedWorktree(p) = WorktreeIn(lines[p])
BY DEF Loadable, Messages, SavedHeader, SavedPrompt, SavedWorktree, LastOf, OfType, Loads,
       LastIn, PromptIn, WorktreeIn

\* Types: every file is a sequence of entries, and recency lists every file once.
THEOREM SessionTypes == SessionSpec => []SessionTypeOK
<1>1. SessionInv => SessionTypeOK
    BY DEF SessionInv, DiskTypes, MemoryTypes, SessionTypeOK, InTurn
<1> QED
    BY <1>1, SessionInvariant, PTL

\* Files hold beginnings of turns, in order.
THEOREM FilesHoldTurns == SessionSpec => []FilesHoldBeginningsOfTurns
<1>1. SessionInv => FilesHoldBeginningsOfTurns
    <2> SUFFICES ASSUME SessionInv, NEW p \in existing, Loadable(p),
                        NEW i \in 1 .. Len(Messages(p))
                 PROVE  LET n == Messages(p)[i] IN
                        IF i = 1 \/ n.index = 1
                        THEN n.index = 1 /\ (i > 1 => Messages(p)[i - 1].turn < n.turn)
                        ELSE Messages(p)[i - 1].turn = n.turn /\ Messages(p)[i - 1].index = n.index - 1
        BY DEF FilesHoldBeginningsOfTurns
    <2> DEFINE ms == Messages(p)
    <2>1. ms \in Seq(Message) /\ InOrder(ms)
        BY LoadedFile
    <2> HIDE DEF ms
    <2>2. i \in 1 .. Len(ms) /\ Len(ms) \in Nat
        BY <2>1 DEF ms
    <2>3. CASE i = 1
        BY <2>1, <2>2, <2>3 DEF InOrder, ms
    <2>4. CASE i # 1
        <3>1. i \in 2 .. Len(ms) /\ i > 1
            BY <2>2, <2>4
        <3>2. Follows(ms[i - 1], ms[i])
            BY <2>1, <3>1 DEF InOrder
        <3> QED
            BY <2>4, <3>1, <3>2 DEF Follows, ms
    <2> QED
        BY <2>3, <2>4
<1> QED
    BY <1>1, SessionInvariant, PTL

\* Between turns, a session whose writes all went well is in its file, and a restore from it gives
\* the same messages, root and worktree, except into the worktree a file was begun in.
THEOREM RestoringIsFaithful == SessionSpec => []RestoreIsFaithful
<1>1. SessionInv => RestoreIsFaithful
    <2> SUFFICES ASSUME SessionInv, proc = "idle", faithful PROVE RestoreIsFaithful
        BY DEF RestoreIsFaithful
    <2>1. /\ TranscriptPath \in existing /\ Loads(OwnLines)
          /\ Selected(OwnLines, Message) = transcript /\ WorktreeIn(OwnLines) = runtime.worktree
          /\ runtime.worktree = None =>
                 runtime.active = Main \/ runtime.active = LastIn(OwnLines, Header, None).root
          /\ runtime.worktree # None => runtime.active = runtime.worktree
          /\ runtime \in Runtime
        BY DEF SessionInv, FileIsTheSession, SessionIsKnown, Running, MemoryTypes
    <2>2. Loadable(TranscriptPath)
        BY <2>1, ReadLines DEF OwnLines
    <2>3. /\ SavedHeader(TranscriptPath) = LastIn(OwnLines, Header, None)
          /\ SavedHeader(TranscriptPath).session = TranscriptPath.session
          /\ SavedWorktree(TranscriptPath) = WorktreeIn(OwnLines)
          /\ Messages(TranscriptPath) = Selected(OwnLines, Message)
        BY <2>1, <2>2, LoadedFile DEF OwnLines
    <2>4. TranscriptPath.session = runtime.session
        BY Bounds, OwnFile DEF SessionInv, MemoryTypes, Running
    <2>5. SavedRoot(TranscriptPath) = runtime.active
          \/ (runtime.active = Main /\ SavedHeader(TranscriptPath).root # Main)
        BY <2>1, <2>3 DEF SavedRoot
    <2> QED
        BY <2>1, <2>2, <2>3, <2>4, <2>5 DEF RestoreIsFaithful
<1> QED
    BY <1>1, SessionInvariant, PTL

\* A session is reported as interrupted only if its last prompt has no answer in the file.
THEOREM InterruptionsAreReal == SessionSpec => []InterruptionIsReal
<1>1. SessionInv => InterruptionIsReal
    <2> SUFFICES ASSUME SessionInv, NEW p \in existing, Loadable(p)
                 PROVE  /\ Interrupted(p) =>
                              \A i \in 1 .. Len(Messages(p)) :
                                 ~ (Messages(p)[i].turn = SavedPrompt(p)
                                    /\ Messages(p)[i].kind = "Assistant")
                        /\ SavedPrompt(p) # 0 /\ Messages(p) = <<>> => Interrupted(p)
        BY DEF InterruptionIsReal
    <2> DEFINE ms == Messages(p)
    <2>1. ms \in Seq(Message) /\ InOrder(ms)
        BY LoadedFile
    <2>2. TurnsUpTo(ms, SavedPrompt(p)) /\ SavedPrompt(p) \in Nat
        <3>1. /\ FileInOrder(lines[p], p.session, turns) /\ lines[p] \in Seq(Entries)
              /\ Loads(lines[p])
            BY ReadLines DEF SessionInv, FilesInOrder, DiskTypes
        <3> QED
            BY <3>1, ReadLines, PromptIsNumber DEF FileInOrder
    <2>3. /\ LastOf(p, Message, [kind |-> "User"]) = IF ms = <<>> THEN [kind |-> "User"] ELSE Last(ms)
        BY DEF LastOf, Messages
    <2> HIDE DEF ms
    <2>4. ASSUME Interrupted(p), NEW i \in 1 .. Len(ms), ms[i].turn = SavedPrompt(p)
          PROVE  ms[i].kind # "Assistant"
        <3>1. ms # <<>> /\ Len(ms) \in 1 .. Len(ms) /\ Last(ms) = ms[Len(ms)]
            BY <2>1 DEF Last
        <3>2. ms[Len(ms)].kind = "User" /\ ms[Len(ms)].index = 1
            BY <2>1, <2>3, <2>4, <3>1 DEF Interrupted, InOrder
        <3>3. CASE i = Len(ms)
            BY <3>2, <3>3
        <3>4. CASE i # Len(ms)
            <4>1. Precedes(ms[i], ms[Len(ms)])
                <5>1. i < Len(ms)
                    BY <2>1, <3>4
                <5> QED
                    BY <2>1, <3>1, <5>1 DEF InOrder
            <4>2. /\ ms[Len(ms)].turn <= SavedPrompt(p) /\ ms[Len(ms)].turn \in Nat
                  /\ ms[i].index \in Nat /\ ms[i] \in Message
                BY <2>1, <2>2, <3>1, MessageTypes DEF TurnsUpTo
            <4>3. ms[i].index < 1
                BY <2>2, <2>4, <3>2, <4>1, <4>2 DEF Precedes
            <4>4. ms[i].index >= 1
                BY <4>2 DEF Message
            <4> QED
                BY <4>2, <4>3, <4>4
        <3> QED
            BY <3>3, <3>4
    <2>5. SavedPrompt(p) # 0 /\ ms = <<>> => Interrupted(p)
        BY <2>3 DEF Interrupted
    <2> QED
        BY <2>4, <2>5 DEF ms
<1> QED
    BY <1>1, SessionInvariant, PTL
=============================================================================
