--------------------------- MODULE PermissionProtocol ---------------------------
(***************************************************************************)
(* What a permission resolver promises to its client, without channels,    *)
(* maps or turns: questions are put one at a time under new numbers, each  *)
(* is decided at most once, and a tool runs on a question only after, and  *)
(* at most once after, that very question was granted.                     *)
(***************************************************************************)
EXTENDS Integers

VARIABLES
    asked,      \* the number of the last question
    open,       \* the question that waits for a decision, or 0
    granted,    \* the questions the client granted
    executed    \* the questions whose tool has run

protocolVars == <<asked, open, granted, executed>>

ProtocolInit ==
    /\ asked = 0
    /\ open = 0
    /\ granted = {}
    /\ executed = {}

Ask ==
    /\ open = 0
    /\ asked' = asked + 1
    /\ open' = asked + 1
    /\ UNCHANGED <<granted, executed>>

\* The question never reached the client.
AskLost ==
    /\ open = 0
    /\ asked' = asked + 1
    /\ UNCHANGED <<open, granted, executed>>

Grant ==
    /\ open # 0
    /\ granted' = granted \cup {open}
    /\ open' = 0
    /\ UNCHANGED <<asked, executed>>

Refuse ==
    /\ open # 0
    /\ open' = 0
    /\ UNCHANGED <<asked, granted, executed>>

Execute ==
    /\ open = 0
    /\ asked \in granted \ executed
    /\ executed' = executed \cup {asked}
    /\ UNCHANGED <<asked, open, granted>>

ProtocolNext == Ask \/ AskLost \/ Grant \/ Refuse \/ Execute

ProtocolSpec == ProtocolInit /\ [][ProtocolNext]_protocolVars

================================================================================
