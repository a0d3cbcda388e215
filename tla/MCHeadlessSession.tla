---------------------------- MODULE MCHeadlessSession ----------------------------
(***************************************************************************)
(* Small instances of HeadlessSession for TLC.                             *)
(***************************************************************************)
EXTENDS HeadlessSession

\* headless_turn_config: no budget and no compaction, with a smaller max_turns.
HeadlessConfigs ==
    {[maxTurns |-> 2, budget |-> 0, allow |-> FALSE,
      policy |-> [enabled |-> FALSE, trigger |-> 0, keep |-> 0]]}

OnePassConfigs == {[cfg EXCEPT !.maxTurns = 1] : cfg \in HeadlessConfigs}

================================================================================
