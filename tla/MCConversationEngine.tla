-------------------------- MODULE MCConversationEngine --------------------------
(***************************************************************************)
(* Small instances of ConversationEngine for TLC.                          *)
(***************************************************************************)
EXTENDS ConversationEngine, TLC

NoCompaction == [enabled |-> FALSE, trigger |-> 0, keep |-> 0]
CompactTo(trigger, keep) == [enabled |-> TRUE, trigger |-> trigger, keep |-> keep]

ConfigOf(maxTurns, budget, allow, policy) ==
    [maxTurns |-> maxTurns, budget |-> budget, allow |-> allow, policy |-> policy]

\* Two passes of tool calls or continuations, and a configuration the engine refuses.
ToolConfigs ==
    {ConfigOf(0, 0, FALSE, NoCompaction), ConfigOf(2, 0, FALSE, NoCompaction),
     ConfigOf(2, 10, TRUE, CompactTo(2, 1))}

\* Policies that cut between a tool use and its result, keep nothing, or keep more
\* than the trigger; two turns, which may use different ones.
CompactionConfigs ==
    {ConfigOf(1, 0, FALSE, policy) :
        policy \in {NoCompaction, CompactTo(2, 1), CompactTo(0, 0), CompactTo(1, 3)}}

\* Budgets whose products fit and one whose products saturate at MaxU64.
BudgetConfigs ==
    {ConfigOf(6, budget, TRUE, NoCompaction) : budget \in {10, 14}}
    \cup {ConfigOf(2, 10, FALSE, NoCompaction), ConfigOf(5, 10, TRUE, CompactTo(3, 2))}

CallSymmetry == Permutations(CallIds)

================================================================================
