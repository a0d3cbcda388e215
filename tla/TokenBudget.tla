------------------------------ MODULE TokenBudget ------------------------------
(***************************************************************************)
(* The token-budget arithmetic of the conversation engine: whether a turn  *)
(* that the model considers complete is continued, stopped or left alone.  *)
(*                                                                         *)
(* A budget of 0 stands for both None and Some(0): the code treats the two *)
(* alike.  NoUsage stands for a pass that reported no token count.         *)
(***************************************************************************)
EXTENDS Integers

CONSTANTS
    MaxU64,                 \* the largest token count a u64 holds
    DiminishingThreshold    \* DIMINISHING_THRESHOLD, 500 tokens in the code

ASSUME TokenBudgetAssumption ==
    /\ MaxU64 \in Nat
    /\ DiminishingThreshold \in Nat

NoUsage == -1

BudgetTracker == [count : Nat, lastDelta : Nat, lastTotal : Nat]

FreshTracker == [count |-> 0, lastDelta |-> 0, lastTotal |-> 0]

\* u64::saturating_sub and u64::saturating_mul.
SaturatingSub(a, b) == IF a > b THEN a - b ELSE 0
SaturatingMul(a, b) == IF a * b > MaxU64 THEN MaxU64 ELSE a * b

DeltaTokens(tracker, total) == SaturatingSub(total, tracker.lastTotal)

\* Mutant: one more continuation before the check applies.
DiminishingReturnsLate(tracker, total) ==
    /\ tracker.count > 3
    /\ DeltaTokens(tracker, total) < DiminishingThreshold
    /\ tracker.lastDelta < DiminishingThreshold

\* Three continuations granted, and neither this pass nor the one before it
\* brought enough new tokens.
DiminishingReturns(tracker, total) ==
    /\ tracker.count >= 3
    /\ DeltaTokens(tracker, total) < DiminishingThreshold
    /\ tracker.lastDelta < DiminishingThreshold

\* Mutant: the boundary itself still continues.
AtCompletionThreshold(budget, total) ==
    SaturatingMul(total, 10) <= SaturatingMul(budget, 9)

\* Less than nine tenths of the budget used.
BelowCompletionThreshold(budget, total) ==
    SaturatingMul(total, 10) < SaturatingMul(budget, 9)

BudgetApplies(budget, total) == budget # 0 /\ total # NoUsage

MayContinue(tracker, budget, total, allow) ==
    /\ allow
    /\ BelowCompletionThreshold(budget, total)
    /\ ~ DiminishingReturns(tracker, total)

MustStop(tracker, budget, total) ==
    \/ total >= budget
    \/ tracker.count > 0
    \/ DiminishingReturns(tracker, total)
    \/ ~ BelowCompletionThreshold(budget, total)

BudgetDecision(tracker, budget, total, allow) ==
    IF ~ BudgetApplies(budget, total) THEN "none"
    ELSE IF MayContinue(tracker, budget, total, allow) THEN "continue"
    ELSE IF MustStop(tracker, budget, total) THEN "stop"
    ELSE "none"

TrackerAfter(tracker, budget, total, allow) ==
    IF ~ BudgetApplies(budget, total) THEN tracker
    ELSE [count |-> IF MayContinue(tracker, budget, total, allow)
                       THEN tracker.count + 1 ELSE tracker.count,
          lastDelta |-> DeltaTokens(tracker, total),
          lastTotal |-> total]

================================================================================
