-------------------------------- MODULE MCSession --------------------------------
(* Instances of SessionPersistence for TLC. *)
EXTENDS SessionPersistence, TLC

CONSTANTS w1, w2

\* The two worktrees are interchangeable.
WorktreeSymmetry == Permutations(Worktrees)
=============================================================================
