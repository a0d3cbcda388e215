-------------------------------- MODULE Selection --------------------------------
(***************************************************************************)
(* The elements of a sequence that are in a set, in their order.  It is    *)
(* SelectSeq of the module Sequences with a set in place of the operator,  *)
(* and a recursive function in place of the recursive operator: a fact     *)
(* about Selected holds for every set and can be cited by name.            *)
(***************************************************************************)
EXTENDS Naturals, Sequences

\* What is selected from the first n elements, for every n.
SelectedUpTo(s, S) ==
    LET upTo[n \in 0 .. Len(s)] ==
            IF n = 0 THEN <<>>
            ELSE IF s[n] \in S THEN Append(upTo[n - 1], s[n]) ELSE upTo[n - 1]
    IN  upTo

Selected(s, S) == SelectedUpTo(s, S)[Len(s)]
=============================================================================
