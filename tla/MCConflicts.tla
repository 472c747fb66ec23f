----------------------------- MODULE MCConflicts -----------------------------
(* Instances of Conflicts. *)
EXTENDS Conflicts, TLC

CONSTANTS k1, k2

TwoKeys == {k1, k2}

\* No definition of Conflicts tells one key from the other.
KeySymmetry == Permutations(TwoKeys)
=============================================================================
