--------------------------- MODULE MCPageManager ---------------------------
(* An instance of PageManager for model checking. *)
EXTENDS PageManager, TLC

CONSTANTS r1, r2
TwoReaders == {r1, r2}
Symmetry == Permutations(TwoReaders)
=============================================================================
