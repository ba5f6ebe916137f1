----------------------------- MODULE MCItemTree -----------------------------
(* Instances of ItemTree for model checking. *)
EXTENDS ItemTree, TLC

CONSTANTS t1, t2, p, q, x, y, n1, n2

TwoThreads == {t1, t2}
OneFolder == {p}
TwoFolders == {p, q}
TwoItems == {x, y}
TwoNames == {n1, n2}
AllOps == {"read", "list", "create", "delete", "rename", "move", "refresh"}

(* none of the sets is ordered, and nothing is chosen from them but by its role *)
Symmetry == Permutations(TwoThreads) \cup Permutations(TwoFolders)
            \cup Permutations(TwoItems) \cup Permutations(TwoNames)
=============================================================================
