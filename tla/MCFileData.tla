----------------------------- MODULE MCFileData -----------------------------
(* The pages of a file, and the memory that the pages of all files take: a behaviour runs
   PageManager or CacheManager, `part', and leaves the variables of the other alone. *)
EXTENDS PageManager, CacheManager, TLC

CONSTANTS r1, r2, c1, c2, file1, file2

VARIABLE part

TwoReaders == {r1, r2}
TwoCallers == {c1, c2}
ThreePages == {<<file1, 0>>, <<file1, 1>>, <<file2, 0>>}
SomeOrNone == {0, 2}
Symmetry == Permutations(TwoReaders) \cup Permutations(TwoCallers)

DataInit ==
    /\ part \in {"pages", "memory"}
    /\ Init /\ (part # "pages" => mBackendExists)
    /\ CacheInit

DataNext ==
    /\ UNCHANGED part
    /\ IF part = "pages" THEN Next ELSE UNCHANGED vars
    /\ IF part = "memory" THEN CacheNext ELSE UNCHANGED managerVars

DataSpec == DataInit /\ [][DataNext]_<<part, vars, managerVars>>
=============================================================================
