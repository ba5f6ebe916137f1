--------------------------- MODULE MCCacheManager ---------------------------
(* An instance of CacheManager for model checking. *)
EXTENDS CacheManager

CONSTANTS c1, c2, file1, file2

TwoCallers == {c1, c2}
TwoPages == {<<file1, 0>>, <<file2, 0>>}
NoDirtyLimit == {0}
=============================================================================
