----------------------------- MODULE MCSendFile -----------------------------
(* An instance of SendFile for model checking. *)
EXTENDS SendFile

MCSizes == 1 .. 7
MCLimits == {0, 1, 3, 7}
=============================================================================
