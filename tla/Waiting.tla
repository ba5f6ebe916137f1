------------------------------- MODULE Waiting -------------------------------
(* The two places where threads wait for one of a few things to be free, and what both
   promise: a runner of RunnerPool, and a place of Semaphor.  They share no state. *)
EXTENDS RunnerPool, Semaphor

(* Nobody is left asleep while there is room for the one to go next: a runner is free
   (GetRunner, ~LockedRunner), or a place and it is the first in the queue (lock, unlock). *)
WaitersAwake == NobodySleepsIdle /\ FirstIsAwake
=============================================================================
