------------------------------ MODULE Semaphor ------------------------------
(* Semaphor: at most max holders, served in the order in which they asked. *)
EXTENDS Integers, Sequences, FiniteSets

CONSTANTS SemThreads, mMaxCount

VARIABLES
    mAvailable, semQueue,
    semPc      \* "out", "asleep" on mWaitCV, "awake" but not yet looking, "in"

semVars == <<mAvailable, semQueue, semPc>>

(* mutant of Woken: one waiter is told, whoever it is *)
WokenOne(pc) ==
    IF \A t \in SemThreads : pc[t] # "asleep" THEN pc
    ELSE [pc EXCEPT ![CHOOSE t \in SemThreads : pc[t] = "asleep"] = "awake"]

(* notify_all() on mWaitCV *)
Woken(pc) == [t \in SemThreads |-> IF pc[t] = "asleep" THEN "awake" ELSE pc[t]]

try_lock(t) ==
    /\ semPc[t] = "out"
    /\ mAvailable > 0 /\ semQueue = <<>>
    /\ mAvailable' = mAvailable - 1
    /\ semPc' = [semPc EXCEPT ![t] = "in"]
    /\ UNCHANGED semQueue

LeaveQueue(t, queue) ==
    LET taken == [semPc EXCEPT ![t] = "in"]
    IN  /\ semQueue' = Tail(queue)
        /\ mAvailable' = mAvailable - 1
        /\ semPc' = IF mAvailable > 1 /\ Tail(queue) # <<>> THEN Woken(taken) ELSE taken

(* the loop in lock(), with the mutex *)
TakeOrWait(t, queue) ==
    IF mAvailable > 0 /\ Head(queue) = t THEN LeaveQueue(t, queue)
    ELSE /\ semQueue' = queue /\ semPc' = [semPc EXCEPT ![t] = "asleep"]
         /\ UNCHANGED mAvailable

lock(t) == semPc[t] = "out" /\ TakeOrWait(t, Append(semQueue, t))

Resume(t) == semPc[t] = "awake" /\ TakeOrWait(t, semQueue)

unlock(t) ==
    LET left == [semPc EXCEPT ![t] = "out"]
    IN  /\ semPc[t] = "in"
        /\ mAvailable' = mAvailable + 1
        /\ semPc' = IF semQueue = <<>> THEN left ELSE Woken(left)
        /\ UNCHANGED semQueue

SemInit == mAvailable = mMaxCount /\ semQueue = <<>> /\ semPc = [t \in SemThreads |-> "out"]

SemNext == \E t \in SemThreads : try_lock(t) \/ lock(t) \/ Resume(t) \/ unlock(t)

SemSpec == SemInit /\ [][SemNext]_semVars

(* While there is room the first in the queue is not left asleep, however many leave at
   once and whoever looks first (lock, unlock). *)
FirstIsAwake ==
    /\ Cardinality({t \in SemThreads : semPc[t] = "in"}) + mAvailable = mMaxCount
    /\ mAvailable > 0 /\ semQueue # <<>> => semPc[Head(semQueue)] # "asleep"
=============================================================================
