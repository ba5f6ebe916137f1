----------------------------- MODULE RunnerPool ------------------------------
(* RunnerPool: threads take one of a few runners, make it when it is missing, and sleep when
   all are in use.  A LockedRunner is given back by its destructor, which unlocks the runner
   without the pool's mutex and then signals a waiter. *)
EXTENDS Integers, FiniteSets

CONSTANTS
    PoolThreads,
    PoolSize,      \* ConfigOptions::runnerPoolSize
    NoThread

VARIABLES
    mRunnerPool,     \* per place: "none", "first" or "clone"
    mRunnerLocks,    \* per place: the thread that has it, or NoThread
    poolMutex,       \* mMutex: the thread that has it, or NoThread
    poolPc,          \* per thread: "idle", "scan", "asleep", "woken", "using" or a destructor's step
    idx,             \* per thread: the place it tries or has
    user             \* per place: the thread that runs an action with the runner

poolVars == <<mRunnerPool, mRunnerLocks, poolMutex, poolPc, idx, user>>

Places == 0 .. PoolSize - 1

PoolInit ==
    /\ mRunnerPool = [i \in Places |-> IF i = 0 THEN "first" ELSE "none"]
    /\ mRunnerLocks = [i \in Places |-> NoThread]
    /\ poolMutex = NoThread
    /\ poolPc = [t \in PoolThreads |-> "idle"] /\ idx = [t \in PoolThreads |-> 0]
    /\ user = [i \in Places |-> NoThread]

At(t, label) == poolPc[t] = label
Go(t, label) == poolPc' = [poolPc EXCEPT ![t] = label]

GetRunner(t) ==
    /\ At(t, "idle") /\ poolMutex = NoThread
    /\ poolMutex' = t /\ idx' = [idx EXCEPT ![t] = 0] /\ Go(t, "scan")
    /\ UNCHANGED <<mRunnerPool, mRunnerLocks, user>>

(* the lock is busy: the next one, or wait for a signal *)
TryNext(t) ==
    /\ At(t, "scan") /\ mRunnerLocks[idx[t]] # NoThread
    /\ IF idx[t] + 1 = PoolSize
       THEN idx' = [idx EXCEPT ![t] = 0] /\ poolMutex' = NoThread /\ Go(t, "asleep")
       ELSE idx' = [idx EXCEPT ![t] = @ + 1] /\ UNCHANGED <<poolMutex, poolPc>>
    /\ UNCHANGED <<mRunnerPool, mRunnerLocks, user>>

TakeRunner(t) ==
    /\ At(t, "scan") /\ mRunnerLocks[idx[t]] = NoThread
    /\ mRunnerLocks' = [mRunnerLocks EXCEPT ![idx[t]] = t]
    /\ mRunnerPool' = [mRunnerPool EXCEPT ![idx[t]] = IF @ = "none" THEN "clone" ELSE @]
    /\ poolMutex' = NoThread /\ Go(t, "using")
    /\ user' = [user EXCEPT ![idx[t]] = t]
    /\ UNCHANGED idx

(* a condition variable may wake a thread that nobody notified *)
WakeUp(t) ==
    /\ At(t, "asleep")
    /\ Go(t, "woken")
    /\ UNCHANGED <<mRunnerPool, mRunnerLocks, poolMutex, idx, user>>

Relock(t) ==
    /\ At(t, "woken") /\ poolMutex = NoThread
    /\ poolMutex' = t /\ Go(t, "scan")
    /\ UNCHANGED <<mRunnerPool, mRunnerLocks, idx, user>>

(* ~LockedRunner: the action is done, "unlock BEFORE signal!" *)
DestructorSteps == [using |-> "unlock", unlock |-> "signal", signal |-> "idle"]

ActionEnds(t) ==
    /\ At(t, "using")
    /\ user' = [user EXCEPT ![idx[t]] = NoThread]
    /\ Go(t, DestructorSteps.using)
    /\ UNCHANGED <<mRunnerPool, mRunnerLocks, poolMutex, idx>>

Unlock(t) ==
    /\ At(t, "unlock")
    /\ mRunnerLocks' = [mRunnerLocks EXCEPT ![idx[t]] = NoThread]
    /\ Go(t, DestructorSteps.unlock)
    /\ UNCHANGED <<mRunnerPool, poolMutex, idx, user>>

SignalWaiters(t) ==
    /\ At(t, "signal") /\ poolMutex = NoThread
    /\ LET next == DestructorSteps.signal
           asleep == {w \in PoolThreads : At(w, "asleep")}
       IN  IF asleep = {} THEN Go(t, next)
           ELSE \E w \in asleep : poolPc' = [poolPc EXCEPT ![t] = next, ![w] = "woken"]
    /\ UNCHANGED <<mRunnerPool, mRunnerLocks, poolMutex, idx, user>>

PoolNext == \E t \in PoolThreads :
    \/ GetRunner(t) \/ TryNext(t) \/ TakeRunner(t) \/ WakeUp(t) \/ Relock(t)
    \/ ActionEnds(t) \/ Unlock(t) \/ SignalWaiters(t)

PoolSpec == PoolInit /\ [][PoolNext]_poolVars

(* Nobody sleeps while a runner is free and no signal, and no other thread that will give
   one, is on its way; and a runner, which is not thread safe, has one user, who has its
   lock (GetRunner, ~LockedRunner). *)
NobodySleepsIdle ==
    /\ (\E t \in PoolThreads : At(t, "asleep")) /\ (\E i \in Places : mRunnerLocks[i] = NoThread)
         => \E t \in PoolThreads : poolPc[t] \in {"signal", "woken", "scan", "using", "unlock"}
    /\ \A i \in Places : user[i] # NoThread => mRunnerLocks[i] = user[i] /\ mRunnerPool[i] # "none"
    /\ \A t \in PoolThreads : At(t, "scan") <=> poolMutex = t
=============================================================================
