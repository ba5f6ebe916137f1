------------------------------ MODULE PartsProofs ------------------------------
(* The parts of the library and of the FUSE program that keep a small state of their own, for
   every value of their constants: the waiting in RunnerPool and Semaphor, OrderedMap, a
   download, sessions, calls, requests and the life of a mount.  They share no state. *)
EXTENDS Waiting, OrderedMap, FetchFile, BackendSession, BackendCalls, Requests, FuseMount,
        NumberLemmas, FiniteSetTheorems, TLAPS

PoolOK == PoolSize \in Nat \ {0} /\ NoThread \notin PoolThreads

Labels == {"idle", "scan", "asleep", "woken", "using", "unlock", "signal"}

PoolTypeOK ==
    /\ mRunnerPool \in [Places -> {"none", "first", "clone"}]
    /\ mRunnerLocks \in [Places -> PoolThreads \cup {NoThread}]
    /\ user \in [Places -> PoolThreads \cup {NoThread}]
    /\ poolMutex \in PoolThreads \cup {NoThread}
    /\ poolPc \in [PoolThreads -> Labels]
    /\ idx \in [PoolThreads -> Places]

(* a thread has the lock of its place from TakeRunner() until it unlocks it *)
LocksAreTrue ==
    /\ \A t \in PoolThreads :
         poolPc[t] \in {"using", "unlock"} => mRunnerLocks[idx[t]] = t
    /\ \A i \in Places : mRunnerLocks[i] # NoThread =>
         /\ poolPc[mRunnerLocks[i]] \in {"using", "unlock"}
         /\ idx[mRunnerLocks[i]] = i
         /\ mRunnerPool[i] # "none"

UsersAreTrue ==
    \A i \in Places : user[i] # NoThread =>
        mRunnerLocks[i] = user[i] /\ poolPc[user[i]] = "using"

MutexIsTrue == \A t \in PoolThreads : poolPc[t] = "scan" <=> poolMutex = t

(* somebody who will signal, or who looks for a runner *)
Busy == {"signal", "woken", "scan", "using", "unlock"}
SomebodyBusy ==
    (\E t \in PoolThreads : poolPc[t] = "asleep") => \E t \in PoolThreads : poolPc[t] \in Busy

PoolInv == PoolTypeOK /\ LocksAreTrue /\ UsersAreTrue /\ MutexIsTrue /\ SomebodyBusy

-----------------------------------------------------------------------------
(* RunnerPool(): one runner, nobody at work *)
LEMMA PoolInitInv == ASSUME PoolOK, PoolInit PROVE PoolInv
<1>1. 0 \in Places
  BY DEF PoolOK, Places
<1> QED
  BY <1>1 DEF PoolOK, PoolInit, PoolInv, PoolTypeOK, LocksAreTrue, UsersAreTrue, MutexIsTrue,
     SomebodyBusy, Labels

(* No step of GetRunner() or of ~LockedRunner breaks the invariant. *)
LEMMA PoolStep ==
    ASSUME PoolOK, PoolInv, [PoolNext]_poolVars
    PROVE  PoolInv'
<1>1. ASSUME NEW t \in PoolThreads, GetRunner(t) PROVE PoolInv'
  <2>1. 0 \in Places
    BY DEF PoolOK, Places
  <2> QED
    BY <1>1, <2>1 DEF GetRunner, At, Go, PoolOK, PoolInv, PoolTypeOK, LocksAreTrue, UsersAreTrue,
       MutexIsTrue, SomebodyBusy, Busy, Labels
<1>2. ASSUME NEW t \in PoolThreads, TryNext(t) PROVE PoolInv'
  <2>1. /\ poolPc[t] = "scan" /\ idx[t] \in Places /\ mRunnerLocks[idx[t]] # NoThread
        /\ UNCHANGED <<mRunnerPool, mRunnerLocks, user>>
    BY <1>2 DEF TryNext, At, PoolInv, PoolTypeOK
  <2>2. PICK h \in PoolThreads : h = mRunnerLocks[idx[t]]
    BY <2>1 DEF PoolInv, PoolTypeOK
  <2>3. poolPc[h] \in {"using", "unlock"} /\ h # t
    BY <2>1, <2>2 DEF PoolInv, LocksAreTrue
  <2>4. CASE idx[t] + 1 = PoolSize
    <3>1. /\ idx' = [idx EXCEPT ![t] = 0] /\ poolMutex' = NoThread
          /\ poolPc' = [poolPc EXCEPT ![t] = "asleep"]
      BY <1>2, <2>4 DEF TryNext, Go
    <3>2. 0 \in Places
      BY DEF PoolOK, Places
    <3>3. poolPc'[h] \in Busy
      BY <2>3, <3>1 DEF PoolInv, PoolTypeOK, Busy
    <3> QED
      BY <2>1, <2>2, <3>1, <3>2, <3>3 DEF PoolOK, PoolInv, PoolTypeOK, LocksAreTrue,
         UsersAreTrue, MutexIsTrue, SomebodyBusy, Labels
  <2>5. CASE idx[t] + 1 # PoolSize
    <3>1. idx' = [idx EXCEPT ![t] = idx[t] + 1] /\ UNCHANGED <<poolMutex, poolPc>>
      BY <1>2, <2>5 DEF TryNext
    <3>2. idx[t] + 1 \in Places
      BY <2>1, <2>5 DEF PoolOK, Places
    <3> QED
      BY <2>1, <3>1, <3>2 DEF PoolInv, PoolTypeOK, LocksAreTrue, UsersAreTrue, MutexIsTrue,
         SomebodyBusy
  <2> QED
    BY <2>4, <2>5
<1>3. ASSUME NEW t \in PoolThreads, TakeRunner(t) PROVE PoolInv'
  <2>1. idx[t] \in Places
    BY DEF PoolInv, PoolTypeOK
  <2>2. PoolTypeOK'
    BY <1>3, <2>1 DEF TakeRunner, At, Go, PoolInv, PoolTypeOK, Labels
  <2>3. LocksAreTrue'
    BY <1>3, <2>1 DEF TakeRunner, At, Go, PoolOK, PoolInv, PoolTypeOK, LocksAreTrue
  <2>4. UsersAreTrue'
    BY <1>3, <2>1 DEF TakeRunner, At, Go, PoolOK, PoolInv, PoolTypeOK, LocksAreTrue, UsersAreTrue
  <2>5. MutexIsTrue' /\ SomebodyBusy'
    BY <1>3 DEF TakeRunner, At, Go, PoolOK, PoolInv, PoolTypeOK, MutexIsTrue, SomebodyBusy, Busy
  <2> QED
    BY <2>2, <2>3, <2>4, <2>5 DEF PoolInv
<1>4. ASSUME NEW t \in PoolThreads, WakeUp(t) PROVE PoolInv'
  BY <1>4 DEF WakeUp, At, Go, PoolInv, PoolTypeOK, LocksAreTrue, UsersAreTrue, MutexIsTrue,
     SomebodyBusy, Busy, Labels
<1>5. ASSUME NEW t \in PoolThreads, Relock(t) PROVE PoolInv'
  BY <1>5 DEF Relock, At, Go, PoolOK, PoolInv, PoolTypeOK, LocksAreTrue, UsersAreTrue,
     MutexIsTrue, SomebodyBusy, Busy, Labels
<1>6. ASSUME NEW t \in PoolThreads, ActionEnds(t) PROVE PoolInv'
  <2>1. idx[t] \in Places /\ poolPc[t] = "using" /\ mRunnerLocks[idx[t]] = t
        /\ poolPc' = [poolPc EXCEPT ![t] = "unlock"]
    BY <1>6 DEF ActionEnds, At, Go, DestructorSteps, PoolInv, PoolTypeOK, LocksAreTrue
  <2>2. PoolTypeOK' /\ LocksAreTrue' /\ MutexIsTrue' /\ SomebodyBusy'
    BY <1>6, <2>1 DEF ActionEnds, PoolInv, PoolTypeOK, LocksAreTrue, MutexIsTrue, SomebodyBusy,
       Busy, Labels
  <2>3. UsersAreTrue'
    BY <1>6, <2>1 DEF ActionEnds, PoolInv, PoolTypeOK, LocksAreTrue, UsersAreTrue
  <2> QED
    BY <2>2, <2>3 DEF PoolInv
<1>7. ASSUME NEW t \in PoolThreads, Unlock(t) PROVE PoolInv'
  <2>1. /\ idx[t] \in Places /\ poolPc[t] = "unlock" /\ mRunnerLocks[idx[t]] = t
        /\ poolPc' = [poolPc EXCEPT ![t] = "signal"]
        /\ mRunnerLocks' = [mRunnerLocks EXCEPT ![idx[t]] = NoThread]
        /\ UNCHANGED <<mRunnerPool, poolMutex, idx, user>>
    BY <1>7 DEF Unlock, At, Go, DestructorSteps, PoolInv, PoolTypeOK, LocksAreTrue
  <2>2. PoolTypeOK' /\ MutexIsTrue' /\ SomebodyBusy'
    BY <2>1 DEF PoolInv, PoolTypeOK, MutexIsTrue, SomebodyBusy, Busy, Labels
  <2>3. LocksAreTrue'
    BY <2>1 DEF PoolOK, PoolInv, PoolTypeOK, LocksAreTrue
  <2>4. UsersAreTrue'
    BY <2>1 DEF PoolOK, PoolInv, PoolTypeOK, LocksAreTrue, UsersAreTrue
  <2> QED
    BY <2>2, <2>3, <2>4 DEF PoolInv
<1>8. ASSUME NEW t \in PoolThreads, SignalWaiters(t) PROVE PoolInv'
  <2>1. poolPc[t] = "signal" /\ UNCHANGED <<mRunnerPool, mRunnerLocks, poolMutex, idx, user>>
    BY <1>8 DEF SignalWaiters, At
  <2>2. CASE {w \in PoolThreads : At(w, "asleep")} = {}
    <3>1. poolPc' = [poolPc EXCEPT ![t] = "idle"]
      BY <1>8, <2>2 DEF SignalWaiters, Go, DestructorSteps
    <3>2. \A w \in PoolThreads : poolPc[w] # "asleep"
      BY <2>2 DEF At
    <3> QED
      BY <2>1, <3>1, <3>2 DEF PoolInv, PoolTypeOK, LocksAreTrue, UsersAreTrue, MutexIsTrue,
         SomebodyBusy, Labels
  <2>3. CASE {w \in PoolThreads : At(w, "asleep")} # {}
    <3>1. PICK w \in PoolThreads :
            poolPc[w] = "asleep" /\ poolPc' = [poolPc EXCEPT ![t] = "idle", ![w] = "woken"]
      BY <1>8, <2>3 DEF SignalWaiters, At, DestructorSteps
    <3>2. poolPc'[w] = "woken" /\ poolPc' \in [PoolThreads -> Labels]
      BY <3>1 DEF PoolInv, PoolTypeOK, Labels
    <3>3. \A x \in PoolThreads : x # t /\ x # w => poolPc'[x] = poolPc[x]
      BY <3>1 DEF PoolInv, PoolTypeOK
    <3>4. poolPc'[t] = "idle" /\ t # w
      BY <2>1, <3>1 DEF PoolInv, PoolTypeOK
    <3> QED
      BY <2>1, <3>1, <3>2, <3>3, <3>4 DEF PoolInv, PoolTypeOK, LocksAreTrue, UsersAreTrue,
         MutexIsTrue, SomebodyBusy, Busy
  <2> QED
    BY <2>2, <2>3
<1>9. CASE UNCHANGED poolVars
  BY <1>9 DEF poolVars, PoolInv, PoolTypeOK, LocksAreTrue, UsersAreTrue, MutexIsTrue, SomebodyBusy
<1> QED
  BY <1>1, <1>2, <1>3, <1>4, <1>5, <1>6, <1>7, <1>8, <1>9 DEF PoolNext

(* The invariant says at least what the run checks of the pool. *)
LEMMA PoolInvIsEnough == ASSUME PoolOK, PoolInv PROVE NobodySleepsIdle
BY DEF PoolOK, PoolInv, PoolTypeOK, LocksAreTrue, UsersAreTrue, MutexIsTrue, SomebodyBusy, Busy,
   NobodySleepsIdle, At

(* However many threads share however many runners: a waiter is never left asleep with a
   runner free and nobody to tell it, although ~LockedRunner unlocks the runner outside of
   the pool's mutex; and a runner never has two users (RunnerPool::GetRunner). *)
THEOREM WaitersAreTold == ASSUME PoolOK PROVE PoolSpec => []NobodySleepsIdle
<1>1. PoolInit => PoolInv
  BY PoolInitInv
<1>2. PoolInv /\ [PoolNext]_poolVars => PoolInv'
  BY PoolStep
<1>3. PoolInv => NobodySleepsIdle
  BY PoolInvIsEnough
<1> QED
  BY <1>1, <1>2, <1>3, PTL DEF PoolSpec

-----------------------------------------------------------------------------
(* Semaphor: as many places as its constructor is given *)
SemOK == mMaxCount \in Nat /\ IsFiniteSet(SemThreads)

SemLabels == {"out", "asleep", "awake", "in"}

SemTypeOK ==
    /\ mAvailable \in Nat /\ semQueue \in Seq(SemThreads)
    /\ semPc \in [SemThreads -> SemLabels]

Inside(p) == {t \in SemThreads : p[t] = "in"}

(* who waits is in the queue *)
WaitersQueued == \A t \in SemThreads : semPc[t] \in {"asleep", "awake"} => Contains(semQueue, t)

SemInv == SemTypeOK /\ WaitersQueued /\ FirstIsAwake

(* how many are inside after one went in or out, and after notify_all() *)
LEMMA InsideCounts ==
    ASSUME SemOK, NEW p \in [SemThreads -> SemLabels], NEW t \in SemThreads
    PROVE  /\ IsFiniteSet(Inside(p)) /\ Cardinality(Inside(p)) \in Nat
           /\ Woken(p) \in [SemThreads -> SemLabels] /\ Inside(Woken(p)) = Inside(p)
           /\ p[t] # "in" => /\ [p EXCEPT ![t] = "in"] \in [SemThreads -> SemLabels]
                             /\ Cardinality(Inside([p EXCEPT ![t] = "in"]))
                                  = Cardinality(Inside(p)) + 1
           /\ p[t] = "in" => /\ [p EXCEPT ![t] = "out"] \in [SemThreads -> SemLabels]
                             /\ Cardinality(Inside([p EXCEPT ![t] = "out"]))
                                  = Cardinality(Inside(p)) - 1
           /\ p[t] # "in" => Inside([p EXCEPT ![t] = "asleep"]) = Inside(p)
<1>1. IsFiniteSet(Inside(p)) /\ Cardinality(Inside(p)) \in Nat
  <2>1. Inside(p) \in SUBSET SemThreads
    BY DEF Inside
  <2> QED
    BY <2>1, FS_Subset, FS_CardinalityType DEF SemOK
<1>2. Woken(p) \in [SemThreads -> SemLabels] /\ Inside(Woken(p)) = Inside(p)
  BY DEF Woken, Inside, SemLabels
<1>3. ASSUME p[t] # "in"
      PROVE  Cardinality(Inside([p EXCEPT ![t] = "in"])) = Cardinality(Inside(p)) + 1
  <2>1. Inside([p EXCEPT ![t] = "in"]) = Inside(p) \cup {t} /\ t \notin Inside(p)
    BY <1>3 DEF Inside
  <2> QED
    BY <1>1, <2>1, FS_AddElement
<1>4. ASSUME p[t] = "in"
      PROVE  Cardinality(Inside([p EXCEPT ![t] = "out"])) = Cardinality(Inside(p)) - 1
  <2>1. Inside([p EXCEPT ![t] = "out"]) = Inside(p) \ {t} /\ t \in Inside(p)
    BY <1>4 DEF Inside
  <2> QED
    BY <1>1, <2>1, FS_RemoveElement
<1>5. p[t] # "in" => Inside([p EXCEPT ![t] = "asleep"]) = Inside(p)
  BY DEF Inside
<1>6. /\ [p EXCEPT ![t] = "in"] \in [SemThreads -> SemLabels]
      /\ [p EXCEPT ![t] = "out"] \in [SemThreads -> SemLabels]
  BY DEF SemLabels
<1> QED
  BY <1>1, <1>2, <1>3, <1>4, <1>5, <1>6

(* no one holds or waits for the semaphore at first *)
LEMMA SemInitInv == ASSUME SemOK, SemInit PROVE SemInv
<1>1. Inside(semPc) = {} /\ SemTypeOK /\ semQueue = <<>>
  BY DEF SemOK, SemInit, SemTypeOK, Inside, SemLabels
<1>2. WaitersQueued
  BY DEF SemInit, WaitersQueued
<1>3. FirstIsAwake
  <2>1. Cardinality(Inside(semPc)) + mAvailable = mMaxCount
    BY <1>1, FS_EmptySet DEF SemInit, SemOK
  <2> QED
    BY <1>1, <2>1 DEF FirstIsAwake, Inside
<1> QED
  BY <1>1, <1>2, <1>3 DEF SemInv

(* the loop of lock(), of a thread that is not inside and that is in the queue q *)
LEMMA SemLoop ==
    ASSUME SemOK, SemInv, NEW t \in SemThreads, NEW q \in Seq(SemThreads), q # <<>>,
           semPc[t] # "in", \A x : Contains(q, x) <=> Contains(semQueue, x) \/ x = t,
           mAvailable > 0 /\ Head(q) # t => semPc[Head(q)] # "asleep",
           TakeOrWait(t, q)
    PROVE  SemInv'
<1>1. /\ semPc \in [SemThreads -> SemLabels] /\ mAvailable \in Nat
      /\ Cardinality(Inside(semPc)) + mAvailable = mMaxCount
  BY DEF SemInv, SemTypeOK, FirstIsAwake, Inside
<1>2. /\ Head(q) \in SemThreads /\ Tail(q) \in Seq(SemThreads)
      /\ \A x : Contains(q, x) <=> x = Head(q) \/ Contains(Tail(q), x)
  BY TailContains
<1>3. CASE mAvailable > 0 /\ Head(q) = t
  <2>1. PICK taken : taken = [semPc EXCEPT ![t] = "in"]
    OBVIOUS
  <2>2. /\ semQueue' = Tail(q) /\ mAvailable' = mAvailable - 1
        /\ semPc' = IF mAvailable > 1 /\ Tail(q) # <<>> THEN Woken(taken) ELSE taken
    BY <1>3, <2>1 DEF TakeOrWait, LeaveQueue
  <2>3. /\ taken \in [SemThreads -> SemLabels] /\ taken[t] = "in"
        /\ \A x \in SemThreads : x # t => taken[x] = semPc[x]
        /\ Cardinality(Inside(taken)) = Cardinality(Inside(semPc)) + 1
    BY <1>1, <2>1, InsideCounts
  <2>4. /\ Woken(taken) \in [SemThreads -> SemLabels] /\ Inside(Woken(taken)) = Inside(taken)
        /\ \A x \in SemThreads : Woken(taken)[x] # "asleep"
        /\ \A x \in SemThreads :
             Woken(taken)[x] \in {"asleep", "awake"} => taken[x] \in {"asleep", "awake"}
    BY <2>3, InsideCounts DEF Woken
  <2>5. SemTypeOK'
    BY <1>1, <1>2, <1>3, <2>2, <2>3, <2>4 DEF SemTypeOK
  <2>6. WaitersQueued'
    BY <1>2, <1>3, <2>2, <2>3, <2>4 DEF SemInv, WaitersQueued
  <2>7. Cardinality(Inside(semPc')) + mAvailable' = mMaxCount
    <3>1. Cardinality(Inside(semPc')) = Cardinality(Inside(semPc)) + 1
      BY <2>2, <2>3, <2>4
    <3>2. Cardinality(Inside(semPc)) \in Nat
      BY <1>1, InsideCounts
    <3> QED
      BY <1>1, <2>2, <3>1, <3>2
  <2>8. mAvailable' > 0 /\ semQueue' # <<>> => semPc'[Head(semQueue')] # "asleep"
    <3>1. Tail(q) # <<>> => Head(Tail(q)) \in SemThreads
      BY <1>2
    <3> QED
      BY <1>1, <2>2, <2>4, <3>1
  <2> QED
    BY <2>5, <2>6, <2>7, <2>8 DEF SemInv, FirstIsAwake, Inside
<1>4. CASE ~(mAvailable > 0 /\ Head(q) = t)
  <2>1. semQueue' = q /\ semPc' = [semPc EXCEPT ![t] = "asleep"] /\ mAvailable' = mAvailable
    BY <1>4 DEF TakeOrWait
  <2>2. SemTypeOK'
    BY <1>1, <2>1 DEF SemTypeOK, SemLabels
  <2>3. WaitersQueued'
    BY <1>1, <2>1 DEF SemInv, WaitersQueued
  <2>4. Inside(semPc') = Inside(semPc)
    BY <1>1, <2>1, InsideCounts
  <2>5. mAvailable' > 0 /\ semQueue' # <<>> => semPc'[Head(semQueue')] # "asleep"
    BY <1>1, <1>2, <1>4, <2>1
  <2>6. Cardinality(Inside(semPc')) + mAvailable' = mMaxCount
    BY <1>1, <2>1, <2>4
  <2> QED
    BY <2>2, <2>3, <2>5, <2>6 DEF SemInv, FirstIsAwake, Inside
<1> QED
  BY <1>3, <1>4

(* Every step of lock(), unlock() and of a thread that is woken keeps the invariant. *)
LEMMA SemStep == ASSUME SemOK, SemInv, [SemNext]_semVars PROVE SemInv'
<1>1. /\ semPc \in [SemThreads -> SemLabels] /\ mAvailable \in Nat
      /\ semQueue \in Seq(SemThreads)
      /\ Cardinality(Inside(semPc)) + mAvailable = mMaxCount
      /\ mAvailable > 0 /\ semQueue # <<>> => semPc[Head(semQueue)] # "asleep"
  BY DEF SemInv, SemTypeOK, FirstIsAwake, Inside
<1>2. ASSUME NEW t \in SemThreads, try_lock(t) PROVE SemInv'
  <2>1. /\ semPc[t] # "in" /\ semPc[t] = "out" /\ mAvailable > 0 /\ semQueue = <<>>
        /\ semPc' = [semPc EXCEPT ![t] = "in"]
        /\ mAvailable' = mAvailable - 1 /\ semQueue' = <<>>
    BY <1>2 DEF try_lock
  <2>2. SemTypeOK' /\ WaitersQueued'
    BY <1>1, <2>1 DEF SemInv, SemTypeOK, SemLabels, WaitersQueued
  <2>3. Cardinality(Inside(semPc')) = Cardinality(Inside(semPc)) + 1
    BY <1>1, <2>1, InsideCounts
  <2>4. Cardinality(Inside(semPc)) \in Nat
    BY <1>1, InsideCounts
  <2>5. Cardinality(Inside(semPc')) + mAvailable' = mMaxCount
    BY <1>1, <2>1, <2>3, <2>4
  <2> QED
    BY <2>1, <2>2, <2>5 DEF SemInv, FirstIsAwake, Inside
<1>3. ASSUME NEW t \in SemThreads, lock(t) PROVE SemInv'
  <2>1. PICK q : q = Append(semQueue, t)
    OBVIOUS
  <2>2. q \in Seq(SemThreads) /\ \A x : Contains(q, x) <=> Contains(semQueue, x) \/ x = t
    BY <1>1, <2>1, AppendContains
  <2>3. q # <<>> /\ (semQueue = <<>> => Head(q) = t) /\ (semQueue # <<>> => Head(q) = Head(semQueue))
    BY <1>1, <2>1
  <2>4. semPc[t] # "in" /\ TakeOrWait(t, q)
    BY <1>3, <2>1 DEF lock
  <2>5. mAvailable > 0 /\ Head(q) # t => semPc[Head(q)] # "asleep"
    BY <1>1, <2>3
  <2> QED
    BY <2>2, <2>3, <2>4, <2>5, SemLoop
<1>4. ASSUME NEW t \in SemThreads, Resume(t) PROVE SemInv'
  <2>1. Contains(semQueue, t) /\ semPc[t] # "in" /\ TakeOrWait(t, semQueue)
    BY <1>4 DEF Resume, SemInv, WaitersQueued
  <2>2. semQueue # <<>>
    BY <2>1, EmptyContains
  <2>3. \A x : Contains(semQueue, x) <=> Contains(semQueue, x) \/ x = t
    BY <2>1
  <2> QED
    BY <1>1, <2>1, <2>2, <2>3, SemLoop
<1>5. ASSUME NEW t \in SemThreads, unlock(t) PROVE SemInv'
  <2>1. PICK left : left = [semPc EXCEPT ![t] = "out"]
    OBVIOUS
  <2>2. /\ semPc[t] = "in" /\ mAvailable' = mAvailable + 1 /\ semQueue' = semQueue
        /\ semPc' = IF semQueue = <<>> THEN left ELSE Woken(left)
    BY <1>5, <2>1 DEF unlock
  <2>3. /\ left \in [SemThreads -> SemLabels] /\ left[t] = "out"
        /\ \A x \in SemThreads : x # t => left[x] = semPc[x]
        /\ Cardinality(Inside(left)) = Cardinality(Inside(semPc)) - 1
    BY <1>1, <2>1, <2>2, InsideCounts
  <2>4. /\ Woken(left) \in [SemThreads -> SemLabels] /\ Inside(Woken(left)) = Inside(left)
        /\ \A x \in SemThreads : Woken(left)[x] # "asleep"
        /\ \A x \in SemThreads :
             Woken(left)[x] \in {"asleep", "awake"} => left[x] \in {"asleep", "awake"}
    BY <2>3, InsideCounts DEF Woken
  <2>5. SemTypeOK' /\ WaitersQueued'
    BY <1>1, <2>2, <2>3, <2>4 DEF SemInv, SemTypeOK, WaitersQueued
  <2>6. Cardinality(Inside(semPc')) + mAvailable' = mMaxCount
    <3>1. Cardinality(Inside(semPc)) \in Nat
      BY <1>1, InsideCounts
    <3>2. Cardinality(Inside(semPc')) = Cardinality(Inside(semPc)) - 1
      BY <2>2, <2>3, <2>4
    <3> QED
      BY <1>1, <2>2, <3>1, <3>2
  <2>7. semQueue' # <<>> => semPc'[Head(semQueue')] # "asleep"
    BY <1>1, <2>2, <2>4
  <2> QED
    BY <2>5, <2>6, <2>7 DEF SemInv, FirstIsAwake, Inside
<1>6. CASE UNCHANGED semVars
  BY <1>6 DEF semVars, SemInv, SemTypeOK, WaitersQueued, FirstIsAwake
<1> QED
  BY <1>2, <1>3, <1>4, <1>5, <1>6 DEF SemNext

(* However many threads ask for however many places, and however many leave at once: while
   there is room, the first that asked is awake, and no place is given twice (lock, unlock). *)
THEOREM FirstIsServed == ASSUME SemOK PROVE SemSpec => []FirstIsAwake
<1>1. SemInit => SemInv
  BY SemInitInv
<1>2. SemInv /\ [SemNext]_semVars => SemInv'
  BY SemStep
<1>3. SemInv => FirstIsAwake
  BY DEF SemInv
<1> QED
  BY <1>1, <1>2, <1>3, PTL DEF SemSpec

(* The two together, as nothing of the one is of the other: what the run checks of both. *)
THEOREM WaitersStayAwake ==
    ASSUME PoolOK, SemOK PROVE PoolSpec /\ SemSpec => []WaitersAwake
<1>1. NobodySleepsIdle /\ FirstIsAwake => WaitersAwake
  BY DEF WaitersAwake
<1> QED
  BY <1>1, WaitersAreTold, FirstIsServed, PTL

-----------------------------------------------------------------------------
(* OrderedMap: q is the list of nodes, l the table, n what the nodes hold, m the map *)
MapOK == MaxSize \in Nat

ListOK(q, l, n, m) ==
    /\ q \in Seq(Addresses) /\ m \in Seq(Keys \X Entries) /\ Len(m) = Len(q)
    /\ \A i, j \in 1 .. Len(q) : q[i] = q[j] \/ m[i][1] = m[j][1] => i = j
    /\ \A a : a \in DOMAIN n <=> \E i \in 1 .. Len(q) : q[i] = a
    /\ \A k : k \in DOMAIN l <=> \E i \in 1 .. Len(q) : m[i][1] = k
    /\ \A i \in 1 .. Len(q) : n[q[i]] = m[i] /\ l[m[i][1]] = q[i]

MapInv == ListOK(mQueue, mLookup, node, map)

(* s with x put in at p, and t without what s has at p *)
IsInsertion(t, s, p, x) ==
    /\ Len(t) = Len(s) + 1 /\ t[p] = x
    /\ \A i \in 1 .. Len(s) + 1 : /\ i < p => t[i] = s[i]
                                  /\ i > p => t[i] = s[i - 1]
IsRemoval(t, s, p) ==
    /\ Len(t) = Len(s) - 1
    /\ \A i \in 1 .. Len(s) - 1 : t[i] = IF i < p THEN s[i] ELSE s[i + 1]

(* a node that is new, with a key that is new *)
LEMMA EntryIn ==
    ASSUME NEW q, NEW l, NEW n, NEW m, ListOK(q, l, n, m),
           NEW a \in Addresses, ~(\E i \in 1 .. Len(q) : q[i] = a),
           NEW k \in Keys, k \notin DOMAIN l, NEW v \in Entries,
           NEW q2 \in Seq(Addresses), NEW m2 \in Seq(Keys \X Entries), NEW p \in 1 .. Len(q) + 1,
           IsInsertion(q2, q, p, a), IsInsertion(m2, m, p, <<k, v>>)
    PROVE  ListOK(q2, Add(l, k, a), Add(n, a, <<k, v>>), m2)
<1>1. /\ Len(q) \in Nat /\ p \in Nat /\ Len(m) = Len(q) /\ Len(q2) = Len(q) + 1
      /\ Len(m2) = Len(q) + 1
  BY DEF ListOK, IsInsertion
<1>2. /\ q2[p] = a /\ m2[p] = <<k, v>> /\ m2[p][1] = k
  BY DEF IsInsertion
<1>3. ASSUME NEW i \in 1 .. Len(q) + 1, i # p
      PROVE  \E o \in 1 .. Len(q) : /\ q2[i] = q[o] /\ m2[i] = m[o]
                                    /\ o = IF i < p THEN i ELSE i - 1
  <2>1. CASE i < p
    <3>1. i \in 1 .. Len(q) /\ q2[i] = q[i] /\ m2[i] = m[i]
      BY <1>1, <2>1 DEF IsInsertion
    <3> QED
      BY <2>1, <3>1
  <2>2. CASE i > p
    <3>1. i - 1 \in 1 .. Len(q) /\ ~(i < p)
      BY <1>1, <2>2
    <3>2. q2[i] = q[i - 1] /\ m2[i] = m[i - 1]
      BY <1>1, <2>2 DEF IsInsertion
    <3> QED
      BY <3>1, <3>2
  <2> QED
    BY <1>1, <1>3, <2>1, <2>2
<1>4. ASSUME NEW o \in 1 .. Len(q)
      PROVE  \E i \in 1 .. Len(q) + 1 : i # p /\ q2[i] = q[o] /\ m2[i] = m[o]
  <2>1. CASE o < p
    BY <1>1, <2>1 DEF IsInsertion
  <2>2. CASE o >= p
    <3>1. PICK i \in 1 .. Len(q) + 1 : i = o + 1
      BY <1>1
    <3>2. i > p /\ i - 1 = o
      BY <1>1, <2>2, <3>1
    <3>3. q2[i] = q[i - 1] /\ m2[i] = m[i - 1]
      BY <1>1, <3>2 DEF IsInsertion
    <3>4. i # p /\ q2[i] = q[o] /\ m2[i] = m[o]
      BY <1>1, <3>2, <3>3
    <3> QED
      BY <3>4
  <2>3. o < p \/ o >= p
    BY <1>1
  <2> QED
    BY <2>1, <2>2, <2>3, Zenon
<1>5. \A o \in 1 .. Len(q) : q[o] # a /\ m[o][1] # k
  BY DEF ListOK
<1>6. ASSUME NEW i \in 1 .. Len(q) + 1, NEW j \in 1 .. Len(q) + 1,
             q2[i] = q2[j] \/ m2[i][1] = m2[j][1]
      PROVE  i = j
  <2>1. CASE i = p
    BY <1>2, <1>3, <1>5, <1>6, <2>1
  <2>2. CASE j = p
    BY <1>2, <1>3, <1>5, <1>6, <2>2
  <2>3. CASE i # p /\ j # p
    <3>1. PICK o \in 1 .. Len(q) :
            q2[i] = q[o] /\ m2[i] = m[o] /\ o = IF i < p THEN i ELSE i - 1
      BY <1>3, <2>3
    <3>2. PICK r \in 1 .. Len(q) :
            q2[j] = q[r] /\ m2[j] = m[r] /\ r = IF j < p THEN j ELSE j - 1
      BY <1>3, <2>3
    <3>3. q[o] = q[r] \/ m[o][1] = m[r][1]
      BY <1>6, <3>1, <3>2
    <3>4. o = r
      BY <3>3 DEF ListOK
    <3> QED
      BY <1>1, <2>3, <3>1, <3>2, <3>4
  <2> QED
    BY <2>1, <2>2, <2>3
<1>7. ASSUME NEW x
      PROVE  x \in DOMAIN Add(n, a, <<k, v>>) <=> \E i \in 1 .. Len(q) + 1 : q2[i] = x
  <2>1. x \in DOMAIN Add(n, a, <<k, v>>) <=> x = a \/ \E o \in 1 .. Len(q) : q[o] = x
    BY DEF Add, ListOK
  <2> QED
    BY <1>2, <1>3, <1>4, <2>1, ZenonT(40)
<1>8. ASSUME NEW x
      PROVE  x \in DOMAIN Add(l, k, a) <=> \E i \in 1 .. Len(q) + 1 : m2[i][1] = x
  <2>1. x \in DOMAIN Add(l, k, a) <=> x = k \/ \E o \in 1 .. Len(q) : m[o][1] = x
    BY DEF Add, ListOK
  <2>2. ASSUME NEW i \in 1 .. Len(q) + 1 PROVE m2[i][1] = k \/ \E o \in 1 .. Len(q) : m[o][1] = m2[i][1]
    BY <1>2, <1>3
  <2>3. ASSUME NEW o \in 1 .. Len(q) PROVE \E i \in 1 .. Len(q) + 1 : m2[i][1] = m[o][1]
    BY <1>4
  <2> QED
    BY <1>2, <2>1, <2>2, <2>3
<1>9. ASSUME NEW i \in 1 .. Len(q) + 1
      PROVE  Add(n, a, <<k, v>>)[q2[i]] = m2[i] /\ Add(l, k, a)[m2[i][1]] = q2[i]
  <2>1. CASE i = p
    BY <1>2, <2>1 DEF Add
  <2>2. CASE i # p
    <3>1. PICK o \in 1 .. Len(q) : q2[i] = q[o] /\ m2[i] = m[o]
      BY <1>3, <2>2
    <3>2. /\ q[o] \in DOMAIN n /\ n[q[o]] = m[o] /\ q[o] # a
          /\ m[o][1] \in DOMAIN l /\ l[m[o][1]] = q[o] /\ m[o][1] # k
      BY <1>5 DEF ListOK
    <3> QED
      BY <3>1, <3>2 DEF Add
  <2> QED
    BY <2>1, <2>2
<1>10. \A i, j \in 1 .. Len(q2) : q2[i] = q2[j] \/ m2[i][1] = m2[j][1] => i = j
  BY <1>1, <1>6
<1>11. /\ \A x : x \in DOMAIN Add(n, a, <<k, v>>) <=> \E i \in 1 .. Len(q2) : q2[i] = x
       /\ \A x : x \in DOMAIN Add(l, k, a) <=> \E i \in 1 .. Len(q2) : m2[i][1] = x
  BY <1>1, <1>7, <1>8
<1>12. \A i \in 1 .. Len(q2) :
         Add(n, a, <<k, v>>)[q2[i]] = m2[i] /\ Add(l, k, a)[m2[i][1]] = q2[i]
  BY <1>1, <1>9
<1> QED
  BY <1>1, <1>10, <1>11, <1>12 DEF ListOK

(* a node that goes, with its key *)
LEMMA EntryOut ==
    ASSUME NEW q, NEW l, NEW n, NEW m, ListOK(q, l, n, m), NEW p \in 1 .. Len(q),
           NEW q2 \in Seq(Addresses), NEW m2 \in Seq(Keys \X Entries),
           IsRemoval(q2, q, p), IsRemoval(m2, m, p)
    PROVE  ListOK(q2, Drop(l, m[p][1]), Drop(n, q[p]), m2)
<1>1. /\ Len(q) \in Nat /\ p \in Nat /\ Len(m) = Len(q) /\ Len(q2) = Len(q) - 1
      /\ Len(m2) = Len(q) - 1
  BY DEF ListOK, IsRemoval
<1>2. ASSUME NEW i \in 1 .. Len(q) - 1
      PROVE  \E o \in 1 .. Len(q) : /\ o # p /\ q2[i] = q[o] /\ m2[i] = m[o]
                                    /\ o = IF i < p THEN i ELSE i + 1
  BY <1>1 DEF IsRemoval
<1>3. ASSUME NEW o \in 1 .. Len(q), o # p
      PROVE  \E i \in 1 .. Len(q) - 1 : q2[i] = q[o] /\ m2[i] = m[o]
  <2>1. CASE o < p
    BY <1>1, <2>1 DEF IsRemoval
  <2>2. CASE o > p
    <3>1. o - 1 \in 1 .. Len(q) - 1 /\ ~(o - 1 < p) /\ (o - 1) + 1 = o
      BY <1>1, <2>2
    <3> QED
      BY <1>1, <3>1 DEF IsRemoval
  <2> QED
    BY <1>1, <1>3, <2>1, <2>2
<1>4. \A o \in 1 .. Len(q) : o # p => q[o] # q[p] /\ m[o][1] # m[p][1]
  BY DEF ListOK
<1>5. ASSUME NEW i \in 1 .. Len(q) - 1, NEW j \in 1 .. Len(q) - 1,
             q2[i] = q2[j] \/ m2[i][1] = m2[j][1]
      PROVE  i = j
  <2>1. PICK o \in 1 .. Len(q) : q2[i] = q[o] /\ m2[i] = m[o] /\ o = IF i < p THEN i ELSE i + 1
    BY <1>2
  <2>2. PICK r \in 1 .. Len(q) : q2[j] = q[r] /\ m2[j] = m[r] /\ r = IF j < p THEN j ELSE j + 1
    BY <1>2
  <2>3. o = r
    BY <1>5, <2>1, <2>2 DEF ListOK
  <2> QED
    BY <1>1, <2>1, <2>2, <2>3
<1>6. ASSUME NEW x PROVE x \in DOMAIN Drop(n, q[p]) <=> \E i \in 1 .. Len(q) - 1 : q2[i] = x
  <2>1. x \in DOMAIN Drop(n, q[p]) <=> x # q[p] /\ \E o \in 1 .. Len(q) : q[o] = x
    BY DEF Drop, ListOK
  <2>2. ASSUME NEW i \in 1 .. Len(q) - 1
        PROVE  q2[i] # q[p] /\ \E o \in 1 .. Len(q) : q[o] = q2[i]
    BY <1>2, <1>4
  <2>3. ASSUME NEW o \in 1 .. Len(q), q[o] # q[p] PROVE \E i \in 1 .. Len(q) - 1 : q2[i] = q[o]
    BY <1>3, <2>3
  <2> QED
    BY <2>1, <2>2, <2>3
<1>7. ASSUME NEW x PROVE x \in DOMAIN Drop(l, m[p][1]) <=> \E i \in 1 .. Len(q) - 1 : m2[i][1] = x
  <2>1. x \in DOMAIN Drop(l, m[p][1]) <=> x # m[p][1] /\ \E o \in 1 .. Len(q) : m[o][1] = x
    BY DEF Drop, ListOK
  <2>2. ASSUME NEW i \in 1 .. Len(q) - 1, m2[i][1] = x PROVE x \in DOMAIN Drop(l, m[p][1])
    BY <1>2, <1>4, <2>1, <2>2
  <2>3. ASSUME x \in DOMAIN Drop(l, m[p][1]) PROVE \E i \in 1 .. Len(q) - 1 : m2[i][1] = x
    <3>1. PICK o \in 1 .. Len(q) : m[o][1] = x /\ o # p
      BY <2>1, <2>3
    <3>2. PICK i \in 1 .. Len(q) - 1 : m2[i] = m[o]
      BY <1>3, <3>1
    <3> QED
      BY <3>1, <3>2
  <2> QED
    BY <2>2, <2>3
<1>8. ASSUME NEW i \in 1 .. Len(q) - 1
      PROVE  Drop(n, q[p])[q2[i]] = m2[i] /\ Drop(l, m[p][1])[m2[i][1]] = q2[i]
  <2>1. PICK o \in 1 .. Len(q) : o # p /\ q2[i] = q[o] /\ m2[i] = m[o]
    BY <1>2
  <2>2. /\ q[o] \in DOMAIN n /\ n[q[o]] = m[o] /\ q[o] # q[p]
        /\ m[o][1] \in DOMAIN l /\ l[m[o][1]] = q[o] /\ m[o][1] # m[p][1]
    BY <1>4, <2>1 DEF ListOK
  <2> QED
    BY <2>1, <2>2 DEF Drop
<1>9. \A i, j \in 1 .. Len(q2) : q2[i] = q2[j] \/ m2[i][1] = m2[j][1] => i = j
  BY <1>1, <1>5
<1>10. /\ \A x : x \in DOMAIN Drop(n, q[p]) <=> \E i \in 1 .. Len(q2) : q2[i] = x
       /\ \A x : x \in DOMAIN Drop(l, m[p][1]) <=> \E i \in 1 .. Len(q2) : m2[i][1] = x
  BY <1>1, <1>6, <1>7
<1>11. \A i \in 1 .. Len(q2) :
         Drop(n, q[p])[q2[i]] = m2[i] /\ Drop(l, m[p][1])[m2[i][1]] = q2[i]
  BY <1>1, <1>8
<1> QED
  BY <1>1, <1>9, <1>10, <1>11 DEF ListOK

(* while there is room, there is an address that no node has *)
LEMMA AddressIsFree ==
    ASSUME MapOK, mQueue \in Seq(Addresses), Len(mQueue) < MaxSize
    PROVE  NewAddress \in Addresses /\ ~(\E i \in 1 .. Len(mQueue) : mQueue[i] = NewAddress)
<1>1. Len(mQueue) \in Nat /\ DOMAIN mQueue = 1 .. Len(mQueue)
  OBVIOUS
<1>2. \E a \in Addresses : \A i \in DOMAIN mQueue : mQueue[i] # a
  <2> SUFFICES ASSUME \A a \in Addresses : \E i \in DOMAIN mQueue : mQueue[i] = a PROVE FALSE
    OBVIOUS
  <2>1. PICK used : used = {mQueue[i] : i \in 1 .. Len(mQueue)}
    OBVIOUS
  <2>2. IsFiniteSet(1 .. Len(mQueue)) /\ Cardinality(1 .. Len(mQueue)) = Len(mQueue)
    BY <1>1, FS_Interval, SMTT(30)
  <2>3. IsFiniteSet(used) /\ Cardinality(used) <= Len(mQueue)
    <3>1. mQueue \in Surjection(1 .. Len(mQueue), used)
      BY <1>1, <2>1 DEF Surjection
    <3> QED
      BY <2>2, <3>1, FS_Surjection
  <2>4. Addresses \in SUBSET used
    BY <1>1, <2>1
  <2>5. Cardinality(Addresses) <= Cardinality(used)
    BY <2>3, <2>4, FS_Subset
  <2>6. Cardinality(Addresses) = MaxSize /\ IsFiniteSet(Addresses)
    BY FS_Interval DEF Addresses, MapOK
  <2>7. Cardinality(used) \in Nat
    BY <2>3, FS_CardinalityType
  <2> QED
    BY <1>1, <2>3, <2>5, <2>6, <2>7 DEF MapOK
<1> QED
  BY <1>1, <1>2 DEF NewAddress

(* the first entry and the others *)
LEMMA FrontAndTail ==
    ASSUME NEW S, NEW s \in Seq(S), s # <<>>
    PROVE  /\ Len(s) \in Nat \ {0} /\ Head(s) = s[1] /\ Last(s) = s[Len(s)]
           /\ Tail(s) \in Seq(S) /\ IsRemoval(Tail(s), s, 1)
           /\ Front(s) \in Seq(S) /\ IsRemoval(Front(s), s, Len(s))
<1>1. Len(s) \in Nat \ {0} /\ Head(s) = s[1] /\ Last(s) = s[Len(s)]
  BY DEF Last
<1>2. Tail(s) \in Seq(S) /\ IsRemoval(Tail(s), s, 1)
  <2>1. /\ Tail(s) \in Seq(S) /\ Len(Tail(s)) = Len(s) - 1
        /\ \A j \in 1 .. Len(s) - 1 : Tail(s)[j] = s[j + 1]
    OBVIOUS
  <2>2. \A j \in 1 .. Len(s) - 1 : ~(j < 1)
    BY <1>1
  <2> QED
    BY <2>1, <2>2 DEF IsRemoval
<1>3. Front(s) \in Seq(S) /\ IsRemoval(Front(s), s, Len(s))
  <2>1. Len(s) - 1 \in Nat /\ Len(s) - 1 <= Len(s)
    BY <1>1
  <2>2. Front(s) = SubSeq(s, 1, Len(s) - 1)
    BY DEF Front
  <2>3. /\ Front(s) \in Seq(S) /\ Len(Front(s)) = Len(s) - 1
        /\ \A j \in 1 .. Len(s) - 1 : Front(s)[j] = s[j]
    <3>1. PICK k \in Nat : k = Len(s) - 1 /\ k <= Len(s)
      BY <2>1
    <3>2. \A j \in 1 .. k : j \in 1 .. Len(s)
      BY <1>1, <3>1
    <3>3. /\ SubSeq(s, 1, k) \in Seq(S) /\ Len(SubSeq(s, 1, k)) = k
          /\ \A j \in 1 .. k : SubSeq(s, 1, k)[j] = s[j]
      BY <1>1, <3>1, <3>2
    <3> QED
      BY <2>2, <3>1, <3>3
  <2>4. \A j \in 1 .. Len(s) - 1 : j < Len(s)
    BY <1>1
  <2> QED
    BY <2>3, <2>4 DEF IsRemoval
<1> QED
  BY <1>1, <1>2, <1>3

(* an entry of the list goes, the others stay in their order *)
LEMMA RemoveAtRemoves ==
    ASSUME NEW S, NEW s \in Seq(S), NEW p \in 1 .. Len(s)
    PROVE  RemoveAt(s, p) \in Seq(S) /\ IsRemoval(RemoveAt(s, p), s, p)
BY Removal DEF IsRemoval

(* an entry is put before or after all others *)
LEMMA Insertions ==
    ASSUME NEW S, NEW s \in Seq(S), NEW x \in S
    PROVE  /\ Append(s, x) \in Seq(S) /\ IsInsertion(Append(s, x), s, Len(s) + 1, x)
           /\ <<x>> \o s \in Seq(S) /\ IsInsertion(<<x>> \o s, s, 1, x)
           /\ Len(s) + 1 \in 1 .. Len(s) + 1 /\ 1 \in 1 .. Len(s) + 1
<1>1. Append(s, x) \in Seq(S) /\ IsInsertion(Append(s, x), s, Len(s) + 1, x)
  BY DEF IsInsertion
<1>2. <<x>> \o s \in Seq(S) /\ IsInsertion(<<x>> \o s, s, 1, x)
  <2>1. <<x>> \in Seq(S) /\ Len(<<x>>) = 1 /\ <<x>>[1] = x /\ Len(s) \in Nat
    OBVIOUS
  <2>2. PICK y : y = <<x>>
    OBVIOUS
  <2>3. /\ y \o s \in Seq(S) /\ Len(y \o s) = Len(y) + Len(s)
        /\ \A j \in 1 .. Len(y) + Len(s) : (y \o s)[j] = IF j <= Len(y) THEN y[j] ELSE s[j - Len(y)]
    BY <2>1, <2>2, ConcatElements
  <2>4. \A j \in 1 .. Len(s) + 1 : (y \o s)[j] = IF j <= 1 THEN x ELSE s[j - 1]
    BY <2>1, <2>2, <2>3
  <2>5. Len(y \o s) = Len(s) + 1 /\ y \o s \in Seq(S)
    BY <2>1, <2>2, <2>3
  <2>6. IsInsertion(y \o s, s, 1, x)
    BY <2>1, <2>4, <2>5 DEF IsInsertion
  <2> QED
    BY <2>2, <2>5, <2>6
<1> QED
  BY <1>1, <1>2

(* enqueue_front() and enqueue_back() *)
LEMMA EnqueueStep == ASSUME MapOK, MapInv, NEW front \in BOOLEAN, enqueue(front) PROVE MapInv'
<1>1. PICK key \in Keys, value \in Entries, a \in {NewAddress} :
        /\ ~exists(key) /\ Len(mQueue) < MaxSize
        /\ mQueue' = IF front THEN <<a>> \o mQueue ELSE Append(mQueue, a)
        /\ node' = Add(node, a, <<key, value>>)
        /\ mLookup' = Add(mLookup, key, a)
        /\ map' = IF front THEN <<<<key, value>>>> \o map ELSE Append(map, <<key, value>>)
  BY DEF enqueue
<1>2. PICK e : e = <<key, value>>
  OBVIOUS
<1>3. mQueue \in Seq(Addresses) /\ map \in Seq(Keys \X Entries) /\ e \in Keys \X Entries
  BY <1>2 DEF MapInv, ListOK
<1>4. a \in Addresses /\ ~(\E i \in 1 .. Len(mQueue) : mQueue[i] = a)
  BY <1>1, <1>3, AddressIsFree
<1>5. key \notin DOMAIN mLookup /\ Len(map) = Len(mQueue)
  BY <1>1 DEF exists, MapInv, ListOK
<1>6. CASE front
  <2>1. /\ mQueue' \in Seq(Addresses) /\ IsInsertion(mQueue', mQueue, 1, a)
        /\ 1 \in 1 .. Len(mQueue) + 1
    BY <1>1, <1>3, <1>4, <1>6, Insertions
  <2>2. map' \in Seq(Keys \X Entries) /\ IsInsertion(map', map, 1, e)
    BY <1>1, <1>2, <1>3, <1>6, Insertions
  <2> QED
    BY <1>1, <1>2, <1>4, <1>5, <2>1, <2>2, EntryIn DEF MapInv
<1>7. CASE ~front
  <2>1. /\ mQueue' \in Seq(Addresses) /\ IsInsertion(mQueue', mQueue, Len(mQueue) + 1, a)
        /\ Len(mQueue) + 1 \in 1 .. Len(mQueue) + 1
    BY <1>1, <1>3, <1>4, <1>7, Insertions
  <2>2. map' \in Seq(Keys \X Entries) /\ IsInsertion(map', map, Len(mQueue) + 1, e)
    BY <1>1, <1>2, <1>3, <1>5, <1>7, Insertions
  <2> QED
    BY <1>1, <1>2, <1>4, <1>5, <2>1, <2>2, EntryIn DEF MapInv
<1> QED
  BY <1>6, <1>7

(* erase() of a key *)
LEMMA EraseStep == ASSUME MapOK, MapInv, erase PROVE MapInv'
<1>1. PICK key \in Keys :
        /\ key \in DOMAIN mLookup /\ EraseNode(mLookup[key])
        /\ mLookup' = Drop(mLookup, key)
        /\ map' = RemoveAt(map, CHOOSE i \in DOMAIN map : map[i][1] = key)
  BY DEF erase, exists
<1>2. PICK p \in 1 .. Len(mQueue) : map[p][1] = key
  BY <1>1 DEF MapInv, ListOK
<1>3. /\ mQueue \in Seq(Addresses) /\ map \in Seq(Keys \X Entries) /\ Len(map) = Len(mQueue)
      /\ DOMAIN mQueue = 1 .. Len(mQueue) /\ DOMAIN map = 1 .. Len(mQueue)
      /\ mLookup[key] = mQueue[p]
      /\ \A i \in 1 .. Len(mQueue) : map[i][1] = key \/ mQueue[i] = mQueue[p] => i = p
  <2>1. /\ mQueue \in Seq(Addresses) /\ map \in Seq(Keys \X Entries) /\ Len(map) = Len(mQueue)
        /\ \A i, j \in 1 .. Len(mQueue) :
             mQueue[i] = mQueue[j] \/ map[i][1] = map[j][1] => i = j
        /\ \A i \in 1 .. Len(mQueue) : mLookup[map[i][1]] = mQueue[i]
    BY DEF MapInv, ListOK
  <2>2. DOMAIN mQueue = 1 .. Len(mQueue) /\ DOMAIN map = 1 .. Len(mQueue)
    BY <2>1
  <2>3. mLookup[key] = mQueue[p]
    BY <1>2, <2>1
  <2>4. \A i \in 1 .. Len(mQueue) : map[i][1] = key \/ mQueue[i] = mQueue[p] => i = p
    BY <1>2, <2>1
  <2> QED
    BY <2>1, <2>2, <2>3, <2>4
<1>4. /\ p = CHOOSE i \in DOMAIN map : map[i][1] = key
      /\ p = CHOOSE i \in DOMAIN mQueue : mQueue[i] = mLookup[key]
  BY <1>2, <1>3
<1>5. /\ mQueue' = RemoveAt(mQueue, p) /\ node' = Drop(node, mQueue[p])
      /\ mLookup' = Drop(mLookup, map[p][1]) /\ map' = RemoveAt(map, p)
  BY <1>1, <1>2, <1>3, <1>4 DEF EraseNode
<1>6. /\ mQueue' \in Seq(Addresses) /\ IsRemoval(mQueue', mQueue, p)
      /\ map' \in Seq(Keys \X Entries) /\ IsRemoval(map', map, p)
  BY <1>3, <1>5, RemoveAtRemoves
<1> QED
  BY <1>5, <1>6, EntryOut DEF MapInv

(* pop() of what the list has at p *)
LEMMA PopStep ==
    ASSUME MapOK, MapInv, NEW p \in 1 .. Len(mQueue), NEW rest \in Seq(Keys \X Entries),
           IsRemoval(rest, map, p), pop(mQueue[p], rest)
    PROVE  MapInv'
<1>1. /\ mQueue \in Seq(Addresses) /\ DOMAIN mQueue = 1 .. Len(mQueue)
      /\ \A i \in 1 .. Len(mQueue) : mQueue[i] = mQueue[p] => i = p
      /\ node[mQueue[p]] = map[p]
  BY DEF MapInv, ListOK
<1>2. p = CHOOSE i \in DOMAIN mQueue : mQueue[i] = mQueue[p]
  BY <1>1
<1>3. /\ mQueue' = RemoveAt(mQueue, p) /\ node' = Drop(node, mQueue[p])
      /\ mLookup' = Drop(mLookup, map[p][1]) /\ map' = rest
  BY <1>1, <1>2 DEF pop, EraseNode
<1>4. mQueue' \in Seq(Addresses) /\ IsRemoval(mQueue', mQueue, p)
  BY <1>1, <1>3, RemoveAtRemoves
<1> QED
  BY <1>3, <1>4, EntryOut DEF MapInv

(* Every operation of the map keeps the invariant. *)
LEMMA MapStep == ASSUME MapOK, MapInv, [MapNext]_mapVars PROVE MapInv'
<1>1. mQueue \in Seq(Addresses) /\ map \in Seq(Keys \X Entries) /\ Len(map) = Len(mQueue)
  BY DEF MapInv, ListOK
<1>2. ASSUME mQueue # <<>> PROVE map # <<>>
  BY <1>1, <1>2
<1>3. CASE pop_front
  <2>1. /\ mQueue # <<>> /\ pop(mQueue[1], Tail(map)) /\ 1 \in 1 .. Len(mQueue)
        /\ Tail(map) \in Seq(Keys \X Entries) /\ IsRemoval(Tail(map), map, 1)
    <3>1. mQueue # <<>> /\ pop(Head(mQueue), Tail(map)) /\ map # <<>>
      BY <1>2, <1>3 DEF pop_front
    <3>2. Head(mQueue) = mQueue[1] /\ Len(mQueue) \in Nat \ {0}
      BY <1>1, <3>1, FrontAndTail
    <3>3. Tail(map) \in Seq(Keys \X Entries) /\ IsRemoval(Tail(map), map, 1)
      BY <1>1, <3>1, FrontAndTail
    <3> QED
      BY <3>1, <3>2, <3>3
  <2> QED
    BY <2>1, PopStep
<1>4. CASE pop_back
  <2>1. /\ mQueue # <<>> /\ pop(mQueue[Len(mQueue)], Front(map))
        /\ Len(mQueue) \in 1 .. Len(mQueue)
        /\ Front(map) \in Seq(Keys \X Entries) /\ IsRemoval(Front(map), map, Len(mQueue))
    <3>1. mQueue # <<>> /\ pop(Last(mQueue), Front(map)) /\ map # <<>>
      BY <1>2, <1>4 DEF pop_back
    <3>2. Last(mQueue) = mQueue[Len(mQueue)] /\ Len(mQueue) \in Nat \ {0}
      BY <1>1, <3>1, FrontAndTail
    <3>3. Front(map) \in Seq(Keys \X Entries) /\ IsRemoval(Front(map), map, Len(mQueue))
      BY <1>1, <3>1, FrontAndTail
    <3> QED
      BY <3>1, <3>2, <3>3
  <2> QED
    BY <2>1, PopStep
<1>5. CASE clear
  BY <1>5 DEF clear, MapInv, ListOK
<1>6. CASE UNCHANGED mapVars
  BY <1>6 DEF mapVars, MapInv
<1> QED
  BY <1>3, <1>4, <1>5, <1>6, EnqueueStep, EraseStep DEF MapNext, enqueue_front, enqueue_back

(* The invariant says at least what the run checks of the map. *)
LEMMA ListIsTable == ASSUME MapOK, MapInv PROVE TableIsList
<1>1. /\ mQueue \in Seq(Addresses) /\ map \in Seq(Keys \X Entries) /\ Len(map) = Len(mQueue)
      /\ DOMAIN mQueue = 1 .. Len(mQueue) /\ DOMAIN map = 1 .. Len(mQueue)
      /\ \A k : k \in DOMAIN mLookup <=> \E i \in 1 .. Len(mQueue) : map[i][1] = k
      /\ \A i \in 1 .. Len(mQueue) : node[mQueue[i]] = map[i] /\ mLookup[map[i][1]] = mQueue[i]
      /\ \A i \in 1 .. Len(mQueue) : mQueue[i] \in DOMAIN node
  BY DEF MapInv, ListOK
<1>2. [i \in DOMAIN mQueue |-> node[mQueue[i]]] = map
  BY <1>1
<1>3. DOMAIN mLookup = {map[i][1] : i \in DOMAIN map}
  BY <1>1, ZenonT(40)
<1>4. ASSUME NEW key \in Keys
      PROVE  /\ exists(key) => mLookup[key] \in DOMAIN node
             /\ find(key) = {map[i] : i \in {j \in DOMAIN map : map[j][1] = key}}
  <2>1. CASE exists(key)
    <3>1. PICK i \in 1 .. Len(mQueue) : map[i][1] = key
      BY <1>1, <2>1 DEF exists
    <3>2. mLookup[key] = mQueue[i] /\ node[mLookup[key]] = map[i] /\ mLookup[key] \in DOMAIN node
      BY <1>1, <3>1
    <3>3. \A j \in 1 .. Len(mQueue) : map[j][1] = key => j = i
      BY <3>1 DEF MapInv, ListOK
    <3>4. find(key) = {map[i]}
      BY <2>1, <3>2 DEF find
    <3>5. {j \in DOMAIN map : map[j][1] = key} = {i}
      BY <1>1, <3>1, <3>3
    <3> QED
      BY <3>2, <3>4, <3>5
  <2>2. CASE ~exists(key)
    BY <1>1, <2>2 DEF exists, find
  <2> QED
    BY <2>1, <2>2
<1> QED
  BY <1>2, <1>3, <1>4 DEF TableIsList

(* Whatever is put in at either end and taken out anywhere: the list in its order is the map,
   and a key is found exactly where the list has its entry (OrderedMapAnyEntry). *)
THEOREM ListsAreMaps == ASSUME MapOK PROVE MapSpec => []TableIsList
<1>1. MapInit => MapInv
  BY DEF MapInit, MapInv, ListOK
<1>2. MapInv /\ [MapNext]_mapVars => MapInv'
  BY MapStep
<1>3. MapInv => TableIsList
  BY ListIsTable
<1> QED
  BY <1>1, <1>2, <1>3, PTL DEF MapSpec

-----------------------------------------------------------------------------
(* FuseMount: fuse_new() fails with libfuse 3 only *)
MountOK == 2 \notin ContextFails

Callers == {"construct", "start", "wait", "FuseMain", "throw", "mounted", "exit", "join", "flush",
            "flushThrown", "gone"}
Stages == {"none", "new", "mount", "daemonize", "loop", "unmount", "destroy", "signal", "ended"}

MountTypeOK ==
    /\ lib \in {2, 3} /\ mode \in {"THREAD", "FOREGROUND", "DAEMON"}
    /\ caller \in Callers /\ fuse \in Stages
    /\ mFuseMount \in BOOLEAN /\ mInitialized \in BOOLEAN /\ mInitError \in BOOLEAN
    /\ context \in BOOLEAN /\ mounted \in BOOLEAN /\ exited \in BOOLEAN
    /\ cleaner \in BOOLEAN /\ dirty \in BOOLEAN

(* what FuseMain() has when it is where *)
StageOK ==
    /\ mFuseMount => context /\ fuse \in {"daemonize", "loop", "unmount"}
    /\ fuse \in {"daemonize", "loop"} => mFuseMount
    /\ context => fuse \in {"daemonize", "loop", "unmount", "destroy"} \/ (fuse = "mount" /\ lib = 3)
    /\ fuse = "mount" /\ lib = 3 => context
    /\ mounted => fuse \in {"daemonize", "loop", "unmount"} \/ (fuse = "new" /\ lib = 2)
    /\ mInitialized => fuse \in {"loop", "unmount", "destroy", "signal", "ended"}
    /\ fuse = "ended" => mInitialized

(* and how far the caller is by then *)
CallerOK ==
    /\ caller \in {"construct", "start"} => fuse = "none" /\ ~mInitialized
    /\ caller \in {"throw", "mounted", "exit", "join"} => mInitialized
    /\ caller \in {"flush", "flushThrown", "gone"} => fuse = "ended"
    /\ caller = "join" => exited \/ ~mFuseMount
    /\ caller = "gone" => ~dirty

(* and who cleans the cache *)
CleanerOK ==
    /\ mode = "THREAD" => cleaner
    /\ mode = "FOREGROUND" /\ fuse # "none" => cleaner
    /\ fuse = "loop" => cleaner

MountInv == MountTypeOK /\ StageOK /\ CallerOK /\ CleanerOK

(* Every step of the caller, of the FUSE thread and of ~FuseAdapter keeps the invariant. *)
LEMMA MountStep == ASSUME MountOK, MountInv, [MountNext]_mountVars PROVE MountInv'
<1> USE DEF MountInv, MountTypeOK, StageOK, CallerOK, CleanerOK, Callers, Stages
<1>1. CASE PrepareMount
  BY <1>1 DEF PrepareMount
<1>2. CASE StartFuse
  BY <1>2 DEF StartFuse, Thread
<1>3. CASE NewContext
  <2>1. MountTypeOK'
    BY <1>3 DEF NewContext
  <2>2. StageOK'
    BY <1>3 DEF NewContext
  <2>3. CallerOK'
    BY <1>3 DEF NewContext
  <2>4. CleanerOK'
    BY <1>3 DEF NewContext
  <2> QED
    BY <2>1, <2>2, <2>3, <2>4
<1>4. CASE Mount
  <2>1. MountTypeOK'
    BY <1>4 DEF Mount, AfterMount
  <2>2. StageOK'
    BY <1>4 DEF Mount, AfterMount
  <2>3. CallerOK'
    BY <1>4 DEF Mount, AfterMount
  <2>4. CleanerOK'
    BY <1>4 DEF Mount, AfterMount
  <2> QED
    BY <2>1, <2>2, <2>3, <2>4
<1>5. CASE MountChannel
  <2>1. MountTypeOK'
    BY <1>5 DEF MountChannel
  <2>2. StageOK'
    BY <1>5 DEF MountChannel
  <2>3. CallerOK'
    BY <1>5 DEF MountChannel
  <2>4. CleanerOK'
    BY <1>5 DEF MountChannel
  <2> QED
    BY <2>1, <2>2, <2>3, <2>4
<1>6. CASE NewOnChannel
  BY <1>6 DEF MountOK, NewOnChannel, AfterMount
<1>7. CASE Daemonize
  BY <1>7 DEF Daemonize
<1>8. CASE InitRequest
  BY <1>8 DEF InitRequest
<1>9. CASE Serve
  BY <1>9 DEF Serve
<1>10. CASE LoopEnds
  BY <1>10, ZenonT(40) DEF LoopEnds
<1>11. CASE Unmount
  BY <1>11, ZenonT(40) DEF Unmount
<1>12. CASE Destroy
  BY <1>12 DEF Destroy
<1>13. CASE FuseMainEnds
  BY <1>13 DEF FuseMainEnds
<1>14. CASE Started
  BY <1>14 DEF Started
<1>15. CASE JoinAndThrow
  BY <1>15 DEF JoinAndThrow
<1>16. CASE ExternalUnmount
  <2>1. MountTypeOK'
    BY <1>16, ZenonT(40) DEF ExternalUnmount
  <2>2. StageOK'
    BY <1>16 DEF ExternalUnmount
  <2>3. CallerOK'
    BY <1>16 DEF ExternalUnmount
  <2>4. CleanerOK'
    BY <1>16 DEF ExternalUnmount
  <2> QED
    BY <2>1, <2>2, <2>3, <2>4
<1>17. CASE Destruct
  BY <1>17 DEF Destruct
<1>18. CASE TriggerUnmount
  <2>1. MountTypeOK'
    BY <1>18 DEF TriggerUnmount, TrySystemUnmount
  <2>2. StageOK'
    <3>1. UNCHANGED <<lib, fuse, mFuseMount, context, mInitialized>> /\ mounted' \in {mounted, FALSE}
      BY <1>18 DEF TriggerUnmount, TrySystemUnmount
    <3>2. CASE mounted' = mounted
      BY <3>1, <3>2
    <3>3. CASE mounted' = FALSE
      BY <3>1, <3>3
    <3> QED
      BY <3>1, <3>2, <3>3
  <2>3. CallerOK'
    BY <1>18 DEF TriggerUnmount, TrySystemUnmount
  <2>4. CleanerOK'
    BY <1>18 DEF TriggerUnmount, TrySystemUnmount
  <2> QED
    BY <2>1, <2>2, <2>3, <2>4
<1>19. CASE Join
  BY <1>19 DEF Join
<1>20. CASE Flush
  BY <1>20 DEF Flush
<1>21. CASE UNCHANGED mountVars
  BY <1>21 DEF mountVars
<1> QED
  BY <1>1, <1>2, <1>3, <1>4, <1>5, <1>6, <1>7, <1>8, <1>9, <1>10, <1>11, <1>12, <1>13, <1>14,
     <1>15, <1>16, <1>17, <1>18, <1>19, <1>20, <1>21 DEF MountNext

(* However many requests are served and whoever unmounts when: nobody waits for FuseMain() in
   vain, no request is served without the cache's threads, and an adapter that is gone left
   no thread, no mount and no unflushed write (StartFuse, FuseMain, ~FuseAdapter). *)
THEOREM MountsEnd == ASSUME MountOK PROVE MountSpec => []MountEnds
<1>1. MountInit => MountInv
  BY DEF MountInit, MountInv, MountTypeOK, StageOK, CallerOK, CleanerOK, Callers, Stages, Thread
<1>2. MountInv /\ [MountNext]_mountVars => MountInv'
  BY MountStep
<1>3. MountInv => MountEnds
  BY DEF MountInv, MountTypeOK, StageOK, CallerOK, CleanerOK, MountEnds
<1> QED
  BY <1>1, <1>2, <1>3, PTL DEF MountSpec

-----------------------------------------------------------------------------
(* Requests: the parameter the base URL may have of its own is none of a call *)
RequestOK == OwnParam \notin ParamNames \X Nat

RunnerType == [kind : RunnerKinds, follow : BOOLEAN, client : Hosts \cup {NoHost},
               base : [host : Hosts \cup {NoHost}, path : Paths, own : {{}, {OwnParam}}]]
InputType == [form : Forms, call : Nat, plain : SUBSET ParamNames, data : SUBSET ParamNames,
              files : 0 .. 2, streams : 0 .. 2]

RequestTypeOK ==
    /\ runner \in RunnerType /\ place \in [host : Hosts, path : Paths] /\ calls \in Nat
    /\ state \in {"send", "sent"} => input \in InputType

(* the runner goes where the server was last, and what was sent is what there is to send *)
RequestKept ==
    /\ runner.client \in {NoHost, place.host} /\ runner.base.path = place.path
    /\ state \in {"send", "sent"} => input.plain \cap input.data = {}
    /\ state = "sent" => request \in {HttpRequest, CliRequest}

RequestInv == RequestTypeOK /\ RequestKept

(* nothing is sent at first *)
LEMMA RequestStarts == ASSUME RequestOK, RequestInit PROVE RequestInv
<1>1. /\ runner \in [kind : RunnerKinds, follow : BOOLEAN, client : Hosts,
                     base : [host : Hosts, path : Paths, own : {{}, {OwnParam}}]]
      /\ runner.client = runner.base.host /\ calls = 0 /\ state = "idle"
      /\ place = [host |-> runner.base.host, path |-> runner.base.path]
  BY DEF RequestInit
<1>2. runner \in RunnerType
  BY <1>1 DEF RunnerType
<1> QED
  BY <1>1, <1>2 DEF RequestInv, RequestTypeOK, RequestKept

(* Every step of a runner, of the server and of a redirection keeps the invariant. *)
LEMMA RequestStep == ASSUME RequestOK, RequestInv, [RequestNext]_requestVars PROVE RequestInv'
<1>1. CASE NewCall
  <2>1. PICK form \in Forms, plain \in SUBSET ParamNames, data \in SUBSET ParamNames,
             files \in 0 .. 2, streams \in 0 .. 2 :
          /\ plain \cap data = {}
          /\ input' = [form |-> form, call |-> calls + 1, plain |-> plain, data |-> data,
                       files |-> files, streams |-> streams]
    BY <1>1 DEF NewCall
  <2>2. calls' = calls + 1 /\ state' = "send" /\ UNCHANGED <<runner, request, place>>
    BY <1>1 DEF NewCall
  <2>3. input' \in InputType
    BY <2>1 DEF InputType, RequestInv, RequestTypeOK
  <2> QED
    BY <2>1, <2>2, <2>3 DEF RequestInv, RequestTypeOK, RequestKept
<1>2. CASE HttpSend
  BY <1>2 DEF HttpSend, RequestInv, RequestTypeOK, RequestKept, HttpRequest
<1>3. CASE CliSend
  BY <1>3 DEF CliSend, RequestInv, RequestTypeOK, RequestKept, CliRequest
<1>4. CASE ServerUnknown \/ Respond \/ CallEnds
  BY <1>4 DEF ServerUnknown, Respond, CallEnds, RequestInv, RequestTypeOK, RequestKept
<1>5. CASE RegisterRedirect
  <2>1. /\ state = "sent" /\ UNCHANGED <<input, request, calls>>
        /\ state' \in {"ok", "EndpointException", "RedirectException"}
    BY <1>5 DEF RegisterRedirect
  <2>2. CASE UNCHANGED <<runner, place>>
    BY <2>1, <2>2 DEF RequestInv, RequestTypeOK, RequestKept
  <2>3. CASE ~UNCHANGED <<runner, place>>
    <3>1. PICK host \in Hosts, path \in Paths, relative \in BOOLEAN :
            /\ place' = [host |-> host, path |-> path]
            /\ runner' = [runner EXCEPT !.client = IF relative THEN NoHost ELSE host,
                              !.base = [host |-> IF relative THEN NoHost ELSE host, path |-> path,
                                        own |-> WithoutParams(request.url)]]
      <4>1. runner.follow
        BY <1>5, <2>3 DEF RegisterRedirect
      <4> QED
        BY <1>5, <4>1 DEF RegisterRedirect
    <3>2. PICK newHost \in {NoHost, host} : newHost = IF relative THEN NoHost ELSE host
      OBVIOUS
    <3>3. PICK none \in {{}, {OwnParam}} : none = WithoutParams(request.url)
      BY DEF WithoutParams
    <3>4. PICK base : base = [host |-> newHost, path |-> path, own |-> none]
      OBVIOUS
    <3>5. base \in [host : Hosts \cup {NoHost}, path : Paths, own : {{}, {OwnParam}}]
      BY <3>4
    <3>6. runner' = [runner EXCEPT !.client = newHost, !.base = base]
      BY <3>1, <3>2, <3>3, <3>4
    <3>7. runner' \in RunnerType /\ runner'.client = newHost /\ runner'.base = base
      BY <3>2, <3>6, <3>5 DEF RequestInv, RequestTypeOK, RunnerType
    <3> QED
      BY <2>1, <3>1, <3>2, <3>7, <3>4 DEF RequestInv, RequestTypeOK, RequestKept
  <2> QED
    BY <2>2, <2>3
<1>6. CASE UNCHANGED requestVars
  BY <1>6 DEF requestVars, RequestInv, RequestTypeOK, RequestKept, HttpRequest, CliRequest
<1> QED
  BY <1>1, <1>2, <1>3, <1>4, <1>5, <1>6 DEF RequestNext

(* What is sent has the parameters of the input, once, and goes to where the server is. *)
LEMMA SentIsInput == ASSUME RequestOK, RequestInv PROVE RequestIsInput
<1> SUFFICES ASSUME state = "sent"
             PROVE  /\ (request.url \cup request.headers \cup request.body) \ {OwnParam}
                         = ValuesOf(input.plain, input.call) \cup ValuesOf(input.data, input.call)
                    /\ request.url \cap ValuesOf(input.data, input.call) = {}
                    /\ request.files = input.files /\ request.streams = input.streams
                    /\ \/ request.host = NoHost
                       \/ request.host = place.host /\ request.path = place.path
  BY DEF RequestIsInput
<1>1. /\ input \in InputType /\ input.plain \cap input.data = {} /\ runner \in RunnerType
      /\ runner.client \in {NoHost, place.host} /\ runner.base.path = place.path
      /\ request \in {HttpRequest, CliRequest}
  BY DEF RequestInv, RequestTypeOK, RequestKept
<1>2. PICK plain, data, own :
        /\ plain = ValuesOf(input.plain, input.call) /\ data = ValuesOf(input.data, input.call)
        /\ own = runner.base.own
  OBVIOUS
<1>3. own \subseteq {OwnParam}
  BY <1>1, <1>2 DEF RunnerType
<1>4. OwnParam \notin plain \cup data /\ plain \cap data = {}
  <2>1. input.call \in Nat /\ input.plain \subseteq ParamNames /\ input.data \subseteq ParamNames
    BY <1>1 DEF InputType
  <2> QED
    BY <1>1, <1>2, <2>1 DEF RequestOK, ValuesOf
<1>5. /\ request.url \cup request.headers \cup request.body \in {own \cup plain \cup data, plain \cup data}
      /\ request.url \in {own \cup plain, plain}
  <2>1. CASE request = HttpRequest
    BY <1>2, <2>1 DEF HttpRequest
  <2>2. CASE request = CliRequest
    BY <1>2, <2>2 DEF CliRequest
  <2> QED
    BY <1>1, <2>1, <2>2
<1>6. /\ request.files = input.files /\ request.streams = input.streams
      /\ request.host = runner.client /\ request.path = runner.base.path
  BY <1>1 DEF HttpRequest, CliRequest
<1> QED
  BY <1>1, <1>2, <1>3, <1>4, <1>5, <1>6

(* However many calls are made, with whatever parameters and data, and wherever the server
   redirects them: a request has what its call was given and nothing of an earlier one, and
   goes where the server is (SetupRequest, RegisterRedirect, GetArguments). *)
THEOREM RequestsAreInputs == ASSUME RequestOK PROVE RequestSpec => []RequestIsInput
<1>1. RequestInit => RequestInv
  BY RequestStarts
<1>2. RequestInv /\ [RequestNext]_requestVars => RequestInv'
  BY RequestStep
<1>3. RequestInv => RequestIsInput
  BY SentIsInput
<1> QED
  BY <1>1, <1>2, <1>3, PTL DEF RequestSpec

-----------------------------------------------------------------------------
(* BackendCalls: a request that is refused is not one that is done, and 404 is for an item
   that is not there *)
CallOK ==
    /\ NoItem \notin [kind : Kinds, parent : CallIds \cup {Root}, name : CallNames]
    /\ \A a \in Refusals : a.code \notin {200, 404}

ItemType == [kind : Kinds, parent : CallIds \cup {Root}, name : CallNames]
ItemsType == [CallIds -> {NoItem} \cup ItemType]
CallType == {NoCall} \cup Create \cup Delete \cup Rename \cup Move \cup Truncate \cup Read

CallTypeOK ==
    /\ items \in ItemsType /\ before \in ItemsType /\ call \in CallType
    /\ callMode \in [option : BOOLEAN, server : BOOLEAN, memory : BOOLEAN] /\ attempt \in Nat

(* what c makes of the item r *)
Changes(c, r) == IF c.op = "rename" THEN [r EXCEPT !.name = c.name]
                 ELSE [r EXCEPT !.parent = c.parent]

(* a call that may send its request, and one that has been carried out, perhaps *)
Underway ==
    /\ call # NoCall /\ outcome = "none" => ~isMemory /\ (Writes(call) => ~isReadOnly)
    /\ call = NoCall => attempt = 0
    /\ call.op \in {"rename", "move"} =>
         \/ items[call.id] = before[call.id]
         \/ before[call.id] \in ItemType /\ items[call.id] = Changes(call, before[call.id])

CallInv == CallTypeOK /\ Underway /\ CallTruth

(* what an API call is given *)
LEMMA CallFields ==
    ASSUME NEW c \in CallType
    PROVE  /\ c = NoCall <=> c.op = "none"
           /\ c.op \in {"none", "create", "delete", "rename", "move", "truncate", "getfolder"}
           /\ c.op = "create" => /\ c.kind \in Kinds /\ c.parent \in CallIds \cup {Root}
                                 /\ c.name \in CallNames /\ c.overwrite \in BOOLEAN
           /\ c.op \in {"delete", "rename", "move", "truncate"} => c.id \in CallIds
           /\ c.op = "rename" => c.name \in CallNames /\ c.overwrite \in BOOLEAN
           /\ c.op = "move" => c.parent \in CallIds \cup {Root} /\ c.overwrite \in BOOLEAN
<1>1. CASE c = NoCall
  BY <1>1 DEF NoCall
<1>2. CASE c \in Create
  BY <1>2 DEF NoCall, Create
<1>3. CASE c \in Delete
  BY <1>3 DEF NoCall, Delete
<1>4. CASE c \in Rename
  BY <1>4 DEF NoCall, Rename
<1>5. CASE c \in Move
  BY <1>5 DEF NoCall, Move
<1>6. CASE c \in Truncate
  BY <1>6 DEF NoCall, Truncate
<1>7. CASE c \in Read
  BY <1>7 DEF NoCall, Read
<1> QED
  BY <1>1, <1>2, <1>3, <1>4, <1>5, <1>6, <1>7 DEF CallType

(* what the caller makes of an answer *)
LEMMA AnswerIsTold ==
    /\ GetJSON(Done) = "ok" /\ GetJSON(Unknown) = "NotFoundException"
    /\ GetJSON(Duplicate) = "APIException" /\ GetJSON(Garbled) = "JSONErrorException"
    /\ \A a : a.code \notin {200, 404} =>
                GetJSON(a) \notin {"ok", "none", "NotFoundException", "ReadOnlyException"}
<1>1. ASSUME NEW e \in Exceptions
      PROVE  /\ e[1].message \notin {"", "UNKNOWN_ITEM", "DUPLICATE"}
             /\ e[2] \notin {"ok", "none", "NotFoundException", "ReadOnlyException"}
  <2>1. CASE e = <<Reply(400, "FILESYSTEM_MISMATCH"), "UnsupportedException">>
    BY <2>1 DEF Reply
  <2>2. CASE e = <<Reply(400, "STORAGE_FOLDERS_UNSUPPORTED"), "UnsupportedException">>
    BY <2>2 DEF Reply
  <2>3. CASE e = <<Reply(400, "ACCOUNT_CRYPTO_NOT_UNLOCKED"), "DeniedException">>
    BY <2>3 DEF Reply
  <2>4. CASE e = <<Reply(400, "INPUT_FILE_MISSING"), "InputSizeException">>
    BY <2>4 DEF Reply
  <2>5. CASE e = <<Reply(403, "AUTHENTICATION_FAILED"), "AuthenticationFailedException">>
    BY <2>5 DEF Reply
  <2>6. CASE e = <<Reply(403, "TWOFACTOR_REQUIRED"), "TwoFactorRequiredException">>
    BY <2>6 DEF Reply
  <2>7. CASE e = <<Reply(403, "READ_ONLY_DATABASE"), "ReadOnlyFSException">>
    BY <2>7 DEF Reply
  <2>8. CASE e = <<Reply(403, "READ_ONLY_STORAGE"), "ReadOnlyFSException">>
    BY <2>8 DEF Reply
  <2>9. \/ e = <<Reply(400, "FILESYSTEM_MISMATCH"), "UnsupportedException">>
        \/ e = <<Reply(400, "STORAGE_FOLDERS_UNSUPPORTED"), "UnsupportedException">>
        \/ e = <<Reply(400, "ACCOUNT_CRYPTO_NOT_UNLOCKED"), "DeniedException">>
        \/ e = <<Reply(400, "INPUT_FILE_MISSING"), "InputSizeException">>
        \/ e = <<Reply(403, "AUTHENTICATION_FAILED"), "AuthenticationFailedException">>
        \/ e = <<Reply(403, "TWOFACTOR_REQUIRED"), "TwoFactorRequiredException">>
        \/ e = <<Reply(403, "READ_ONLY_DATABASE"), "ReadOnlyFSException">>
        \/ e = <<Reply(403, "READ_ONLY_STORAGE"), "ReadOnlyFSException">>
    BY ZenonT(40) DEF Exceptions
  <2> QED
    BY <2>1, <2>2, <2>3, <2>4, <2>5, <2>6, <2>7, <2>8, <2>9, Zenon
<1>2. /\ Done.message = "" /\ Done.code = 200 /\ Unknown.message = "UNKNOWN_ITEM"
      /\ Unknown.code = 404 /\ Duplicate.message = "DUPLICATE" /\ Duplicate.code = 400
      /\ Garbled.message = "" /\ Garbled.code = 0
  BY DEF Done, Unknown, Duplicate, Garbled, Reply
<1>3. ASSUME NEW a, {e \in Exceptions : e[1] = a} = {}
      PROVE  /\ a = Garbled => GetJSON(a) = "JSONErrorException"
             /\ a # Garbled /\ a.code = 200 => GetJSON(a) = "ok"
             /\ a # Garbled /\ a.code = 404 => GetJSON(a) = "NotFoundException"
             /\ a # Garbled /\ a.code = 400 => GetJSON(a) = "APIException"
  <2>1. a = Garbled => GetJSON(a) = "JSONErrorException"
    <3>1. Garbled.code = 0
      BY <1>2, Zenon
    <3> QED
      BY <1>3, <3>1 DEF GetJSON
  <2>2. a # Garbled /\ a.code = 200 => GetJSON(a) = "ok"
    BY <1>3 DEF GetJSON
  <2>3. a # Garbled /\ a.code = 404 => GetJSON(a) = "NotFoundException"
    BY <1>3 DEF GetJSON
  <2>4. a # Garbled /\ a.code = 400 => GetJSON(a) = "APIException"
    BY <1>3 DEF GetJSON
  <2> QED
    BY <2>1, <2>2, <2>3, <2>4
<1>4. Done # Garbled /\ Unknown # Garbled /\ Duplicate # Garbled
  <2>1. Done.code = 200 /\ Unknown.code = 404 /\ Duplicate.code = 400 /\ Garbled.code = 0
    BY <1>2, Zenon
  <2> QED
    BY <2>1
<1>5. GetJSON(Done) = "ok"
  <2>1. {e \in Exceptions : e[1] = Done} = {}
    <3>1. ASSUME NEW e \in Exceptions, e[1] = Done PROVE FALSE
      <4>1. e[1].message = ""
        BY <1>2, <3>1, Zenon
      <4> QED
        BY <1>1, <4>1
    <3> QED
      BY <3>1
  <2>2. Done.code = 200
    BY <1>2, Zenon
  <2> QED
    BY <1>4, <1>3, <2>1, <2>2
<1>6. GetJSON(Unknown) = "NotFoundException"
  <2>1. {e \in Exceptions : e[1] = Unknown} = {}
    <3>1. ASSUME NEW e \in Exceptions, e[1] = Unknown PROVE FALSE
      <4>1. e[1].message = "UNKNOWN_ITEM"
        BY <1>2, <3>1, Zenon
      <4> QED
        BY <1>1, <4>1
    <3> QED
      BY <3>1
  <2>2. Unknown.code = 404
    BY <1>2, Zenon
  <2> QED
    BY <1>4, <1>3, <2>1, <2>2
<1>7. GetJSON(Duplicate) = "APIException"
  <2>1. {e \in Exceptions : e[1] = Duplicate} = {}
    <3>1. ASSUME NEW e \in Exceptions, e[1] = Duplicate PROVE FALSE
      <4>1. e[1].message = "DUPLICATE"
        BY <1>2, <3>1, Zenon
      <4> QED
        BY <1>1, <4>1
    <3> QED
      BY <3>1
  <2>2. Duplicate.code = 400
    BY <1>2, Zenon
  <2> QED
    BY <1>4, <1>3, <2>1, <2>2
<1>8. GetJSON(Garbled) = "JSONErrorException"
  <2>1. {e \in Exceptions : e[1] = Garbled} = {}
    <3>1. ASSUME NEW e \in Exceptions, e[1] = Garbled PROVE FALSE
      <4>1. e[1].message = ""
        BY <1>2, <3>1, Zenon
      <4> QED
        BY <1>1, <4>1
    <3> QED
      BY <3>1
  <2>2. Garbled.code = 0
    BY <1>2, Zenon
  <2> QED
    BY <1>4, <1>3, <2>1, <2>2
<1>9. ASSUME NEW a, a.code \notin {200, 404}
      PROVE  GetJSON(a) \notin {"ok", "none", "NotFoundException", "ReadOnlyException"}
  <2>1. CASE {e \in Exceptions : e[1] = a} = {}
    BY <1>9, <2>1 DEF GetJSON
  <2>2. CASE {e \in Exceptions : e[1] = a} # {}
    <3>1. GetJSON(a) = (CHOOSE e \in {e \in Exceptions : e[1] = a} : TRUE)[2]
      BY <2>2 DEF GetJSON
    <3>2. (CHOOSE e \in {e \in Exceptions : e[1] = a} : TRUE) \in Exceptions
      BY <2>2
    <3> QED
      BY <1>1, <3>1, <3>2
  <2> QED
    BY <2>1, <2>2
<1> QED
  BY <1>5, <1>6, <1>7, <1>8, <1>9

(* An item that is put somewhere is there, or nothing has changed. *)
LEMMA PutLemma ==
    ASSUME items \in ItemsType, NEW id \in CallIds, NEW item \in ItemType, NEW overwrite,
           NEW r, r = Put(id, item, overwrite)
    PROVE  /\ r[1] \in ItemsType /\ r[2] \in {Done, Unknown, Duplicate}
           /\ r[2] = Done => r[1][id] = item
           /\ r[2] # Done => r[1] = items
<1>1. Done # Unknown /\ Done # Duplicate
  <2>1. Done.code = 200 /\ Unknown.code = 404 /\ Duplicate.code = 400
    BY DEF Done, Unknown, Duplicate, Reply
  <2> QED
    BY <2>1
<1>2. PICK others : others = Occupant(item.parent, item.name) \ {id}
  OBVIOUS
<1>3. PICK over : over = [i \in CallIds |-> IF i = id THEN item
                                            ELSE IF i \in others THEN NoItem ELSE items[i]]
  OBVIOUS
<1>4. over \in ItemsType /\ over[id] = item
  BY <1>3 DEF ItemsType
<1>5. [items EXCEPT ![id] = item] \in ItemsType /\ [items EXCEPT ![id] = item][id] = item
  BY DEF ItemsType
<1>6. \/ r = <<items, Unknown>>
      \/ r = <<[items EXCEPT ![id] = item], Done>>
      \/ r = <<items, Duplicate>>
      \/ r = <<over, Done>>
  BY <1>2, <1>3 DEF Put
<1>7. CASE r = <<items, Unknown>> \/ r = <<items, Duplicate>>
  BY <1>1, <1>7
<1>8. CASE r = <<over, Done>>
  BY <1>4, <1>8
<1>9. CASE r = <<[items EXCEPT ![id] = item], Done>>
  <2>1. PICK put : put = [items EXCEPT ![id] = item]
    OBVIOUS
  <2> QED
    BY <1>5, <1>9, <2>1
<1> QED
  BY <1>6, <1>7, <1>8, <1>9

(* What the server does for a call, and what it says. *)
LEMMA AnswerLemma ==
    ASSUME CallOK, items \in ItemsType, NEW c \in CallType, c # NoCall, NEW r, r = Answer(c)
    PROVE  /\ r[1] \in ItemsType /\ r[2] \in {Done, Unknown, Duplicate}
           /\ ~Writes(c) => r[1] = items
           /\ r[2] = Done /\ c.op = "create" =>
                \E i \in CallIds : r[1][i] = Item(c.kind, c.parent, c.name)
           /\ c.op = "delete" /\ r[2] # Duplicate =>
                r[1][c.id] = NoItem \/ r[1][c.id].kind # c.kind
           /\ c.op \in {"rename", "move"} /\ r[2] # Done => r[1] = items
           /\ c.op \in {"rename", "move"} /\ r[2] = Done =>
                items[c.id] \in ItemType /\ r[1][c.id] = Changes(c, items[c.id])
<1>1. Done # Unknown /\ Done # Duplicate /\ Unknown # Duplicate
  <2>1. Done.code = 200 /\ Unknown.code = 404 /\ Duplicate.code = 400
    BY DEF Done, Unknown, Duplicate, Reply
  <2> QED
    BY <2>1
<1>2. CASE c.op = "create"
  <2>1. Item(c.kind, c.parent, c.name) \in ItemType
    BY <1>2, CallFields DEF Item, ItemType
  <2>2. PICK ids :
          /\ ids \subseteq CallIds
          /\ r = IF ids = {} THEN <<items, Duplicate>>
                 ELSE Put(CHOOSE i \in ids : TRUE, Item(c.kind, c.parent, c.name), FALSE)
    <3>1. r = Created(c)
      BY <1>2 DEF Answer
    <3> QED
      BY <3>1 DEF Created, Occupant
  <2>3. CASE ids = {}
    BY <1>1, <1>2, <2>2, <2>3 DEF Writes
  <2>4. CASE ids # {}
    <3>1. PICK id \in CallIds : r = Put(id, Item(c.kind, c.parent, c.name), FALSE)
      BY <2>2, <2>4
    <3>2. PICK item \in ItemType : item = Item(c.kind, c.parent, c.name)
      BY <2>1
    <3>3. PICK no \in BOOLEAN : no = FALSE
      OBVIOUS
    <3>4. r = Put(id, item, no)
      BY <3>1, <3>2, <3>3, Zenon
    <3>5. /\ r[1] \in ItemsType /\ r[2] \in {Done, Unknown, Duplicate}
          /\ r[2] = Done => r[1][id] = Item(c.kind, c.parent, c.name)
      BY <3>2, <3>4, PutLemma
    <3> QED
      BY <1>2, <3>5 DEF Writes
  <2> QED
    BY <2>3, <2>4
<1>3. CASE c.op = "getfolder"
  BY <1>1, <1>3 DEF Answer, Writes
<1>4. CASE c.op \in {"delete", "rename", "move", "truncate"} /\ ~Has(c)
  <2>1. r = <<items, Unknown>> /\ c.id \in CallIds
    BY <1>4, CallFields DEF Answer
  <2>2. items[c.id] = NoItem \/ items[c.id].kind # c.kind
    BY <1>4, <2>1 DEF Has, Present
  <2> QED
    BY <1>1, <1>4, <2>1, <2>2 DEF Writes
<1>5. CASE c.op \in {"delete", "rename", "move", "truncate"} /\ Has(c)
  <2>1. r = Changed(c) /\ c.id \in CallIds /\ items[c.id] \in ItemType
    BY <1>5, CallFields DEF Answer, Has, Present, ItemsType
  <2>2. CASE c.op = "delete"
    <3>1. PICK left : left = [i \in CallIds |-> IF i = c.id \/ (Present(i) /\ items[i].parent = c.id)
                                                THEN NoItem ELSE items[i]]
      OBVIOUS
    <3>2. left \in ItemsType /\ left[c.id] = NoItem
      BY <2>1, <3>1 DEF ItemsType
    <3>3. r = <<left, Done>>
      BY <2>1, <2>2, <3>1 DEF Changed
    <3> QED
      BY <2>2, <3>2, <3>3 DEF Writes
  <2>3. CASE c.op \in {"rename", "move"}
    <3>1. PICK item : item = Changes(c, items[c.id])
      OBVIOUS
    <3>2. item \in ItemType
      <4>1. CASE c.op = "rename"
        BY <2>1, <3>1, <4>1, CallFields DEF Changes, ItemType
      <4>2. CASE c.op = "move"
        BY <2>1, <3>1, <4>2, CallFields DEF Changes, ItemType
      <4> QED
        BY <2>3, <4>1, <4>2
    <3>3. r = Put(c.id, item, c.overwrite)
      BY <2>1, <2>3, <3>1 DEF Changed, Changes
    <3>4. /\ r[1] \in ItemsType /\ r[2] \in {Done, Unknown, Duplicate}
          /\ r[2] = Done => r[1][c.id] = item
          /\ r[2] # Done => r[1] = items
      BY <2>1, <3>2, <3>3, PutLemma
    <3> QED
      BY <2>1, <2>3, <3>1, <3>4 DEF Writes
  <2>4. CASE c.op = "truncate"
    BY <2>1, <2>4 DEF Changed, Writes
  <2> QED
    BY <1>5, <2>2, <2>3, <2>4
<1> QED
  BY <1>2, <1>3, <1>4, <1>5, CallFields

(* To rename or to move an item again to the same place changes nothing. *)
LEMMA ChangesTwice ==
    ASSUME NEW c \in CallType, c.op \in {"rename", "move"}, NEW b \in ItemType
    PROVE  Changes(c, Changes(c, b)) = Changes(c, b)
<1>1. CASE c.op = "rename"
  BY <1>1 DEF Changes, ItemType
<1>2. CASE c.op = "move"
  BY <1>2 DEF Changes, ItemType
<1> QED
  BY <1>1, <1>2

(* Every call, and every attempt of its request, keeps the invariant. *)
LEMMA CallStep ==
    ASSUME CallOK, CallInv, [CallNext]_callVars
    PROVE  CallInv'
<1>1. Done # Duplicate
  <2>1. Done.code = 200 /\ Duplicate.code = 400
    BY DEF Done, Duplicate, Reply
  <2> QED
    BY <2>1
<1>2. CASE Begin
  <2>1. PICK c \in Create \cup Delete \cup Rename \cup Move \cup Truncate \cup Read :
          call' = c /\ outcome' = Guard(c)
    BY <1>2 DEF Begin
  <2>2. attempt' = 0 /\ before' = items /\ items' = items /\ callMode' = callMode
    BY <1>2 DEF Begin
  <2>3. c \in CallType /\ c # NoCall
    BY DEF CallType, NoCall, Create, Delete, Rename, Move, Truncate, Read
  <2>4. CallTypeOK'
    BY <2>1, <2>2, <2>3 DEF CallInv, CallTypeOK
  <2>5. isMemory' = isMemory /\ (isReadOnly' <=> isReadOnly) /\ items' = before'
    BY <2>2 DEF isMemory, isReadOnly
  <2>6. /\ Writes(c) /\ isReadOnly => outcome' = "ReadOnlyException"
        /\ outcome' = "ok" => isMemory
        /\ outcome' = "none" => ~isMemory /\ (Writes(c) => ~isReadOnly)
        /\ outcome' = "ReadOnlyException" => isReadOnly
        /\ outcome' \in {"ok", "none", "ReadOnlyException"}
    BY <2>1 DEF Guard
  <2>7. Underway'
    BY <2>1, <2>2, <2>3, <2>5, <2>6 DEF Underway, Writes
  <2>8. CallTruth'
    BY <2>1, <2>2, <2>5, <2>6 DEF CallTruth, Writes
  <2> QED
    BY <2>4, <2>7, <2>8 DEF CallInv
<1>3. CASE Request \/ RequestRefused \/ RequestLost
  <2>1. /\ call # NoCall /\ outcome = "none" /\ attempt' = attempt + 1
        /\ before' = before /\ callMode' = callMode /\ call' = call
    BY <1>3 DEF Request, RequestRefused, RequestLost
  <2>2. /\ isMemory' = isMemory /\ (isReadOnly' <=> isReadOnly) /\ ~isMemory
        /\ Writes(call) => ~isReadOnly
        /\ isReadOnly => items = before
        /\ attempt \in Nat /\ call \in CallType /\ items \in ItemsType
        /\ before \in ItemsType /\ callMode' = callMode
    BY <2>1 DEF CallInv, CallTypeOK, Underway, CallTruth, isMemory, isReadOnly
  <2>3. SUFFICES
          /\ items' \in ItemsType
          /\ isReadOnly => items' = before
          /\ call.op \in {"rename", "move"} =>
               \/ items'[call.id] = before[call.id]
               \/ before[call.id] \in ItemType
                    /\ items'[call.id] = Changes(call, before[call.id])
          /\ outcome' = "NotFoundException" => call.op # "delete"
          /\ outcome' # "ReadOnlyException"
          /\ outcome' = "ok" =>
               /\ call.op = "create" =>
                    \E i \in CallIds : items'[i] = Item(call.kind, call.parent, call.name)
               /\ call.op = "delete" =>
                    items'[call.id] = NoItem \/ items'[call.id].kind # call.kind
               /\ call.op \in {"rename", "move"} =>
                    items'[call.id] = Changes(call, before[call.id])
    <3>1. CallTypeOK'
      BY <2>1, <2>2, <2>3 DEF CallInv, CallTypeOK
    <3>2. Underway'
      BY <2>1, <2>2, <2>3 DEF Underway, Changes
    <3>3. outcome' = "ok" =>
            (CASE call.op = "create" -> Named(call.parent, call.name, call.kind)
               [] call.op = "delete" -> ~Present(call.id) \/ items[call.id].kind # call.kind
               [] call.op = "rename" ->
                    items[call.id] = [before[call.id] EXCEPT !.name = call.name]
               [] call.op = "move" ->
                    items[call.id] = [before[call.id] EXCEPT !.parent = call.parent]
               [] OTHER -> TRUE)'
      BY <2>1, <2>3 DEF Named, Present, Changes
    <3>4. CallTruth'
      BY <2>1, <2>2, <2>3, <3>3 DEF CallTruth, Writes
    <3> QED
      BY <3>1, <3>2, <3>4 DEF CallInv
  <2>4. CASE Request
    <3>1. PICK r : r = Answer(call)
      OBVIOUS
    <3>2. /\ r[1] \in ItemsType /\ r[2] \in {Done, Unknown, Duplicate}
          /\ ~Writes(call) => r[1] = items
          /\ r[2] = Done /\ call.op = "create" =>
               \E i \in CallIds : r[1][i] = Item(call.kind, call.parent, call.name)
          /\ call.op = "delete" /\ r[2] # Duplicate =>
               r[1][call.id] = NoItem \/ r[1][call.id].kind # call.kind
          /\ call.op \in {"rename", "move"} =>
               \/ r[1][call.id] = items[call.id] /\ r[2] # Done
               \/ /\ items[call.id] \in ItemType
                  /\ r[1][call.id] = Changes(call, items[call.id])
      <4>1. /\ r[1] \in ItemsType /\ r[2] \in {Done, Unknown, Duplicate}
            /\ ~Writes(call) => r[1] = items
            /\ r[2] = Done /\ call.op = "create" =>
                 \E i \in CallIds : r[1][i] = Item(call.kind, call.parent, call.name)
            /\ call.op = "delete" /\ r[2] # Duplicate =>
                 r[1][call.id] = NoItem \/ r[1][call.id].kind # call.kind
            /\ call.op \in {"rename", "move"} /\ r[2] # Done => r[1] = items
            /\ call.op \in {"rename", "move"} /\ r[2] = Done =>
                 items[call.id] \in ItemType /\ r[1][call.id] = Changes(call, items[call.id])
        BY <2>1, <2>2, <3>1, AnswerLemma
      <4> QED
        BY <4>1
    <3>3. items' = r[1]
      BY <2>4, <3>1 DEF Request
    <3>4. \/ outcome' \in {"none", "LibraryException"}
          \/ \E a \in {r[2], Garbled} : outcome' = Told(call, GetJSON(a))
      BY <2>4, <3>1 DEF Request
    <3>5. /\ outcome' = "NotFoundException" => call.op # "delete"
          /\ outcome' # "ReadOnlyException"
          /\ outcome' = "ok" => r[2] = Done \/ (call.op = "delete" /\ r[2] # Duplicate)
      <4>1. CASE outcome' \in {"none", "LibraryException"}
        BY <4>1
      <4>2. CASE outcome' = Told(call, GetJSON(Garbled))
        BY <4>2, AnswerIsTold DEF Told
      <4>3. CASE outcome' = Told(call, GetJSON(r[2]))
        BY <3>2, <4>3, AnswerIsTold DEF Told
      <4> QED
        BY <3>4, <4>1, <4>2, <4>3
    <3>6. call.op \in {"rename", "move"} =>
            /\ \/ items'[call.id] = before[call.id] /\ r[2] # Done
               \/ before[call.id] \in ItemType
                    /\ items'[call.id] = Changes(call, before[call.id])
            /\ r[2] = Done => items'[call.id] = Changes(call, before[call.id])
      <4>1. SUFFICES ASSUME call.op \in {"rename", "move"}
                     PROVE  \/ items'[call.id] = before[call.id] /\ r[2] # Done
                            \/ before[call.id] \in ItemType
                                 /\ items'[call.id] = Changes(call, before[call.id])
        OBVIOUS
      <4>2. \/ items[call.id] = before[call.id]
            \/ /\ before[call.id] \in ItemType
               /\ items[call.id] = Changes(call, before[call.id])
        BY <4>1 DEF CallInv, Underway
      <4> QED
        BY <2>2, <3>2, <3>3, <4>1, <4>2, ChangesTwice
    <3>7. items' \in ItemsType /\ (isReadOnly => items' = before)
      BY <2>2, <3>2, <3>3
    <3>8. outcome' = "ok" =>
            /\ call.op = "create" =>
                 \E i \in CallIds : items'[i] = Item(call.kind, call.parent, call.name)
            /\ call.op = "delete" =>
                 items'[call.id] = NoItem \/ items'[call.id].kind # call.kind
            /\ call.op \in {"rename", "move"} =>
                 items'[call.id] = Changes(call, before[call.id])
      <4>1. CASE call.op = "create"
        BY <3>2, <3>3, <3>5, <4>1
      <4>2. CASE call.op = "delete"
        BY <1>1, <3>2, <3>3, <3>5, <4>2
      <4>3. CASE call.op \in {"rename", "move"}
        BY <3>5, <3>6, <4>3
      <4> QED
        BY <4>1, <4>2, <4>3
    <3>9. call.op \in {"rename", "move"} =>
            \/ items'[call.id] = before[call.id]
            \/ before[call.id] \in ItemType
                 /\ items'[call.id] = Changes(call, before[call.id])
      BY <3>6
    <3> QED
      BY <3>5, <3>7, <3>8, <3>9
  <2>5. CASE RequestRefused \/ RequestLost
    <3>1. items' = items
      BY <2>5 DEF RequestRefused, RequestLost
    <3>2. outcome' \notin {"ok", "NotFoundException", "ReadOnlyException"}
      <4>1. CASE RequestRefused
        <5>1. PICK a \in Refusals : outcome' = Told(call, GetJSON(a))
          BY <4>1 DEF RequestRefused
        <5>2. GetJSON(a) \notin {"ok", "none", "NotFoundException", "ReadOnlyException"}
          BY <5>1, AnswerIsTold DEF CallOK
        <5> QED
          BY <5>1, <5>2 DEF Told
      <4>2. CASE RequestLost
        BY <4>2 DEF RequestLost
      <4> QED
        BY <2>5, <4>1, <4>2
    <3>3. call.op \in {"rename", "move"} =>
            \/ items[call.id] = before[call.id]
            \/ /\ before[call.id] \in ItemType
               /\ items[call.id] = Changes(call, before[call.id])
      BY DEF CallInv, Underway
    <3> QED
      BY <2>2, <3>1, <3>2, <3>3
  <2> QED
    BY <1>3, <2>4, <2>5
<1>4. CASE End
  <2>1. NoCall.op = "none"
    BY DEF NoCall
  <2> QED
    BY <1>4, <2>1 DEF End, CallInv, CallTypeOK, CallType, Underway, CallTruth
<1>5. CASE UNCHANGED callVars
  BY <1>5 DEF callVars, CallInv, CallTypeOK, Underway, CallTruth, isMemory, isReadOnly, Named,
              Present
<1> QED
  BY <1>2, <1>3, <1>4, <1>5 DEF CallNext

(* A call of BackendImpl that returns has done what it was asked to, however often its request
   was repeated, and one that is refused here never reached the server. *)
THEOREM CallsAreTrue ==
    ASSUME CallOK
    PROVE  CallSpec => []CallTruth
<1>1. CallInit => CallInv
  <2>1. SUFFICES ASSUME CallInit PROVE CallInv
    OBVIOUS
  <2>2. \A k \in Kinds, n \in CallNames : Item(k, Root, n) \in ItemType
    BY DEF Item, ItemType
  <2>3. {NoItem} \cup {Item(k, Root, n) : k \in Kinds, n \in CallNames} \subseteq
          {NoItem} \cup ItemType
    BY <2>2
  <2>4. items \in ItemsType
    BY <2>1, <2>3 DEF CallInit, ItemsType
  <2>5. NoCall.op = "none"
    BY DEF NoCall
  <2> QED
    BY <2>1, <2>4, <2>5 DEF CallInit, CallInv, CallTypeOK, CallType, Underway, CallTruth
<1>2. CallInv /\ [CallNext]_callVars => CallInv'
  BY CallStep
<1>3. CallInv => CallTruth
  BY DEF CallInv
<1> QED
  BY <1>1, <1>2, <1>3, PTL DEF CallSpec

-----------------------------------------------------------------------------
(* BackendSession: sessions are numbered from 1 *)
SessionOK == GivenSession \in Nat \ {0}

ContextType == [at : {"down", "new", "in", "ending"}, program : {"none", "gui", "cli"},
                del : BOOLEAN, session : Nat]

SessionTypeOK ==
    /\ made \in Nat \ {0} /\ GivenSession \in 1 .. made
    /\ alive \subseteq 1 .. made /\ sessionRows \subseteq 1 .. made
    /\ ended \subseteq 1 .. made /\ stray \subseteq 1 .. made
    /\ ctx \in [Contexts -> ContextType]
    /\ \A c \in Contexts : ctx[c].session <= made

(* A context that will end its session is logged in; nobody else has the session. *)
Ending ==
    \A c \in Contexts :
        /\ Is(c, "down") \/ Is(c, "new") => ~ctx[c].del /\ ctx[c].session = NoSession
        /\ Is(c, "in") /\ ctx[c].del => ctx[c].session # NoSession
        /\ ctx[c].del /\ ctx[c].session # NoSession =>
             /\ ctx[c].session \notin sessionRows \cup {GivenSession} \cup ended
             /\ \A d \in Contexts : ctx[d].session = ctx[c].session => d = c

(* A session that lives is one of those somebody cares for, or a stray one. *)
CaredFor ==
    \A s \in alive : \/ s \in sessionRows \cup {GivenSession} \cup stray
                     \/ \E c \in Contexts : ctx[c].del /\ ctx[c].session = s

RowsLive == ended \cap (sessionRows \cup {GivenSession}) = {}

SessionInv == SessionTypeOK /\ Ending /\ CaredFor /\ RowsLive

(* Every step of a program, its end and its death keep the invariant. *)
LEMMA SessionStep ==
    ASSUME SessionOK, SessionInv, [SessionNext]_sessionVars
    PROVE  SessionInv'
<1> USE DEF NoSession
<1>1. SessionTypeOK /\ Ending /\ CaredFor /\ RowsLive
  BY DEF SessionInv
<1>2. CASE ServerEnds
  <2>1. /\ alive' \subseteq alive
        /\ UNCHANGED <<made, sessionRows, ended, stray, ctx>>
    BY <1>2 DEF ServerEnds
  <2>2. SessionTypeOK'
    BY <1>1, <2>1 DEF SessionTypeOK
  <2>3. Ending'
    BY <1>1, <2>1 DEF Ending, Is
  <2>4. CaredFor'
    BY <1>1, <2>1 DEF CaredFor
  <2>5. RowsLive'
    BY <1>1, <2>1 DEF RowsLive
  <2> QED
    BY <2>2, <2>3, <2>4, <2>5 DEF SessionInv
<1>3. ASSUME NEW c \in Contexts,
             \/ NewBackend(c) \/ Refused(c) \/ Authenticate(c) \/ AuthSudo(c)
             \/ PreAuthenticate(c) \/ StoreSession(c) \/ RemoveAccount(c) \/ Quit(c)
             \/ CloseSession(c) \/ Kill(c)
      PROVE  SessionInv'
  <2>1. /\ ctx \in [Contexts -> ContextType] /\ ctx[c] \in ContextType
        /\ ctx[c].session \in Nat /\ ctx[c].session <= made
        /\ ctx[c].at \in {"down", "new", "in", "ending"} /\ ctx[c].del \in BOOLEAN
        /\ made \in Nat
    BY <1>1 DEF SessionTypeOK, ContextType
  <2>2. ASSUME NEW n \in ContextType, ctx' = [ctx EXCEPT ![c] = n]
        PROVE  \A d \in Contexts : ctx'[d] = IF d = c THEN n ELSE ctx[d]
    BY <2>1, <2>2
  (* c goes on, with what it has *)
  <2>3. ASSUME NEW n \in ContextType, ctx' = [ctx EXCEPT ![c] = n],
               n.del = ctx[c].del, n.session = ctx[c].session,
               n.at \in {"down", "new"} => Is(c, "down") \/ Is(c, "new"),
               n.at = "in" => Is(c, "new") \/ Is(c, "in"),
               UNCHANGED <<alive, made, ended>>,
               \/ UNCHANGED <<sessionRows, stray>>
               \/ /\ sessionRows' = sessionRows \ {n.session}
                  /\ stray' = IF n.session \in sessionRows THEN stray \cup {n.session} ELSE stray
        PROVE  SessionInv'
    <3>1. \A d \in Contexts : ctx'[d] = IF d = c THEN n ELSE ctx[d]
      BY <2>2, <2>3
    <3>2. /\ sessionRows' \subseteq sessionRows /\ stray \subseteq stray'
          /\ sessionRows \cup stray \subseteq sessionRows' \cup stray'
          /\ stray' \subseteq stray \cup sessionRows
      BY <2>3
    <3>3. SessionTypeOK'
      BY <1>1, <2>1, <2>3, <3>1, <3>2 DEF SessionTypeOK
    <3>4. Ending'
      BY <1>1, <2>1, <2>3, <3>1, <3>2 DEF Ending, Is
    <3>5. CaredFor'
      <4>1. \A d \in Contexts : ctx'[d].del = ctx[d].del /\ ctx'[d].session = ctx[d].session
        BY <2>3, <3>1
      <4> QED
        BY <1>1, <2>3, <3>2, <4>1 DEF CaredFor
    <3>6. RowsLive'
      BY <1>1, <2>3, <3>2 DEF RowsLive
    <3> QED
      BY <3>3, <3>4, <3>5, <3>6 DEF SessionInv
  <2>4. CASE NewBackend(c)
    <3>1. PICK program \in {"gui", "cli"} :
            ctx' = [ctx EXCEPT ![c] = [Moved(c, "new") EXCEPT !.program = program]]
      BY <2>4 DEF NewBackend, Change
    <3>2. PICK n : n = [Moved(c, "new") EXCEPT !.program = program]
      OBVIOUS
    <3>3. /\ n \in ContextType /\ n.at = "new"
          /\ n.del = ctx[c].del /\ n.session = ctx[c].session
      BY <2>1, <3>2 DEF Moved, ContextType
    <3> QED
      BY <2>3, <2>4, <3>1, <3>2, <3>3 DEF NewBackend
  <2>5. CASE Refused(c) \/ AuthSudo(c) \/ RemoveAccount(c) \/ Quit(c)
    <3>1. PICK label \in {"new", "ending", "in"} :
            /\ ctx' = [ctx EXCEPT ![c] = Moved(c, label)]
            /\ label = "new" => Is(c, "new")
            /\ label = "in" => Is(c, "new")
      <4>1. CASE Refused(c)
        <5>1. Is(c, "new") /\ (ctx' = [ctx EXCEPT ![c] = Moved(c, "ending")] \/ ctx' = ctx)
          BY <4>1 DEF Refused, Change
        <5>2. CASE ctx' = ctx
          <6>1. Moved(c, "new") = ctx[c]
            BY <2>1, <5>1 DEF Moved, Is, ContextType
          <6>2. ctx' = [ctx EXCEPT ![c] = ctx[c]]
            BY <2>1, <5>2
          <6> QED
            BY <5>1, <6>1, <6>2
        <5> QED
          BY <5>1, <5>2
      <4>2. CASE AuthSudo(c)
        BY <4>2 DEF AuthSudo, Change
      <4>3. CASE RemoveAccount(c)
        BY <4>3 DEF RemoveAccount, Change
      <4>4. CASE Quit(c)
        BY <4>4 DEF Quit, Change
      <4> QED
        BY <2>5, <4>1, <4>2, <4>3, <4>4
    <3>2. PICK n :
            /\ n = Moved(c, label) /\ ctx' = [ctx EXCEPT ![c] = n]
            /\ label = "new" => Is(c, "new")
            /\ label = "in" => Is(c, "new")
      BY <3>1
    <3>3. /\ n \in ContextType /\ n.at = label
          /\ n.del = ctx[c].del /\ n.session = ctx[c].session
      BY <2>1, <3>2 DEF Moved, ContextType
    <3>4. /\ UNCHANGED <<alive, made, ended>>
          /\ \/ UNCHANGED <<sessionRows, stray>>
             \/ /\ sessionRows' = sessionRows \ {n.session}
                /\ stray' = IF n.session \in sessionRows THEN stray \cup {n.session} ELSE stray
      BY <2>5, <3>3 DEF Refused, AuthSudo, RemoveAccount, Quit
    <3> QED
      BY <2>3, <3>2, <3>3, <3>4
  <2>6. CASE Authenticate(c)
    <3>1. /\ Is(c, "new") /\ made' = made + 1 /\ alive' = alive \cup {made + 1}
          /\ UNCHANGED <<sessionRows, ended>>
      BY <2>6 DEF Authenticate
    <3>2. ~ctx[c].del /\ ctx[c].session = NoSession
      BY <1>1, <3>1 DEF Ending
    <3>3. PICK n \in ContextType :
            /\ ctx' = [ctx EXCEPT ![c] = n]
            /\ n.at \in {"in", "ending"}
            /\ \/ /\ stray' = stray \cup {made + 1} /\ n.at = "ending"
                  /\ n.session = NoSession
               \/ /\ stray' = stray /\ n.del /\ n.session = made + 1
      <4>1. CASE ctx' = [ctx EXCEPT ![c] = Moved(c, "ending")] /\ stray' = stray \cup {made'}
        <5>1. PICK n : n = Moved(c, "ending")
          OBVIOUS
        <5>2. n \in ContextType /\ n.at = "ending" /\ n.session = NoSession
          BY <2>1, <3>2, <5>1 DEF Moved, ContextType
        <5> QED
          BY <3>1, <4>1, <5>1, <5>2
      <4>2. CASE /\ ctx' = [ctx EXCEPT ![c] = [Moved(c, "ending") EXCEPT !.del = TRUE]]
                 /\ stray' = stray \cup {made'}
        <5>1. PICK n : n = [Moved(c, "ending") EXCEPT !.del = TRUE]
          OBVIOUS
        <5>2. n \in ContextType /\ n.at = "ending" /\ n.session = NoSession
          BY <2>1, <3>2, <5>1 DEF Moved, ContextType
        <5> QED
          BY <3>1, <4>2, <5>1, <5>2
      <4>3. CASE /\ stray' = stray
                 /\ ctx' = [ctx EXCEPT ![c] =
                              [Moved(c, "in") EXCEPT !.del = TRUE, !.session = made']]
        <5>1. PICK s \in Nat : s = made'
          BY <2>1, <3>1
        <5>2. PICK n : n = [Moved(c, "in") EXCEPT !.del = TRUE, !.session = s]
          OBVIOUS
        <5>3. n \in ContextType /\ n.at = "in" /\ n.del /\ n.session = s
          BY <2>1, <5>2 DEF Moved, ContextType
        <5> QED
          BY <3>1, <4>3, <5>1, <5>2, <5>3
      <4> QED
        BY <2>6, <4>1, <4>2, <4>3 DEF Authenticate, Change
    <3>4. \A d \in Contexts : ctx'[d] = IF d = c THEN n ELSE ctx[d]
      BY <2>2, <3>3
    <3>5. SessionTypeOK'
      <4>1. ctx' \in [Contexts -> ContextType]
        BY <2>1, <3>3
      <4>2. \A d \in Contexts : ctx[d].session \in Nat
        BY <2>1 DEF ContextType
      <4>3. n.session \in Nat /\ n.session <= made + 1
        BY <2>1, <3>3 DEF NoSession
      <4>4. \A d \in Contexts : ctx'[d].session <= made + 1
        BY <1>1, <2>1, <3>4, <4>2, <4>3 DEF SessionTypeOK
      <4>5. made \in Nat \ {0} /\ 1 .. made \subseteq 1 .. made + 1 /\ made + 1 \in 1 .. made + 1
        BY <1>1 DEF SessionTypeOK
      <4>6. /\ alive \cup {made + 1} \subseteq 1 .. made + 1
            /\ stray \cup {made + 1} \subseteq 1 .. made + 1
            /\ sessionRows \subseteq 1 .. made + 1 /\ ended \subseteq 1 .. made + 1
            /\ GivenSession \in 1 .. made + 1 /\ stray \subseteq 1 .. made + 1
        BY <1>1, <4>5 DEF SessionTypeOK
      <4>7. stray' \subseteq 1 .. made + 1
        BY <3>3, <4>6
      <4> QED
        BY <3>1, <4>1, <4>4, <4>5, <4>6, <4>7 DEF SessionTypeOK
    <3>6. Ending'
      BY <1>1, <2>1, <3>1, <3>3, <3>4 DEF Ending, Is, SessionTypeOK
    <3>7. CaredFor'
      BY <1>1, <2>1, <3>1, <3>2, <3>3, <3>4 DEF CaredFor
    <3>8. RowsLive'
      BY <1>1, <3>1 DEF RowsLive
    <3> QED
      BY <3>5, <3>6, <3>7, <3>8 DEF SessionInv
  <2>7. CASE PreAuthenticate(c)
    <3>1. /\ Is(c, "new") /\ UNCHANGED <<alive, made, sessionRows, ended, stray>>
      BY <2>7 DEF PreAuthenticate
    <3>2. ~ctx[c].del /\ ctx[c].session = NoSession
      BY <1>1, <3>1 DEF Ending
    <3>3. PICK s \in sessionRows \cup {GivenSession} :
            \/ ctx' = [ctx EXCEPT ![c] = [Moved(c, "in") EXCEPT !.session = s]]
            \/ ctx' = [ctx EXCEPT ![c] = [Moved(c, "ending") EXCEPT !.session = s]]
      BY <2>7 DEF PreAuthenticate, Sessions, Change
    <3>4. s \in 1 .. made
      BY <1>1, <3>3 DEF SessionTypeOK
    <3>5. PICK n \in ContextType :
            /\ ctx' = [ctx EXCEPT ![c] = n]
            /\ n.at \in {"in", "ending"} /\ ~n.del /\ n.session = s
      <4>1. PICK label \in {"in", "ending"} :
              ctx' = [ctx EXCEPT ![c] = [Moved(c, label) EXCEPT !.session = s]]
        BY <3>3
      <4>2. PICK n : n = [Moved(c, label) EXCEPT !.session = s]
        OBVIOUS
      <4>3. s \in Nat
        BY <3>4
      <4>4. n \in ContextType /\ n.at = label /\ n.session = s /\ n.del = ctx[c].del
        BY <2>1, <4>2, <4>3 DEF Moved, ContextType
      <4> QED
        BY <3>2, <4>1, <4>2, <4>4
    <3>6. \A d \in Contexts : ctx'[d] = IF d = c THEN n ELSE ctx[d]
      BY <2>2, <3>5
    <3>7. SessionTypeOK'
      BY <1>1, <2>1, <3>1, <3>4, <3>5, <3>6 DEF SessionTypeOK
    <3>8. Ending'
      BY <1>1, <2>1, <3>1, <3>3, <3>5, <3>6 DEF Ending, Is
    <3>9. CaredFor'
      BY <1>1, <3>1, <3>2, <3>6 DEF CaredFor
    <3>10. RowsLive'
      BY <1>1, <3>1 DEF RowsLive
    <3> QED
      BY <3>7, <3>8, <3>9, <3>10 DEF SessionInv
  <2>8. CASE StoreSession(c)
    <3>1. /\ Is(c, "in") /\ ctx[c].del /\ UNCHANGED <<alive, made, ended>>
          /\ \/ /\ sessionRows = {} /\ sessionRows' = {ctx[c].session} /\ stray' = stray
             \/ stray' = stray \cup {ctx[c].session} /\ sessionRows' = sessionRows
      BY <2>8 DEF StoreSession, SetSession
    <3>2. ctx[c].session # NoSession
      BY <1>1, <3>1 DEF Ending
    <3>3. PICK n : n = Kept(c)
      OBVIOUS
    <3>4. /\ n \in ContextType /\ ctx' = [ctx EXCEPT ![c] = n]
          /\ ~n.del /\ n.session = ctx[c].session /\ n.at = "in"
      BY <2>1, <2>8, <3>1, <3>3 DEF StoreSession, Change, Kept, Is, ContextType
    <3>5. \A d \in Contexts : ctx'[d] = IF d = c THEN n ELSE ctx[d]
      BY <2>2, <3>4
    <3>6. ctx[c].session \notin ended /\ ctx[c].session \in 1 .. made
      BY <1>1, <2>1, <3>1, <3>2 DEF Ending
    <3>7. SessionTypeOK'
      BY <1>1, <2>1, <3>1, <3>4, <3>5, <3>6 DEF SessionTypeOK
    <3>8. Ending'
      BY <1>1, <2>1, <3>1, <3>4, <3>5 DEF Ending, Is
    <3>9. CaredFor'
      BY <1>1, <3>1, <3>5 DEF CaredFor
    <3>10. RowsLive'
      BY <1>1, <3>1, <3>6 DEF RowsLive
    <3> QED
      BY <3>7, <3>8, <3>9, <3>10 DEF SessionInv
  <2>9. CASE CloseSession(c) \/ Kill(c)
    <3>1. /\ ctx' = [ctx EXCEPT ![c] = Down] /\ UNCHANGED <<made, sessionRows>>
          /\ \/ ~ctx[c].del /\ UNCHANGED <<alive, ended, stray>>
             \/ /\ ctx[c].del /\ ctx[c].session # NoSession /\ stray' = stray
                /\ alive' = alive \ {ctx[c].session} /\ ended' = ended \cup {ctx[c].session}
             \/ /\ ctx[c].del /\ UNCHANGED <<alive, ended>>
                /\ stray' = stray \cup ({ctx[c].session} \ {NoSession})
      BY <2>9 DEF CloseSession, Kill
    <3>2. PICK n : n = Down
      OBVIOUS
    <3>3. n \in ContextType /\ n.at = "down" /\ ~n.del /\ n.session = NoSession
      BY <3>2 DEF Down, ContextType
    <3>4. \A d \in Contexts : ctx'[d] = IF d = c THEN n ELSE ctx[d]
      BY <2>2, <3>1, <3>2, <3>3
    <3>5. ctx[c].del /\ ctx[c].session # NoSession =>
            /\ ctx[c].session \notin sessionRows \cup {GivenSession}
            /\ \A d \in Contexts : d # c => ctx[d].session # ctx[c].session
      BY <1>1 DEF Ending
    <3>6. SessionTypeOK'
      <4>1. ctx' \in [Contexts -> ContextType]
        BY <2>1, <3>1, <3>2, <3>3
      <4>2. {ctx[c].session} \ {NoSession} \subseteq 1 .. made
        BY <2>1
      <4>3. alive' \subseteq 1 .. made /\ ended' \subseteq 1 .. made /\ stray' \subseteq 1 .. made
        BY <1>1, <3>1, <4>2 DEF SessionTypeOK
      <4>4. \A d \in Contexts : ctx'[d].session <= made
        BY <1>1, <2>1, <3>3, <3>4 DEF SessionTypeOK
      <4> QED
        BY <1>1, <3>1, <4>1, <4>3, <4>4 DEF SessionTypeOK
    <3>7. Ending'
      BY <1>1, <3>1, <3>3, <3>4, <3>5 DEF Ending, Is
    <3>8. CaredFor'
      <4>1. SUFFICES ASSUME NEW s \in alive'
                     PROVE  \/ s \in sessionRows \cup {GivenSession} \cup stray'
                            \/ \E d \in Contexts : ctx'[d].del /\ ctx'[d].session = s
        BY <3>1 DEF CaredFor
      <4>2. s \in alive /\ s # NoSession
        BY <1>1, <3>1 DEF SessionTypeOK
      <4>3. CASE s \in sessionRows \cup {GivenSession} \cup stray
        BY <3>1, <4>3
      <4>4. CASE \E d \in Contexts : ctx[d].del /\ ctx[d].session = s
        <5>1. PICK d \in Contexts : ctx[d].del /\ ctx[d].session = s
          BY <4>4
        <5>2. CASE d = c
          BY <3>1, <4>1, <4>2, <5>1, <5>2
        <5>3. CASE d # c
          BY <3>4, <5>1, <5>3
        <5> QED
          BY <5>2, <5>3
      <4> QED
        BY <1>1, <4>2, <4>3, <4>4 DEF CaredFor
    <3>9. RowsLive'
      BY <1>1, <3>1, <3>5 DEF RowsLive
    <3> QED
      BY <3>6, <3>7, <3>8, <3>9 DEF SessionInv
  <2> QED
    BY <1>3, <2>4, <2>5, <2>6, <2>7, <2>8, <2>9
<1>4. CASE UNCHANGED sessionVars
  BY <1>1, <1>4 DEF sessionVars, SessionInv, SessionTypeOK, Ending, CaredFor, RowsLive, Is
<1> QED
  BY <1>2, <1>3, <1>4 DEF SessionNext

(* A session that is stored or was given is not ended, and one that was made is not forgotten
   but in the ways BackendSession names. *)
THEOREM SessionsStay ==
    ASSUME SessionOK
    PROVE  SessionSpec => []SessionsKept
<1>1. SessionInit => SessionInv
  <2>1. SUFFICES ASSUME SessionInit PROVE SessionInv
    OBVIOUS
  <2>2. Down \in ContextType /\ ~Down.del /\ Down.session = NoSession /\ NoSession = 0
    BY DEF Down, ContextType, NoSession
  <2>3. \A c \in Contexts : ctx[c] = Down
    BY <2>1 DEF SessionInit
  <2> QED
    BY <2>1, <2>2, <2>3 DEF SessionOK, SessionInit, SessionInv, SessionTypeOK, Ending, CaredFor,
                            RowsLive
<1>2. SessionInv /\ [SessionNext]_sessionVars => SessionInv'
  BY SessionStep
<1>3. SessionInv => SessionsKept
  BY DEF SessionInv, SessionTypeOK, Ending, CaredFor, RowsLive, SessionsKept, NoSession
<1> QED
  BY <1>1, <1>2, <1>3, PTL DEF SessionSpec

-----------------------------------------------------------------------------
(* FetchFile: the body of an error may be as long as the file, or longer *)
FetchOK ==
    /\ PageSize \in Nat \ {0} /\ FileSizes \subseteq Nat /\ MaxPages \in Nat /\ MaxPiece \in Nat
    /\ BodySizes \subseteq Nat

(* readSize and SizeOf, of the arguments f *)
Whole(f) == Smaller(f.size - f.index * PageSize, PageSize * f.count)
Size(f, page) ==
    IF page * PageSize < f.size THEN Smaller(f.size - page * PageSize, PageSize) ELSE PageSize

Asked(f) ==
    /\ f \in [index : 0 .. MaxPages, count : 1 .. MaxPages, size : FileSizes, canRetry : BOOLEAN]
    /\ (f.index + f.count - 1) * PageSize < f.size

(* what a response has for a byte of a page: the file's, or an error's *)
Byte(ok, page, o) == IF ok THEN page * PageSize + o ELSE Body

(* a page that is handed over is of one response, which may be an error's if it is repeated *)
Filled(f, page, data) ==
    \E ok \in BOOLEAN :
      /\ data = [o \in 0 .. Size(f, page) - 1 |-> Byte(ok, page, o)]
      /\ ~ok => /\ f.canRetry
               /\ \E b \in BodySizes : b >= (page - f.index) * PageSize + Size(f, page)

HandedOver(f, ci, ha) ==
    /\ ci \in f.index .. f.index + f.count /\ DOMAIN ha = f.index .. ci - 1
    /\ \A p \in f.index .. ci - 1 : Filled(f, p, ha[p])

PagesOf(f, ci) == [size : {Size(f, ci)}, data : [0 .. Size(f, ci) - 1 -> Int]]

(* An attempt is in the page that is being filled, which it has filled so far, or before it. *)
InPlace(f, ok, ci, cp, pos) ==
    /\ ci < f.index + f.count => pos < (ci - f.index) * PageSize + Size(f, ci)
    /\ pos > (ci - f.index) * PageSize =>
         /\ cp # NoPage
         /\ \A o \in 0 .. pos - (ci - f.index) * PageSize - 1 : cp.data[o] = Byte(ok, ci, o)

Streamed(f, h, ch, ci, cp, at) ==
    /\ h \in [attempt : Nat, canRetry : BOOLEAN, offset : Nat, left : Nat, ok : BOOLEAN]
    /\ ch \in [rbyte : Nat, end : Nat]
    /\ at = "request" /\ h.canRetry => f.canRetry
    /\ at = "copy" => ch.rbyte < ch.end /\ ch.end = h.offset
    /\ at \in {"body", "copy"} =>
         /\ h.offset <= Whole(f)
         /\ ~h.ok => h.offset + h.left \in BodySizes /\ f.canRetry
    /\ at = "body" => InPlace(f, h.ok, ci, cp, h.offset)
    /\ at = "copy" => InPlace(f, h.ok, ci, cp, ch.rbyte)

(* What ReadFile takes for everything is everything when it has been copied. *)
AllCopied(f, rd, ch, ci, at) ==
    /\ rd \in Nat /\ rd <= Whole(f)
    /\ ci < f.index + f.count =>
         rd < Whole(f) \/ (at = "copy" /\ ch.end = Whole(f))
    /\ at \in {"ok", "unfinished"} => ci = f.index + f.count

(* The first attempt has nothing to ignore: it is in the page that is being filled, or has
   everything, and then no page is begun. *)
Reached(f, ci, pos) == pos >= (ci - f.index) * PageSize \/ pos >= Whole(f)

FirstTry(f, h, ch, ci, cp, at) ==
    /\ at = "unfinished" => h.attempt > 0
    /\ h.attempt = 0 =>
         /\ ci = f.index + f.count => cp = NoPage
         /\ at \in {"attempt", "request"} => ci = f.index
         /\ at = "body" => Reached(f, ci, h.offset)
         /\ at = "copy" => Reached(f, ci, ch.rbyte)

Fetched(f, h, rd, ch, ci, cp, ha, at) ==
    /\ Asked(f) /\ HandedOver(f, ci, ha) /\ cp \in {NoPage} \cup PagesOf(f, ci)
    /\ Streamed(f, h, ch, ci, cp, at) /\ AllCopied(f, rd, ch, ci, at)
    /\ FirstTry(f, h, ch, ci, cp, at)

FetchInv ==
    /\ Fetched(fetch, http, read, chunk, curIndex, curPage, handed, fetchPc)
    /\ mFailureState \in BOOLEAN

(* what is asked for is in the file *)
LEMMA AskedLemma ==
    ASSUME FetchOK, NEW f, Asked(f)
    PROVE  /\ f.index \in Nat /\ f.count \in Nat \ {0} /\ f.size \in Nat
           /\ f.index * PageSize \in Nat /\ f.count * PageSize \in Nat
           /\ PageSize * f.count = f.count * PageSize
           /\ f.index * PageSize < f.size
           /\ Whole(f) \in Nat \ {0} /\ Whole(f) <= f.count * PageSize
<1>1. f.index \in Nat /\ f.count \in Nat \ {0} /\ f.size \in Nat /\ PageSize \in Nat \ {0}
  <2>1. f.index \in 0 .. MaxPages /\ f.count \in 1 .. MaxPages /\ f.size \in FileSizes
    BY DEF Asked
  <2>2. f.size \in Nat
    BY <2>1 DEF FetchOK
  <2>3. MaxPages \in Nat /\ PageSize \in Nat \ {0}
    BY DEF FetchOK
  <2> QED
    BY <2>1, <2>2, <2>3
<1>2. PICK last \in Nat : last = f.index + f.count - 1
  BY <1>1
<1>3. last * PageSize < f.size /\ f.index <= last
  BY <1>1, <1>2 DEF Asked
<1>4. f.index * PageSize \in Nat /\ last * PageSize \in Nat /\ f.count * PageSize \in Nat
  BY <1>1, Multiples
<1>5. f.index * PageSize <= last * PageSize
  <2>1. CASE f.index = last
    BY <1>4, <2>1
  <2>2. CASE f.index < last
    <3>1. f.index * PageSize + PageSize <= last * PageSize
      BY <1>1, <2>2, Multiples
    <3> QED
      BY <1>1, <1>4, <3>1
  <2> QED
    BY <1>1, <1>3, <2>1, <2>2
<1>6. f.index * PageSize < f.size
  BY <1>1, <1>3, <1>4, <1>5
<1>7. 0 * PageSize + PageSize <= f.count * PageSize /\ 0 * PageSize = 0
  <2>1. 0 < f.count => 0 * PageSize + PageSize <= f.count * PageSize
    BY <1>1, Multiples
  <2> QED
    BY <1>1, <2>1
<1>8. PageSize * f.count = f.count * PageSize
  BY <1>1
<1>9. Whole(f) \in Nat \ {0} /\ Whole(f) <= f.count * PageSize
  BY <1>1, <1>4, <1>6, <1>7, <1>8 DEF Whole, Smaller
<1> QED
  BY <1>1, <1>4, <1>6, <1>8, <1>9

(* The page that is the k-th of those asked for. *)
LEMMA PageLemma ==
    ASSUME FetchOK, NEW f, Asked(f), NEW k \in Nat, k < f.count
    PROVE  /\ k * PageSize \in Nat /\ (k + 1) * PageSize = k * PageSize + PageSize
           /\ (f.index + k) * PageSize = f.index * PageSize + k * PageSize
           /\ (f.index + k) * PageSize < f.size
           /\ Size(f, f.index + k) \in 1 .. PageSize
           /\ k * PageSize + Size(f, f.index + k) <= Whole(f)
           /\ k + 1 < f.count => Size(f, f.index + k) = PageSize
           /\ k + 1 = f.count => k * PageSize + Size(f, f.index + k) = Whole(f)
<1>1. /\ f.index \in Nat /\ f.count \in Nat \ {0} /\ f.size \in Nat /\ PageSize \in Nat \ {0}
      /\ f.index * PageSize \in Nat /\ f.count * PageSize \in Nat
      /\ PageSize * f.count = f.count * PageSize
  BY AskedLemma DEF FetchOK
<1>2. k * PageSize \in Nat /\ (k + 1) * PageSize = k * PageSize + PageSize
  BY <1>1, Multiples
<1>3. (f.index + k) * PageSize = f.index * PageSize + k * PageSize
  BY <1>1
<1>4. PICK rest \in Nat : rest = f.count - 1
  BY <1>1
<1>5. rest * PageSize \in Nat /\ f.count * PageSize = rest * PageSize + PageSize
  <2>1. (rest + 1) * PageSize = rest * PageSize + PageSize /\ rest * PageSize \in Nat
    BY <1>1, Multiples
  <2> QED
    BY <1>1, <1>4, <2>1
<1>6. f.index * PageSize + rest * PageSize < f.size
  <2>1. (f.index + rest) * PageSize = f.index * PageSize + rest * PageSize
    BY <1>1
  <2>2. f.index + f.count - 1 = f.index + rest
    BY <1>1, <1>4
  <2> QED
    BY <2>1, <2>2 DEF Asked
<1>7. CASE k = rest
  BY <1>1, <1>2, <1>3, <1>4, <1>5, <1>6, <1>7 DEF Size, Whole, Smaller
<1>8. CASE k < rest
  <2>1. k * PageSize + PageSize <= rest * PageSize
    BY <1>1, <1>8, Multiples
  <2> QED
    BY <1>1, <1>2, <1>3, <1>4, <1>5, <1>6, <1>8, <2>1 DEF Size, Whole, Smaller
<1> QED
  BY <1>1, <1>4, <1>7, <1>8

(* The server's answer goes to the page it is of. *)
LEMMA CopyLemma ==
    ASSUME FetchOK, FetchInv, CopyPiece
    PROVE  FetchInv'
<1>1. /\ fetchPc = "copy" /\ fetch' = fetch /\ http' = http /\ read' = read
      /\ mFailureState' = mFailureState /\ mFailureState \in BOOLEAN
      /\ Asked(fetch) /\ HandedOver(fetch, curIndex, handed)
      /\ curPage \in {NoPage} \cup PagesOf(fetch, curIndex)
      /\ Streamed(fetch, http, chunk, curIndex, curPage, fetchPc)
      /\ AllCopied(fetch, read, chunk, curIndex, fetchPc)
      /\ FirstTry(fetch, http, chunk, curIndex, curPage, fetchPc)
  BY DEF CopyPiece, FetchInv, Fetched
<1>2. /\ chunk \in [rbyte : Nat, end : Nat] /\ chunk.rbyte \in Nat /\ chunk.end \in Nat
      /\ chunk.rbyte < chunk.end /\ chunk.end = http.offset /\ chunk.end <= Whole(fetch)
      /\ http \in [attempt : Nat, canRetry : BOOLEAN, offset : Nat, left : Nat, ok : BOOLEAN]
      /\ http.left \in Nat /\ http.ok \in BOOLEAN
      /\ ~http.ok => http.offset + http.left \in BodySizes /\ fetch.canRetry
      /\ InPlace(fetch, http.ok, curIndex, curPage, chunk.rbyte)
  BY <1>1 DEF Streamed
<1>3. /\ fetch.index \in Nat /\ fetch.count \in Nat \ {0} /\ fetch.size \in Nat
      /\ PageSize \in Nat \ {0} /\ Whole(fetch) \in Nat \ {0}
      /\ curIndex \in fetch.index .. fetch.index + fetch.count
  BY <1>1, AskedLemma DEF HandedOver, FetchOK
<1>4. fetch.count * PageSize \in Nat /\ Whole(fetch) <= fetch.count * PageSize
  BY <1>1, AskedLemma
<1>5. PICK k \in Nat : curIndex = fetch.index + k /\ k = curIndex - fetch.index
                        /\ k <= fetch.count
  BY <1>3
<1>6. PICK rindex \in Nat, from \in 0 .. PageSize - 1, past \in Nat :
        /\ rindex = chunk.rbyte \div PageSize /\ from = chunk.rbyte % PageSize
        /\ past = rindex * PageSize /\ chunk.rbyte = past + from
  <2>1. /\ chunk.rbyte \div PageSize \in Nat /\ chunk.rbyte % PageSize \in 0 .. PageSize - 1
        /\ chunk.rbyte = (chunk.rbyte \div PageSize) * PageSize + (chunk.rbyte % PageSize)
    BY <1>2, <1>3, Division
  <2>2. PICK rindex \in Nat, from \in 0 .. PageSize - 1 :
          /\ rindex = chunk.rbyte \div PageSize /\ from = chunk.rbyte % PageSize
          /\ chunk.rbyte = rindex * PageSize + from
    BY <2>1, Zenon
  <2>3. rindex * PageSize \in Nat
    BY <1>3, Multiples
  <2> QED
    BY <2>2, <2>3
<1>7. PICK done \in Nat : done = k * PageSize
  BY <1>3, Multiples
<1>8. /\ past \in Nat /\ done \in Nat /\ rindex \in Nat /\ k \in Nat
      /\ from \in 0 .. PageSize - 1 /\ chunk.rbyte = past + from
  BY <1>6, <1>7, <1>5
<1>9. PICK size : size = Size(fetch, curIndex)
  OBVIOUS
<1>10. size \in 1 .. PageSize
  <2>1. CASE k < fetch.count
    BY <1>1, <1>5, <1>9, <2>1, PageLemma
  <2>2. CASE k = fetch.count
    <3>1. curIndex * PageSize \in Nat
      BY <1>3, <1>5
    <3> QED
      BY <1>3, <1>9, <3>1 DEF Size, Smaller
  <2> QED
    BY <1>3, <1>5, <2>1, <2>2
<1>11. PICK page : page = IF curPage = NoPage
                         THEN [size |-> SizeOf(curIndex),
                               data |-> [o \in 0 .. SizeOf(curIndex) - 1 |-> Junk]]
                         ELSE curPage
  OBVIOUS
<1>12. page \in PagesOf(fetch, curIndex) /\ page # NoPage
  <2>1. SizeOf(curIndex) = size
    BY <1>9 DEF SizeOf, Size
  <2>2. CASE curPage = NoPage
    <3>1. PICK data : data = [o \in 0 .. size - 1 |-> Junk]
      OBVIOUS
    <3>2. data \in [0 .. size - 1 -> Int]
      BY <3>1 DEF Junk
    <3>3. page = [size |-> size, data |-> data]
      BY <1>11, <2>1, <2>2, <3>1
    <3>4. page.size # NoPage.size
      BY <1>10, <3>3 DEF NoPage
    <3> QED
      BY <1>9, <3>2, <3>3, <3>4 DEF PagesOf
  <2>3. CASE curPage # NoPage
    BY <1>1, <1>11, <2>3
  <2> QED
    BY <2>2, <2>3
<1>13. PICK data \in [0 .. size - 1 -> Int] : data = page.data /\ page = [size |-> size, data |-> data]
  BY <1>9, <1>12 DEF PagesOf
<1>14. PICK to : to = Smaller(from + chunk.end - chunk.rbyte, PageSize)
  OBVIOUS
<1>15. /\ to \in Nat /\ from < to /\ to <= PageSize
       /\ to - from <= chunk.end - chunk.rbyte /\ chunk.rbyte + to - from \in Nat
       /\ chunk.rbyte + to - from = past + to
       /\ to = PageSize \/ chunk.rbyte + to - from = chunk.end
  <2>1. PICK at \in Nat, end \in Nat, p \in Nat :
          at = chunk.rbyte /\ end = chunk.end /\ p = PageSize
    BY <1>2, <1>3
  <2>2. at < end /\ at = past + from /\ from < p /\ past \in Nat /\ from \in Nat
    BY <1>2, <1>3, <1>8, <2>1
  <2>3. to = Smaller(from + end - at, p)
    BY <1>14, <2>1
  <2>4. to = IF from + end - at < p THEN from + end - at ELSE p
    BY <2>3 DEF Smaller
  <2>5. /\ to \in Nat /\ from < to /\ to <= p
        /\ to - from <= end - at /\ at + to - from \in Nat
        /\ at + to - from = past + to
        /\ to = p \/ at + to - from = end
    BY <2>2, <2>4
  <2> QED
    BY <2>1, <2>5
<1>16. PICK filled : filled = [o \in 0 .. size - 1 |->
                                 IF from <= o /\ o < to
                                 THEN Byte(http.ok, fetch.index + rindex, o)
                                 ELSE data[o]]
  OBVIOUS
<1>17. filled \in [0 .. size - 1 -> Int]
  <2>1. (fetch.index + rindex) * PageSize \in Int
    <3>1. fetch.index + rindex \in Nat
      BY <1>3, <1>8
    <3> QED
      BY <1>3, <3>1, Multiples
  <2> QED
    BY <1>10, <1>13, <1>16, <2>1 DEF Byte, Body
<1>18. /\ IF Relevant(rindex) /\ to = size
          THEN /\ handed' = [p \in DOMAIN handed \cup {curIndex} |->
                                IF p = curIndex THEN filled ELSE handed[p]]
               /\ curPage' = NoPage /\ curIndex' = curIndex + 1
          ELSE /\ curPage' = [page EXCEPT !.data = IF Relevant(rindex) THEN filled ELSE @]
               /\ handed' = handed /\ curIndex' = curIndex
       /\ chunk' = [chunk EXCEPT !.rbyte = chunk.rbyte + to - from]
       /\ fetchPc' = IF chunk'.rbyte = chunk.end THEN "body" ELSE "copy"
  <2>1. DOMAIN page.data = 0 .. size - 1 /\ page.size = size
    BY <1>13
  <2>2. chunk.rbyte + (to - from) = chunk.rbyte + to - from
    BY <1>2, <1>6, <1>15
  <2> QED
    BY <1>6, <1>11, <1>13, <1>14, <1>16, <2>1, <2>2, ZenonT(40) DEF CopyPiece, Byte
<1>19. PICK pos \in Nat : pos = chunk.rbyte + to - from
  BY <1>15
<1>20. /\ chunk' \in [rbyte : Nat, end : Nat] /\ chunk'.rbyte = pos /\ chunk'.end = chunk.end
       /\ pos <= chunk.end /\ fetchPc' \in {"body", "copy"}
       /\ fetchPc' = "body" <=> pos = chunk.end
  <2>1. chunk' = [chunk EXCEPT !.rbyte = pos]
    BY <1>18, <1>19
  <2>2. chunk' \in [rbyte : Nat, end : Nat] /\ chunk'.rbyte = pos /\ chunk'.end = chunk.end
    BY <1>2, <2>1
  <2>3. pos <= chunk.end
    BY <1>2, <1>8, <1>15, <1>19
  <2>4. fetchPc' = IF pos = chunk.end THEN "body" ELSE "copy"
    BY <1>18, <2>2
  <2> QED
    BY <2>2, <2>3, <2>4
<1>21. Relevant(rindex) <=> rindex = k
  BY <1>5 DEF Relevant
(* a page that has not been begun, or is being filled, is not behind the attempt *)
<1>23. rindex <= k
  <2>1. SUFFICES ASSUME k < rindex PROVE FALSE
    BY <1>8
  <2>2. done + PageSize <= past
    BY <1>3, <1>6, <1>7, <2>1, Multiples
  <2>3. CASE k < fetch.count
    <3>1. chunk.rbyte < done + size
      <4>1. curIndex < fetch.index + fetch.count
        BY <1>3, <1>5, <2>3
      <4>2. chunk.rbyte < (curIndex - fetch.index) * PageSize + Size(fetch, curIndex)
        BY <1>2, <2>1, <4>1 DEF InPlace
      <4> QED
        BY <1>5, <1>9, <1>7, <4>2
    <3> QED
      BY <1>2, <1>3, <1>10, <1>8, <2>2, <3>1
  <2>4. CASE k = fetch.count
    <3>1. Whole(fetch) <= done
      BY <1>4, <1>7, <2>4
    <3> QED
      BY <1>2, <1>3, <1>8, <2>2, <3>1
  <2> QED
    BY <1>3, <1>5, <2>3, <2>4
<1>24. rindex = k => k < fetch.count
  <2>1. SUFFICES ASSUME rindex = k, k = fetch.count PROVE FALSE
    BY <1>3, <1>5
  <2>2. Whole(fetch) <= past
    BY <1>4, <1>6, <2>1
  <2> QED
    BY <1>2, <1>3, <1>8, <2>2
(* and the first attempt is in it *)
<1>22. http.attempt = 0 => rindex = k /\ chunk.rbyte >= done
  <2>1. SUFFICES ASSUME http.attempt = 0 PROVE rindex = k /\ chunk.rbyte >= done
    OBVIOUS
  <2>2. chunk.rbyte >= (curIndex - fetch.index) * PageSize \/ chunk.rbyte >= Whole(fetch)
    BY <1>1, <2>1 DEF FirstTry, Reached
  <2>3. chunk.rbyte >= done
    BY <1>2, <1>3, <1>5, <1>7, <2>2
  <2>4. SUFFICES ASSUME rindex < k PROVE FALSE
    BY <1>8, <1>23, <2>3
  <2>5. past + PageSize <= done
    BY <1>3, <1>6, <1>7, <2>4, Multiples
  <2> QED
    BY <1>2, <1>3, <1>8, <2>3, <2>5
<1>25. CASE rindex = k /\ to = size
  <2>1. /\ curPage' = NoPage /\ curIndex' = fetch.index + (k + 1)
        /\ handed' = [p \in DOMAIN handed \cup {curIndex} |->
                        IF p = curIndex THEN filled ELSE handed[p]]
    BY <1>3, <1>5, <1>18, <1>21, <1>25
  <2>2. k < fetch.count
    BY <1>24, <1>25
  <2>3. past = done
    BY <1>6, <1>7, <1>25
  <2>4. filled = [o \in 0 .. size - 1 |-> Byte(http.ok, curIndex, o)]
    <3>1. ASSUME NEW o \in 0 .. size - 1, o < from
          PROVE  data[o] = Byte(http.ok, curIndex, o)
      <4>1. chunk.rbyte > done /\ chunk.rbyte - done = from
        BY <1>8, <1>25, <3>1, <2>3
      <4>2. /\ curPage # NoPage
            /\ \A i \in 0 .. from - 1 : curPage.data[i] = Byte(http.ok, curIndex, i)
        BY <1>2, <1>5, <1>7, <2>2, <4>1 DEF InPlace
      <4>3. page = curPage
        BY <1>11, <4>2
      <4> QED
        BY <1>6, <1>13, <3>1, <4>2, <4>3
    <3>2. curIndex = fetch.index + rindex
      BY <1>5, <1>25
    <3>3. ASSUME NEW o \in 0 .. size - 1, ~(o < from)
          PROVE  filled[o] = Byte(http.ok, curIndex, o)
      <4>1. from <= o /\ o < to
        BY <1>8, <1>10, <1>15, <1>25, <3>3
      <4> QED
        BY <1>16, <2>2, <3>2, <3>3, <4>1
    <3>4. ASSUME NEW o \in 0 .. size - 1, o < from
          PROVE  filled[o] = Byte(http.ok, curIndex, o)
      <4>1. ~(from <= o)
        BY <1>8, <1>10, <3>4
      <4> QED
        BY <1>16, <3>1, <3>4, <4>1
    <3> QED
      BY <1>16, <1>17, <3>3, <3>4
  <2>12. ~http.ok => fetch.canRetry /\ \E b \in BodySizes : b >= done + size
    <3>1. SUFFICES ASSUME ~http.ok PROVE \E b \in BodySizes : b >= done + size
      BY <1>2
    <3>2. PICK b \in BodySizes : b = http.offset + http.left
      BY <1>2, <3>1
    <3>3. pos = done + size /\ pos <= http.offset /\ http.offset \in Nat
      BY <1>2, <1>8, <1>10, <1>15, <1>19, <1>20, <1>25, <2>3
    <3>4. b >= done + size
      BY <1>2, <3>2, <3>3
    <3> QED
      BY <3>4
  <2>5. HandedOver(fetch, curIndex', handed')
    <3>1. fetch.index .. curIndex' - 1 = (fetch.index .. curIndex - 1) \cup {curIndex}
      <4>1. PICK i \in Nat, c \in Nat : i = fetch.index /\ c = curIndex /\ i <= c
        BY <1>3
      <4>2. curIndex' - 1 = c
        <5>1. curIndex = fetch.index + k /\ curIndex' = fetch.index + (k + 1)
          BY <1>5, <2>1
        <5> QED
          BY <1>3, <1>8, <4>1, <5>1
      <4>3. i .. c = (i .. c - 1) \cup {c}
        BY <4>1
      <4> QED
        BY <4>1, <4>2, <4>3
    <3>2. DOMAIN handed = fetch.index .. curIndex - 1
      BY <1>1 DEF HandedOver
    <3>3. DOMAIN handed' = fetch.index .. curIndex' - 1
      BY <2>1, <3>1, <3>2
    <3>4. ASSUME NEW p \in fetch.index .. curIndex' - 1
          PROVE  Filled(fetch, p, handed'[p])
      <4>1. CASE p = curIndex
        <5>1. handed'[p] = [o \in 0 .. Size(fetch, p) - 1 |-> Byte(http.ok, p, o)]
          BY <1>9, <2>1, <2>4, <4>1
        <5>2. ~http.ok => /\ fetch.canRetry
                          /\ \E b \in BodySizes : b >= (p - fetch.index) * PageSize + Size(fetch, p)
          BY <1>5, <1>7, <1>9, <2>12, <4>1
        <5> QED
          BY <1>2, <5>1, <5>2 DEF Filled
      <4>2. CASE p # curIndex
        BY <1>1, <2>1, <3>1, <3>2, <3>4, <4>2 DEF HandedOver
      <4> QED
        BY <4>1, <4>2
    <3>5. curIndex' \in fetch.index .. fetch.index + fetch.count
      BY <1>3, <2>1, <2>2
    <3> QED
      BY <3>3, <3>4, <3>5 DEF HandedOver
  <2>6. /\ (k + 1) * PageSize = done + PageSize
        /\ done + size <= Whole(fetch)
        /\ k + 1 < fetch.count => size = PageSize
        /\ k + 1 = fetch.count => done + size = Whole(fetch)
    BY <1>1, <1>5, <1>9, <1>7, <2>2, PageLemma
  <2>7. pos = done + size
    BY <1>8, <1>10, <1>15, <1>19, <1>25, <2>3
  <2>8. InPlace(fetch, http.ok, curIndex', curPage', pos)
    <3>1. curIndex' - fetch.index = k + 1
      BY <1>3, <2>1
    <3>2. pos <= (k + 1) * PageSize
      BY <1>3, <1>10, <1>7, <2>6, <2>7
    <3>3. curIndex' < fetch.index + fetch.count =>
            pos < (k + 1) * PageSize + Size(fetch, curIndex')
      <4>1. SUFFICES ASSUME k + 1 < fetch.count
                     PROVE  pos < (k + 1) * PageSize + Size(fetch, curIndex')
        BY <1>3, <2>1
      <4>2. Size(fetch, curIndex') \in 1 .. PageSize
        BY <1>1, <2>1, <4>1, PageLemma
      <4> QED
        BY <1>3, <1>7, <2>6, <3>2, <4>2
    <3>4. ~(pos > (k + 1) * PageSize)
      BY <1>3, <1>7, <2>6, <3>2
    <3> QED
      BY <3>1, <3>3, <3>4 DEF InPlace
  <2>9. Streamed(fetch, http, chunk', curIndex', curPage', fetchPc')
    BY <1>2, <1>20, <2>2, <2>8 DEF Streamed
  <2>10. AllCopied(fetch, read, chunk', curIndex', fetchPc')
    <3>1. curIndex' < fetch.index + fetch.count => pos < Whole(fetch)
      <4>1. SUFFICES ASSUME k + 1 < fetch.count PROVE pos < Whole(fetch)
        BY <1>3, <2>1
      <4>2. /\ (k + 1) * PageSize + Size(fetch, fetch.index + (k + 1)) <= Whole(fetch)
            /\ Size(fetch, fetch.index + (k + 1)) \in 1 .. PageSize
        BY <1>1, <4>1, PageLemma
      <4> QED
        BY <1>3, <1>10, <1>7, <2>6, <2>7, <4>2
    <3>2. curIndex < fetch.index + fetch.count
      BY <1>3, <1>5, <2>2
    <3>3. /\ read \in Nat /\ read <= Whole(fetch)
          /\ read < Whole(fetch) \/ (fetchPc = "copy" /\ chunk.end = Whole(fetch))
      BY <1>1, <3>2 DEF AllCopied
    <3> QED
      BY <1>20, <2>2, <3>1, <3>3 DEF AllCopied
  <2>11. curPage' \in {NoPage} \cup PagesOf(fetch, curIndex')
    BY <2>1
  <2>13. FirstTry(fetch, http, chunk', curIndex', curPage', fetchPc')
    <3>1. curIndex' - fetch.index = k + 1
      BY <1>3, <2>1
    <3>2. pos = (k + 1) * PageSize \/ pos = Whole(fetch)
      BY <1>3, <2>2, <2>6, <2>7
    <3>3. Reached(fetch, curIndex', pos)
      BY <1>3, <3>1, <3>2 DEF Reached
    <3> QED
      BY <1>2, <1>20, <2>1, <3>3 DEF FirstTry
  <2> QED
    BY <1>1, <2>5, <2>9, <2>10, <2>11, <2>13 DEF FetchInv, Fetched
<1>26. CASE ~(rindex = k /\ to = size)
  <2>1. PICK new \in [0 .. size - 1 -> Int] : new = IF rindex = k THEN filled ELSE data
    BY <1>13, <1>17
  <2>2. /\ curPage' = [size |-> size, data |-> new]
        /\ handed' = handed /\ curIndex' = curIndex
    <3>1. curPage' = [page EXCEPT !.data = new]
      BY <1>13, <1>18, <1>21, <1>26, <2>1
    <3> QED
      BY <1>13, <1>18, <1>21, <1>26, <3>1
  <2>3. curPage' \in PagesOf(fetch, curIndex) /\ curPage' # NoPage /\ curPage'.data = new
    <3>1. curPage'.size # NoPage.size
      BY <1>10, <2>2 DEF NoPage
    <3> QED
      BY <1>9, <2>1, <2>2, <3>1 DEF PagesOf
  <2>4. InPlace(fetch, http.ok, curIndex, curPage', pos)
    <3>2. CASE rindex < k
      <4>1. past + PageSize <= done
        BY <1>3, <1>6, <1>7, <3>2, Multiples
      <4>2. pos <= done
        BY <1>3, <1>8, <1>15, <1>19, <4>1
      <4>3. pos < done + size /\ ~(pos > done)
        BY <1>10, <1>8, <1>19, <4>2
      <4> QED
        BY <1>5, <1>9, <1>7, <4>3 DEF InPlace
    <3>3. CASE rindex = k
      <4>1. past = done
        BY <1>6, <1>7, <3>3
      <4>2. k < fetch.count
        BY <1>24, <3>3
      <4>3. /\ done + size <= Whole(fetch)
            /\ k + 1 < fetch.count => size = PageSize
            /\ k + 1 = fetch.count => done + size = Whole(fetch)
        BY <1>1, <1>5, <1>9, <1>7, <4>2, PageLemma
      <4>4. pos = done + to
        BY <1>8, <1>15, <1>19, <4>1
      <4>5. to < size
        <5>1. to <= size
          <6>1. CASE k + 1 < fetch.count
            BY <1>15, <4>3, <6>1
          <6>2. CASE k + 1 = fetch.count
            BY <1>2, <1>3, <1>10, <1>8, <1>15, <1>20, <4>3, <4>4, <6>2
          <6> QED
            BY <1>3, <4>2, <6>1, <6>2
        <5> QED
          BY <1>10, <1>15, <1>26, <3>3, <5>1
      <4>6. ASSUME NEW o \in 0 .. to - 1 PROVE new[o] = Byte(http.ok, curIndex, o)
        <5>1. o \in 0 .. size - 1
          BY <1>10, <1>15, <4>5
        <5>2. CASE from <= o
          BY <1>5, <1>15, <1>16, <2>1, <3>3, <5>1, <5>2
        <5>3. CASE o < from
          <6>1. chunk.rbyte > done /\ chunk.rbyte - done = from
            BY <1>8, <4>1, <5>3
          <6>2. /\ curPage # NoPage
                /\ \A i \in 0 .. from - 1 : curPage.data[i] = Byte(http.ok, curIndex, i)
            BY <1>2, <1>5, <1>7, <6>1 DEF InPlace
          <6>3. page = curPage /\ new[o] = data[o]
            <7>1. page = curPage
              BY <1>11, <6>2
            <7>2. filled[o] = data[o]
              <8>1. ~(from <= o)
                BY <1>8, <5>1, <5>3
              <8> QED
                BY <1>16, <5>1, <8>1
            <7> QED
              BY <2>1, <3>3, <7>1, <7>2
          <6> QED
            BY <1>6, <1>13, <5>3, <6>2, <6>3
        <5> QED
          BY <1>6, <5>2, <5>3
      <4>7. pos - done = to
        BY <1>15, <1>8, <4>4
      <4>8. pos < done + size
        BY <1>10, <1>15, <1>8, <4>4, <4>5
      <4> QED
        BY <1>5, <1>9, <1>7, <2>3, <4>6, <4>7, <4>8 DEF InPlace
    <3> QED
      BY <1>5, <1>6, <1>23, <3>2, <3>3
  <2>5. Streamed(fetch, http, chunk', curIndex', curPage', fetchPc')
    BY <1>2, <1>20, <2>2, <2>4 DEF Streamed
  <2>6. AllCopied(fetch, read, chunk', curIndex', fetchPc')
    <3>1. /\ read \in Nat /\ read <= Whole(fetch)
          /\ curIndex < fetch.index + fetch.count =>
               read < Whole(fetch) \/ chunk.end = Whole(fetch)
      BY <1>1 DEF AllCopied
    <3>2. curIndex < fetch.index + fetch.count => pos < Whole(fetch)
      <4>1. SUFFICES ASSUME k < fetch.count PROVE pos < Whole(fetch)
        BY <1>3, <1>5
      <4>2. pos < done + size
        <5>1. curIndex < fetch.index + fetch.count
          BY <1>3, <1>5, <4>1
        <5>2. pos < (curIndex - fetch.index) * PageSize + Size(fetch, curIndex)
          BY <2>4, <4>1, <5>1 DEF InPlace
        <5> QED
          BY <1>5, <1>9, <1>7, <5>2
      <4>3. done + size <= Whole(fetch)
        BY <1>1, <1>5, <1>9, <1>7, <4>1, PageLemma
      <4> QED
        BY <1>3, <1>10, <1>7, <4>2, <4>3
    <3> QED
      BY <1>20, <2>2, <3>1, <3>2 DEF AllCopied
  <2>7. FirstTry(fetch, http, chunk', curIndex', curPage', fetchPc')
    <3>1. SUFFICES ASSUME http.attempt = 0
                   PROVE  /\ curIndex # fetch.index + fetch.count
                          /\ Reached(fetch, curIndex, pos)
      <4>1. fetchPc' = "body" => http.offset = pos
        BY <1>2, <1>20
      <4>2. fetchPc' # "unfinished" /\ fetchPc' \notin {"attempt", "request"}
        BY <1>20
      <4> QED
        BY <1>20, <2>2, <3>1, <4>1, <4>2 DEF FirstTry
    <3>2. k < fetch.count /\ chunk.rbyte >= done
      BY <1>22, <1>24, <3>1
    <3>3. pos >= (curIndex - fetch.index) * PageSize
      BY <1>2, <1>5, <1>7, <1>8, <1>15, <1>19, <3>2
    <3> QED
      BY <1>3, <1>5, <3>2, <3>3 DEF Reached
  <2> QED
    BY <1>1, <2>2, <2>3, <2>5, <2>6, <2>7 DEF FetchInv, Fetched
<1> QED
  BY <1>25, <1>26

(* Every step of a download, and the loss of a request, keeps the invariant. *)
LEMMA FetchStep ==
    ASSUME FetchOK, FetchInv, [FetchNext]_fetchVars
    PROVE  FetchInv'
<1>1. /\ Asked(fetch) /\ HandedOver(fetch, curIndex, handed)
      /\ curPage \in {NoPage} \cup PagesOf(fetch, curIndex)
      /\ Streamed(fetch, http, chunk, curIndex, curPage, fetchPc)
      /\ AllCopied(fetch, read, chunk, curIndex, fetchPc)
      /\ FirstTry(fetch, http, chunk, curIndex, curPage, fetchPc)
      /\ mFailureState \in BOOLEAN /\ fetch.canRetry \in BOOLEAN
  BY DEF FetchInv, Fetched, Asked
<1>2. /\ http \in [attempt : Nat, canRetry : BOOLEAN, offset : Nat, left : Nat, ok : BOOLEAN]
      /\ chunk \in [rbyte : Nat, end : Nat]
  BY <1>1 DEF Streamed
<1>3. SUFFICES ASSUME fetch' = fetch
               PROVE  /\ HandedOver(fetch, curIndex', handed')
                      /\ curPage' \in {NoPage} \cup PagesOf(fetch, curIndex')
                      /\ Streamed(fetch, http', chunk', curIndex', curPage', fetchPc')
                      /\ AllCopied(fetch, read', chunk', curIndex', fetchPc')
                      /\ FirstTry(fetch, http', chunk', curIndex', curPage', fetchPc')
                      /\ mFailureState' \in BOOLEAN
  <2>1. fetch' = fetch
    BY DEF FetchNext, fetchVars, StartAttempt, Lost, ResponseOk, ResponseBusy, ResponseError,
           Receive, CopyPiece, Complete
  <2> QED
    BY <1>1, <1>3, <2>1 DEF FetchInv, Fetched
(* an attempt begins before every page that is not handed over *)
<1>13. ASSUME NEW ok PROVE InPlace(fetch, ok, curIndex, curPage, 0)
  <2>1. PICK k \in Nat : k = curIndex - fetch.index /\ curIndex = fetch.index + k
    BY <1>1, AskedLemma DEF HandedOver
  <2>2. k * PageSize \in Nat
    BY <2>1, Multiples DEF FetchOK
  <2>3. curIndex < fetch.index + fetch.count => Size(fetch, curIndex) \in 1 .. PageSize
    BY <1>1, <2>1, AskedLemma, PageLemma
  <2> QED
    BY <2>1, <2>2, <2>3 DEF InPlace, FetchOK
<1>14. curIndex = fetch.index => Reached(fetch, curIndex, 0)
  <2>1. fetch.index - fetch.index = 0 /\ 0 * PageSize = 0
    BY <1>1, AskedLemma DEF FetchOK
  <2> QED
    BY <2>1 DEF Reached
<1>4. CASE StartAttempt
  <2>1. /\ fetchPc = "attempt" /\ fetchPc' = "request" /\ mFailureState' \in BOOLEAN
        /\ UNCHANGED <<read, chunk, curIndex, curPage, handed>>
    BY <1>1, <1>4 DEF StartAttempt
  <2>2. http' \in [attempt : Nat, canRetry : BOOLEAN, offset : Nat, left : Nat, ok : BOOLEAN]
    BY <1>1, <1>2, <1>4, <2>1 DEF StartAttempt
  <2>3. (http'.canRetry => fetch.canRetry) /\ http'.attempt = http.attempt
    BY <1>2, <1>4 DEF StartAttempt
  <2> QED
    BY <1>1, <2>1, <2>2, <2>3 DEF Streamed, AllCopied, FirstTry
<1>5. CASE Lost
  <2>1. /\ fetchPc \in {"request", "body"} /\ fetchPc' \in {"attempt", "Endpoint"}
        /\ UNCHANGED <<mFailureState, read, chunk, curIndex, curPage, handed>>
    BY <1>5 DEF Lost, AgainOrThrow
  <2>2. http' \in [attempt : Nat, canRetry : BOOLEAN, offset : Nat, left : Nat, ok : BOOLEAN]
    BY <1>2, <1>5 DEF Lost, AgainOrThrow
  <2>3. \/ fetchPc' = "attempt" /\ http'.attempt = http.attempt + 1
        \/ fetchPc' = "Endpoint" /\ http' = http
    BY <1>2, <1>5 DEF Lost, AgainOrThrow
  <2>4. FirstTry(fetch, http', chunk', curIndex', curPage', fetchPc')
    BY <1>1, <1>2, <2>1, <2>3 DEF FirstTry
  <2> QED
    BY <1>1, <2>1, <2>2, <2>4 DEF Streamed, AllCopied
<1>6. CASE ResponseOk
  <2>1. PICK length \in readSize - 1 .. readSize + 1 :
          http' = [http EXCEPT !.offset = 0, !.left = length, !.ok = TRUE]
    BY <1>6 DEF ResponseOk
  <2>2. /\ fetchPc = "request" /\ fetchPc' = "body" /\ mFailureState' = FALSE
        /\ UNCHANGED <<read, chunk, curIndex, curPage, handed>>
    BY <1>6 DEF ResponseOk
  <2>3. Whole(fetch) \in Nat \ {0} /\ readSize = Whole(fetch)
    BY <1>1, AskedLemma DEF readSize, Whole
  <2>4. length \in Nat
    BY <2>3
  <2>5. /\ http' \in [attempt : Nat, canRetry : BOOLEAN, offset : Nat, left : Nat, ok : BOOLEAN]
        /\ http'.offset = 0 /\ http'.ok /\ http'.attempt = http.attempt
    BY <1>2, <2>1, <2>4
  <2>6. InPlace(fetch, http'.ok, curIndex', curPage', http'.offset)
    BY <1>13, <2>2, <2>5
  <2>7. Streamed(fetch, http', chunk', curIndex', curPage', fetchPc')
    <3>1. http'.offset <= Whole(fetch) /\ fetchPc' = "body" /\ chunk' = chunk
      BY <2>2, <2>3, <2>5
    <3> QED
      BY <1>2, <2>5, <2>6, <3>1 DEF Streamed
  <2>8. AllCopied(fetch, read', chunk', curIndex', fetchPc')
    BY <1>1, <2>2 DEF AllCopied
  <2>9. FirstTry(fetch, http', chunk', curIndex', curPage', fetchPc')
    BY <1>1, <1>14, <2>2, <2>5 DEF FirstTry
  <2> QED
    BY <1>1, <2>2, <2>7, <2>8, <2>9
<1>7. CASE ResponseBusy
  <2>1. /\ fetchPc = "request"
        /\ UNCHANGED <<mFailureState, read, chunk, curIndex, curPage, handed>>
    BY <1>7 DEF ResponseBusy
  <2>2. CASE fetchPc' = "Endpoint" /\ http' = http
    BY <1>1, <2>1, <2>2 DEF Streamed, AllCopied, FirstTry
  <2>3. CASE fetchPc' = "body"
    <3>1. PICK length \in BodySizes :
            http' = [http EXCEPT !.offset = 0, !.left = length, !.ok = FALSE]
      BY <1>7, <2>3 DEF ResponseBusy
    <3>2. length \in Nat /\ Whole(fetch) \in Nat
      BY <1>1, AskedLemma DEF FetchOK
    <3>3. /\ http' \in [attempt : Nat, canRetry : BOOLEAN, offset : Nat, left : Nat, ok : BOOLEAN]
          /\ http'.offset = 0 /\ http'.left = length /\ ~http'.ok
          /\ http'.attempt = http.attempt
      BY <1>2, <3>1, <3>2
    <3>7. http'.offset + http'.left \in BodySizes
      BY <3>1, <3>2, <3>3
    <3>8. InPlace(fetch, http'.ok, curIndex', curPage', http'.offset)
      BY <1>13, <2>1, <3>3
    <3>5. fetch.canRetry
      BY <1>1, <1>7, <2>1, <2>3 DEF ResponseBusy, Streamed
    <3>4. Streamed(fetch, http', chunk', curIndex', curPage', fetchPc')
      BY <1>2, <2>1, <2>3, <3>2, <3>3, <3>5, <3>7, <3>8 DEF Streamed
    <3>6. FirstTry(fetch, http', chunk', curIndex', curPage', fetchPc')
      BY <1>1, <1>14, <2>1, <2>3, <3>3 DEF FirstTry
    <3> QED
      BY <1>1, <2>1, <2>3, <3>4, <3>6 DEF AllCopied
  <2> QED
    BY <1>7, <2>2, <2>3 DEF ResponseBusy
<1>8. CASE ResponseError
  <2>1. /\ fetchPc = "request" /\ fetchPc' = "Endpoint" /\ mFailureState' = FALSE
        /\ UNCHANGED <<http, read, chunk, curIndex, curPage, handed>>
    BY <1>8 DEF ResponseError
  <2> QED
    BY <1>1, <2>1 DEF Streamed, AllCopied, FirstTry
<1>9. CASE Receive
  <2>1. PICK length \in 1 .. Smaller(http.left, MaxPiece) :
          LET e == http.offset + length
          IN  IF e > readSize THEN fetchPc' = "ReadSize" /\ UNCHANGED <<http, read, chunk>>
              ELSE /\ read' = Larger(read, e)
                   /\ chunk' = [rbyte |-> http.offset, end |-> e]
                   /\ http' = [http EXCEPT !.offset = e, !.left = @ - length]
                   /\ fetchPc' = "copy"
    BY <1>9 DEF Receive
  <2>2. PICK end :
          /\ length \in 1 .. Smaller(http.left, MaxPiece) /\ end = http.offset + length
          /\ IF end > readSize THEN fetchPc' = "ReadSize" /\ UNCHANGED <<http, read, chunk>>
             ELSE /\ read' = Larger(read, end)
                  /\ chunk' = [rbyte |-> http.offset, end |-> end]
                  /\ http' = [http EXCEPT !.offset = end, !.left = @ - length]
                  /\ fetchPc' = "copy"
    BY <2>1
  <2>3. /\ fetchPc = "body" /\ UNCHANGED <<mFailureState, curIndex, curPage, handed>>
    BY <1>9 DEF Receive
  <2>4. /\ http.left \in Nat /\ http.offset \in Nat /\ http.ok \in BOOLEAN
        /\ readSize = Whole(fetch) /\ Whole(fetch) \in Nat /\ MaxPiece \in Nat
        /\ read \in Nat /\ read <= Whole(fetch)
    BY <1>1, <1>2, AskedLemma DEF readSize, Whole, AllCopied, FetchOK
  <2>5. /\ length \in Nat /\ 1 <= length /\ length <= http.left
        /\ end \in Nat /\ http.offset < end /\ http.left - length \in Nat
        /\ end + (http.left - length) = http.offset + http.left
    BY <2>2, <2>4 DEF Smaller
  <2>6. CASE end > readSize
    BY <1>1, <2>2, <2>3, <2>6 DEF Streamed, AllCopied, FirstTry
  <2>7. CASE ~(end > readSize)
    <3>1. /\ read' = Larger(read, end) /\ chunk' = [rbyte |-> http.offset, end |-> end]
          /\ http' = [http EXCEPT !.offset = end, !.left = http.left - length]
          /\ fetchPc' = "copy" /\ end <= Whole(fetch)
      BY <2>2, <2>4, <2>5, <2>7
    <3>2. PICK left \in Nat : left = http.left - length
      BY <2>5
    <3>3. /\ http' \in [attempt : Nat, canRetry : BOOLEAN, offset : Nat, left : Nat, ok : BOOLEAN]
          /\ http'.offset = end /\ http'.left = left /\ http'.ok = http.ok
          /\ http'.attempt = http.attempt
      BY <1>2, <2>5, <3>1, <3>2
    <3>4. /\ chunk' \in [rbyte : Nat, end : Nat]
          /\ chunk'.rbyte = http.offset /\ chunk'.end = end
      BY <2>4, <2>5, <3>1
    <3>5. /\ ~http.ok => http.offset + http.left \in BodySizes /\ fetch.canRetry
          /\ InPlace(fetch, http.ok, curIndex, curPage, http.offset)
      BY <1>1, <2>3 DEF Streamed
    <3>6. end + left = http.offset + http.left
      BY <2>5, <3>2
    <3>7. Streamed(fetch, http', chunk', curIndex', curPage', fetchPc')
      BY <2>3, <2>5, <3>1, <3>3, <3>4, <3>5, <3>6 DEF Streamed
    <3>9. AllCopied(fetch, read', chunk', curIndex', fetchPc')
      <4>1. curIndex < fetch.index + fetch.count => read < Whole(fetch)
        BY <1>1, <2>3 DEF AllCopied
      <4>2. read' \in Nat /\ read' <= Whole(fetch) /\ (read' = read \/ read' = end)
        BY <2>4, <2>5, <3>1 DEF Larger
      <4> QED
        BY <2>3, <2>4, <2>5, <3>1, <3>3, <3>4, <4>1, <4>2 DEF AllCopied
    <3>10. FirstTry(fetch, http', chunk', curIndex', curPage', fetchPc')
      BY <1>1, <2>3, <3>1, <3>3, <3>4 DEF FirstTry
    <3> QED
      BY <1>1, <2>3, <3>7, <3>9, <3>10
  <2> QED
    BY <2>6, <2>7
<1>10. CASE CopyPiece
  BY <1>3, <1>10, CopyLemma DEF FetchInv, Fetched
<1>11. CASE Complete
  <2>1. /\ fetchPc = "body" /\ UNCHANGED <<mFailureState, read, chunk, curIndex, curPage, handed>>
    BY <1>11 DEF Complete
  <2>2. http' \in [attempt : Nat, canRetry : BOOLEAN, offset : Nat, left : Nat, ok : BOOLEAN]
    BY <1>2, <1>11 DEF Complete, AgainOrThrow
  <2>3. fetchPc' \in {"attempt", "Endpoint", "ReadSize", "ok", "unfinished"}
    BY <1>11 DEF Complete, AgainOrThrow
  <2>4. fetchPc' \in {"ok", "unfinished"} => ~(read < Whole(fetch))
    BY <1>11 DEF Complete, AgainOrThrow, readSize, Whole
  <2>5. curIndex <= fetch.index + fetch.count /\ fetch.index + fetch.count \in Nat /\ curIndex \in Nat
    BY <1>1, AskedLemma DEF HandedOver
  <2>6. AllCopied(fetch, read', chunk', curIndex', fetchPc')
    BY <1>1, <2>1, <2>3, <2>4, <2>5 DEF AllCopied
  <2>7. \/ fetchPc' = "attempt" /\ http'.attempt = http.attempt + 1
        \/ fetchPc' # "attempt" /\ http' = http
    BY <1>2, <1>11 DEF Complete, AgainOrThrow
  <2>8. fetchPc' = "unfinished" => curPage # NoPage
    BY <1>11 DEF Complete, AgainOrThrow
  <2>9. FirstTry(fetch, http', chunk', curIndex', curPage', fetchPc')
    <3>1. http.attempt \in Nat
      BY <1>2
    <3>2. fetchPc' = "unfinished" => http.attempt > 0
      BY <1>1, <2>1, <2>6, <2>8, <3>1 DEF AllCopied, FirstTry
    <3> QED
      BY <1>1, <2>1, <2>3, <2>7, <3>1, <3>2 DEF FirstTry
  <2> QED
    BY <1>1, <2>1, <2>2, <2>3, <2>6, <2>9 DEF Streamed
<1>12. CASE UNCHANGED fetchVars
  BY <1>1, <1>12 DEF fetchVars
<1> QED
  BY <1>4, <1>5, <1>6, <1>7, <1>8, <1>9, <1>10, <1>11, <1>12 DEF FetchNext

(* A page that is handed over is whole and the file's, but for an error's body that is as
   long, a fetch that returns has handed over all, and a first attempt leaves no page
   unfinished. *)
THEOREM PagesAreWhole ==
    ASSUME FetchOK
    PROVE  FetchSpec => []PagesAreFile
<1>1. FetchInit => FetchInv
  <2>1. SUFFICES ASSUME FetchInit PROVE FetchInv
    OBVIOUS
  <2>2. Asked(fetch)
    BY <2>1 DEF FetchInit, Asked
  <2>3. /\ fetch.index \in Nat /\ fetch.count \in Nat \ {0}
        /\ Whole(fetch) \in Nat \ {0}
    BY <2>2, AskedLemma
  <2>4. HandedOver(fetch, curIndex, handed)
    <3>1. DOMAIN << >> = {}
      BY EmptyContains
    <3>2. curIndex = fetch.index /\ handed = << >>
      BY <2>1 DEF FetchInit
    <3> QED
      BY <2>3, <3>1, <3>2 DEF HandedOver
  <2>5. Streamed(fetch, http, chunk, curIndex, curPage, fetchPc)
    BY <2>1 DEF FetchInit, Streamed
  <2>6. AllCopied(fetch, read, chunk, curIndex, fetchPc)
    BY <2>1, <2>3 DEF FetchInit, AllCopied
  <2>7. FirstTry(fetch, http, chunk, curIndex, curPage, fetchPc)
    BY <2>1 DEF FetchInit, FirstTry
  <2> QED
    BY <2>1, <2>2, <2>4, <2>5, <2>6, <2>7 DEF FetchInit, FetchInv, Fetched
<1>2. FetchInv /\ [FetchNext]_fetchVars => FetchInv'
  BY FetchStep
<1>3. FetchInv => PagesAreFile
  <2>1. SUFFICES ASSUME FetchInv PROVE PagesAreFile
    OBVIOUS
  <2>2. /\ Asked(fetch) /\ HandedOver(fetch, curIndex, handed)
        /\ fetchPc = "ok" => curIndex = fetch.index + fetch.count
        /\ fetchPc = "unfinished" => http.attempt > 0
    BY <2>1 DEF FetchInv, Fetched, AllCopied, FirstTry
  <2>3. /\ fetch.index \in Nat /\ fetch.count \in Nat \ {0}
        /\ curIndex \in fetch.index .. fetch.index + fetch.count
    BY <2>2, AskedLemma DEF HandedOver
  <2>4. ASSUME NEW p \in DOMAIN handed
        PROVE  /\ p * PageSize < fetch.size
               /\ \/ handed[p] = FilePage(p)
                  \/ /\ handed[p] = BodyPage(p) /\ fetch.canRetry
                     /\ \E b \in BodySizes : b >= (p - fetch.index) * PageSize + SizeOf(p)
    <3>1. p \in fetch.index .. curIndex - 1 /\ Filled(fetch, p, handed[p])
      BY <2>2, <2>4 DEF HandedOver
    <3>2. PICK k \in Nat : p = fetch.index + k /\ k < fetch.count
      <4>1. p - fetch.index \in Nat /\ p - fetch.index < fetch.count
              /\ p = fetch.index + (p - fetch.index)
        BY <2>3, <3>1
      <4> QED
        BY <4>1
    <3>3. p * PageSize < fetch.size
      BY <2>2, <3>2, PageLemma
    <3>4. SizeOf(p) = Size(fetch, p)
      BY DEF SizeOf, Size
    <3>5. PICK ok \in BOOLEAN :
            /\ handed[p] = [o \in 0 .. Size(fetch, p) - 1 |-> Byte(ok, p, o)]
            /\ ~ok => /\ fetch.canRetry
                     /\ \E b \in BodySizes : b >= (p - fetch.index) * PageSize + Size(fetch, p)
      BY <3>1 DEF Filled
    <3>6. CASE ok
      BY <3>3, <3>4, <3>5, <3>6 DEF Byte, FilePage
    <3>7. CASE ~ok
      BY <3>3, <3>4, <3>5, <3>7 DEF Byte, BodyPage
    <3> QED
      BY <3>6, <3>7
  <2>5. fetchPc = "ok" =>
          DOMAIN handed = fetch.index .. fetch.index + fetch.count - 1
    <3>1. DOMAIN handed = fetch.index .. curIndex - 1
      BY <2>2 DEF HandedOver
    <3>2. fetchPc = "ok" =>
            curIndex - 1 = fetch.index + fetch.count - 1
      BY <2>2, <2>3
    <3> QED
      BY <3>1, <3>2
  <2> QED
    BY <2>2, <2>4, <2>5 DEF PagesAreFile
<1> QED
  BY <1>1, <1>2, <1>3, PTL DEF FetchSpec
=============================================================================
