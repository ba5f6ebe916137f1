------------------------- MODULE SharedMutexProofs --------------------------
(***************************************************************************)
(* Proofs about SharedMutex for every finite set of threads: the types, the *)
(* exclusion of writers with truthful counters, that no wake-up is lost, and *)
(* that the mutex implements the abstract lock FairRWLock.                   *)
(***************************************************************************)
EXTENDS SharedMutex, SequenceTheorems, FiniteSetTheorems, TLAPS

(* The strengthening the three need together: the queue holds exactly the
   waiting threads, each of them once. *)
Distinct(q) == \A i, j \in 1..Len(q) : q[i] = q[j] => i = j
Elements(q) == {q[i] : i \in 1..Len(q)}
WaitingThreads == {t \in Threads : pc[t] \in Waiting}
QueueOK == Distinct(mQueue) /\ Elements(mQueue) = WaitingThreads

IInv == TypeOK /\ MutualExclusion /\ QueueOK /\ NoLostWakeup

-----------------------------------------------------------------------------
(* What the three ways the queue changes do to its elements and its front. *)

(* a ticket pushed at the back *)
LEMMA AppendLemma ==
    ASSUME NEW q \in Seq(Threads), NEW t \in Threads, Distinct(q), t \notin Elements(q)
    PROVE  /\ Append(q, t) \in Seq(Threads) /\ Append(q, t) # <<>>
           /\ Distinct(Append(q, t))
           /\ Elements(Append(q, t)) = Elements(q) \cup {t}
           /\ q = <<>> => Head(Append(q, t)) = t
           /\ q # <<>> => Head(Append(q, t)) = Head(q)
<1> DEFINE a == Append(q, t)
<1>1. a \in Seq(Threads) /\ Len(a) = Len(q) + 1 /\ Len(q) \in Nat
  OBVIOUS
<1>2. \A i \in 1..Len(a) : a[i] = IF i = Len(q) + 1 THEN t ELSE q[i]
  BY <1>1
<1>3. Distinct(a)
  BY <1>1, <1>2 DEF Distinct, Elements
<1>4. Elements(a) = Elements(q) \cup {t}
  BY <1>1, <1>2 DEF Elements
<1>5. Head(a) = a[1] /\ a # <<>>
  BY <1>1
<1>6. q # <<>> => Len(q) > 0 /\ Head(q) = q[1]
  OBVIOUS
<1>7. q = <<>> => Len(q) = 0
  OBVIOUS
<1> QED
  BY <1>1, <1>2, <1>3, <1>4, <1>5, <1>6, <1>7

(* a ticket pushed at the front *)
LEMMA PrependLemma ==
    ASSUME NEW q \in Seq(Threads), NEW t \in Threads, Distinct(q), t \notin Elements(q)
    PROVE  /\ <<t>> \o q \in Seq(Threads) /\ <<t>> \o q # <<>>
           /\ Distinct(<<t>> \o q)
           /\ Elements(<<t>> \o q) = Elements(q) \cup {t}
           /\ Head(<<t>> \o q) = t
<1> DEFINE a == <<t>> \o q
<1>1. a \in Seq(Threads) /\ Len(a) = Len(q) + 1 /\ Len(q) \in Nat
  OBVIOUS
<1>2. \A i \in 1..Len(a) : a[i] = IF i = 1 THEN t ELSE q[i - 1]
  BY <1>1
<1> HIDE DEF a
<1>3. Distinct(a)
  <2>1. SUFFICES ASSUME NEW i \in 1..Len(a), NEW j \in 1..Len(a), a[i] = a[j]
                 PROVE  i = j
    BY DEF Distinct
  <2>2. \A k \in 1..Len(a) : k # 1 => k - 1 \in 1..Len(q) /\ a[k] = q[k - 1] /\ a[k] # t
    BY <1>1, <1>2 DEF Elements
  <2>3. a[1] = t
    BY <1>1, <1>2
  <2>4. i # 1 /\ j # 1 => i - 1 = j - 1
    BY <2>1, <2>2 DEF Distinct
  <2> QED
    BY <2>1, <2>2, <2>3, <2>4, <1>1
<1>4. ASSUME NEW x \in Elements(q) PROVE x \in Elements(a)
  <2>1. PICK i \in 1..Len(q) : x = q[i]
    BY DEF Elements
  <2>2. i + 1 \in 1..Len(a) /\ a[i + 1] = q[i]
    BY <1>1, <1>2
  <2> QED
    BY <2>1, <2>2 DEF Elements
<1>5. t \in Elements(a)
  BY <1>1, <1>2 DEF Elements
<1>6. Elements(a) \subseteq Elements(q) \cup {t}
  BY <1>1, <1>2 DEF Elements
<1>7. Head(a) = t /\ a # <<>>
  BY <1>1, <1>2
<1> QED
  BY <1>1, <1>3, <1>4, <1>5, <1>6, <1>7 DEF a

(* the ticket at the front popped *)
LEMMA TailLemma ==
    ASSUME NEW q \in Seq(Threads), q # <<>>, Distinct(q)
    PROVE  /\ Tail(q) \in Seq(Threads)
           /\ Distinct(Tail(q))
           /\ Head(q) \in Elements(q)
           /\ Elements(Tail(q)) = Elements(q) \ {Head(q)}
           /\ Tail(q) # <<>> => Head(Tail(q)) \in Elements(Tail(q))
<1> DEFINE r == Tail(q)
<1>1. /\ r \in Seq(Threads) /\ Len(q) \in Nat \ {0} /\ Len(r) = Len(q) - 1
      /\ \A i \in 1..Len(r) : r[i] = q[i + 1]
      /\ Head(q) = q[1]
  BY HeadTailProperties
<1> HIDE DEF r
<1>2. Distinct(r)
  BY <1>1 DEF Distinct
<1>3. Head(q) \in Elements(q)
  BY <1>1 DEF Elements
<1>4. Elements(r) \subseteq Elements(q) \ {Head(q)}
  BY <1>1 DEF Elements, Distinct
<1>5. ASSUME NEW x \in Elements(q) \ {Head(q)} PROVE x \in Elements(r)
  <2>1. PICK i \in 1..Len(q) : x = q[i]
    BY DEF Elements
  <2>2. i - 1 \in 1..Len(r) /\ r[i - 1] = q[i]
    BY <1>1, <2>1
  <2> QED
    BY <2>1, <2>2 DEF Elements
<1>6. r # <<>> => Head(r) \in Elements(r)
  BY <1>1 DEF Elements
<1> QED
  BY <1>1, <1>2, <1>3, <1>4, <1>5, <1>6 DEF r

(* The sets of holders are finite, so that their cardinality counts them. *)
LEMMA HoldersFinite == IsFiniteSet(Readers) /\ Cardinality(Readers) \in Nat
BY ThreadsAssumption, FS_Subset, FS_CardinalityType DEF Readers, Holding

LEMMA ReadersCounted == MutualExclusion /\ mReaders > 0 => Readers # {}
<1>1. Readers = {} => Cardinality(Readers) = 0
  BY FS_EmptySet
<1> QED
  BY <1>1 DEF MutualExclusion

(* A step that changes only pc changes no set of holders it does not touch;
   waking sleepers never does. *)
LEMMA WakeLemma ==
    ASSUME NEW p \in [Threads -> {"idle", "held"} \cup Waiting], NEW q
    PROVE  /\ notify_all(p, q) \in [Threads -> {"idle", "held"} \cup Waiting]
           /\ \A t \in Threads : notify_all(p, q)[t] = "held" <=> p[t] = "held"
           /\ \A t \in Threads : notify_all(p, q)[t] \in Waiting <=> p[t] \in Waiting
           /\ q # <<>> => \A t \in Threads : notify_all(p, q)[t] # "asleep"
BY DEF notify_all, Waiting

-----------------------------------------------------------------------------
(* One test of the wait condition, by a thread that is in the queue it looks
   at: lock(), both forms of lock_shared() and a wake-up all end in it. *)
LEMMA TakeOrSleepLemma ==
    ASSUME IInv, NEW t \in Threads, NEW k \in {"W", "R", "RP"}, NEW q \in Seq(Threads),
           pc[t] # "held",
           q # <<>>, Distinct(q), Elements(q) = WaitingThreads \cup {t},
           Head(q) # t /\ Free(kind[Head(q)]) => pc[Head(q)] # "asleep",
           TakeOrSleep(t, k, q), kind' = [kind EXCEPT ![t] = k]
    PROVE  IInv'
<1> USE DEF IInv, TypeOK, Waiting
<1>k. kind' \in [Threads -> {"W", "R", "RP"}] /\ kind'[t] = k
      /\ \A u \in Threads : u # t => kind'[u] = kind[u]
  OBVIOUS
<1>1. CASE Head(q) = t /\ Free(k)
  <2> DEFINE p == [pc EXCEPT ![t] = "held"]
  <2>1. Take(t, k, q)
    BY <1>1 DEF TakeOrSleep
  <2>2. /\ Tail(q) \in Seq(Threads) /\ Distinct(Tail(q))
        /\ Elements(Tail(q)) = (WaitingThreads \cup {t}) \ {t}
        /\ Tail(q) # <<>> => Head(Tail(q)) \in Elements(Tail(q))
    BY <1>1, TailLemma
  <2>3. /\ pc' \in [Threads -> {"idle", "held"} \cup Waiting]
        /\ \A u \in Threads : pc'[u] = "held" <=> p[u] = "held"
        /\ \A u \in Threads : pc'[u] \in Waiting <=> p[u] \in Waiting
        /\ k # "W" /\ Tail(q) # <<>> => \A u \in Threads : pc'[u] # "asleep"
    <3>1. p \in [Threads -> {"idle", "held"} \cup Waiting]
      OBVIOUS
    <3>2. pc' = IF k = "W" THEN p ELSE notify_all(p, Tail(q))
      BY <2>1 DEF Take
    <3> HIDE DEF p, Waiting
    <3>3. CASE k = "W"
      BY <3>1, <3>2, <3>3
    <3>4. CASE k # "W"
      <4> DEFINE w == notify_all(p, Tail(q))
      <4>1. /\ w \in [Threads -> {"idle", "held"} \cup Waiting]
            /\ \A u \in Threads : w[u] = "held" <=> p[u] = "held"
            /\ \A u \in Threads : w[u] \in Waiting <=> p[u] \in Waiting
            /\ Tail(q) # <<>> => \A u \in Threads : w[u] # "asleep"
        BY <3>1, WakeLemma
      <4>2. pc' = w
        BY <3>2, <3>4
      <4> HIDE DEF w
      <4> QED
        BY <4>1, <4>2
    <3> QED
      BY <3>3, <3>4
  <2>4. QueueOK'
    BY <2>1, <2>2, <2>3 DEF QueueOK, Take, WaitingThreads, Elements, Distinct
  <2>5. CASE k = "W"
    <3>1. Readers = {} /\ Writers = {} /\ mReaders = 0
      BY <1>1, <2>5, FS_EmptySet DEF MutualExclusion, Free
    <3>2. Readers' = {} /\ Writers' = {t}
      BY <2>3, <2>5, <3>1, <1>k DEF Readers, Writers, Holding
    <3>3. mLocked' = TRUE /\ mReaders' = 0
      BY <2>1, <2>5, <3>1 DEF Take
    <3>4. MutualExclusion'
      BY <3>2, <3>3, FS_EmptySet DEF MutualExclusion
    <3>5. NoLostWakeup'
      <4>1. mQueue' # <<>> => Head(mQueue') \in Threads
        BY <2>1, <2>2 DEF Take, WaitingThreads, Elements
      <4> QED
        BY <4>1, <3>3, <1>k DEF NoLostWakeup, Free
    <3> QED
      BY <2>1, <2>2, <2>3, <2>4, <3>3, <3>4, <3>5, <1>k DEF Take
  <2>6. CASE k # "W"
    <3>1. Writers = {}
      BY <1>1, <2>6, ReadersCounted DEF MutualExclusion, Free
    <3>2. Readers' = Readers \cup {t} /\ Writers' = {} /\ t \notin Readers
      BY <2>3, <2>6, <3>1, <1>k DEF Readers, Writers, Holding
    <3>3. mLocked' = TRUE /\ mReaders' = mReaders + 1 /\ mQueue' = Tail(q)
      BY <2>1, <2>6 DEF Take
    <3>4. MutualExclusion'
      BY <3>2, <3>3, HoldersFinite, FS_AddElement DEF MutualExclusion
    <3>5. NoLostWakeup'
      BY <2>2, <2>3, <2>6, <3>3 DEF NoLostWakeup, WaitingThreads, Elements
    <3> QED
      BY <2>2, <2>3, <2>4, <3>3, <3>4, <3>5, <1>k
  <2> QED
    BY <2>5, <2>6
<1>2. CASE ~(Head(q) = t /\ Free(k))
  <2>1. Sleep(t, q)
    BY <1>2 DEF TakeOrSleep
  <2>2. Readers' = Readers /\ Writers' = Writers
    BY <2>1, <1>k DEF Sleep, Readers, Writers, Holding
  <2>3. MutualExclusion'
    BY <2>1, <2>2 DEF Sleep, MutualExclusion
  <2>4. QueueOK'
    BY <2>1 DEF Sleep, QueueOK, WaitingThreads, Elements, Distinct
  <2>5. NoLostWakeup'
    <3>1. mQueue' = q /\ mReaders' = mReaders /\ mLocked' = mLocked
          /\ pc' = [pc EXCEPT ![t] = "asleep"]
      BY <2>1 DEF Sleep
    <3>2. Head(q) \in Threads
      OBVIOUS
    <3>3. CASE Head(q) = t
      BY <1>2, <1>k, <3>1, <3>3 DEF NoLostWakeup, Free
    <3>4. CASE Head(q) # t
      BY <1>k, <3>1, <3>2, <3>4 DEF NoLostWakeup, Free
    <3> QED
      BY <3>3, <3>4
  <2> QED
    BY <2>1, <2>3, <2>4, <2>5, <1>k DEF Sleep
<1> QED
  BY <1>1, <1>2

-----------------------------------------------------------------------------
(* A holder that gives the lock back wakes whoever waits. *)
LEMMA ReleaseLemma ==
    ASSUME IInv, NEW t \in Threads, unlock(t) \/ unlock_shared(t)
    PROVE  IInv'
<1> USE DEF IInv, TypeOK, Waiting
<1> DEFINE p == [pc EXCEPT ![t] = "idle"]
<1>1. pc[t] = "held" /\ pc' = notify_all(p, mQueue) /\ mQueue' = mQueue /\ kind' = kind
  BY DEF unlock, unlock_shared
<1>2. /\ pc' \in [Threads -> {"idle", "held"} \cup Waiting]
      /\ \A u \in Threads : pc'[u] = "held" <=> p[u] = "held"
      /\ \A u \in Threads : pc'[u] \in Waiting <=> p[u] \in Waiting
      /\ mQueue # <<>> => \A u \in Threads : pc'[u] # "asleep"
  <2>1. p \in [Threads -> {"idle", "held"} \cup Waiting]
    OBVIOUS
  <2> HIDE DEF p, Waiting
  <2> QED
    BY <1>1, <2>1, WakeLemma
<1>3. QueueOK'
  <2>1. WaitingThreads' = WaitingThreads
    BY <1>1, <1>2 DEF WaitingThreads
  <2> QED
    BY <1>1, <2>1 DEF QueueOK, Elements, Distinct
<1>4. NoLostWakeup'
  <2>1. mQueue # <<>> => Head(mQueue) \in Threads
    OBVIOUS
  <2> QED
    BY <1>1, <1>2, <2>1 DEF NoLostWakeup
<1>5. CASE unlock(t)
  <2>1. Readers = {} /\ Writers = {t} /\ mReaders' = mReaders /\ mLocked' = FALSE
    BY <1>5 DEF unlock, MutualExclusion, Readers, Writers, Holding
  <2>2. Readers' = {} /\ Writers' = {}
    BY <1>1, <1>2, <2>1 DEF Readers, Writers, Holding
  <2>3. MutualExclusion'
    BY <2>1, <2>2 DEF MutualExclusion
  <2> QED
    BY <1>1, <1>2, <1>3, <1>4, <2>1, <2>3
<1>6. CASE unlock_shared(t)
  <2>1. t \in Readers /\ Writers = {} /\ mReaders = Cardinality(Readers) /\ mLocked = TRUE
    BY <1>6 DEF unlock_shared, MutualExclusion, Readers, Writers, Holding
  <2>2. Readers' = Readers \ {t} /\ Writers' = {}
    BY <1>1, <1>2, <2>1 DEF Readers, Writers, Holding
  <2>3. Cardinality(Readers') = mReaders - 1 /\ IsFiniteSet(Readers')
        /\ Cardinality(Readers') \in Nat
    BY <2>1, <2>2, HoldersFinite, FS_RemoveElement, FS_CardinalityType
  <2>4. mReaders' = Cardinality(Readers') /\ (mReaders' = 0 <=> Readers' = {})
    BY <1>6, <2>3, FS_EmptySet DEF unlock_shared
  <2>5. mLocked' = IF mReaders' = 0 THEN FALSE ELSE TRUE
    BY <1>6, <2>1 DEF unlock_shared
  <2>6. MutualExclusion'
    BY <2>2, <2>4, <2>5 DEF MutualExclusion
  <2> QED
    BY <1>1, <1>2, <1>3, <1>4, <2>3, <2>4, <2>5, <2>6
<1> QED
  BY <1>5, <1>6

LEMMA InitIInv == Init => IInv
<1> SUFFICES ASSUME Init PROVE IInv
  OBVIOUS
<1>1. TypeOK
  <2>1. <<>> \in Seq(Threads)
    BY EmptySeq
  <2> QED
    BY <2>1 DEF Init, TypeOK, Waiting
<1>2. Readers = {} /\ Writers = {}
  BY DEF Init, Readers, Writers, Holding
<1>3. MutualExclusion
  BY <1>2, FS_EmptySet DEF Init, MutualExclusion
<1>4. QueueOK
  BY DEF Init, QueueOK, Distinct, Elements, WaitingThreads, Waiting
<1>5. NoLostWakeup
  BY DEF Init, NoLostWakeup
<1> QED
  BY <1>1, <1>3, <1>4, <1>5 DEF IInv

LEMMA NextIInv == IInv /\ [Next]_vars => IInv'
<1> SUFFICES ASSUME IInv, [Next]_vars PROVE IInv'
  OBVIOUS
<1> USE DEF IInv, TypeOK, Waiting
<1>1. CASE UNCHANGED vars
  BY <1>1 DEF vars, MutualExclusion, Readers, Writers, Holding, QueueOK, Distinct,
     Elements, WaitingThreads, NoLostWakeup, Free
<1>2. ASSUME NEW t \in Threads, pc[t] = "idle"
      PROVE  t \notin Elements(mQueue) /\ Distinct(mQueue)
             /\ Elements(mQueue) = WaitingThreads
  BY <1>2 DEF QueueOK, WaitingThreads
<1>3. ASSUME NEW t \in Threads, NEW k \in {"W", "R"}, pc[t] = "idle",
             kind' = [kind EXCEPT ![t] = k], TakeOrSleep(t, k, Append(mQueue, t))
      PROVE  IInv'
  <2> DEFINE q == Append(mQueue, t)
  <2>1. /\ q \in Seq(Threads) /\ q # <<>> /\ Distinct(q)
        /\ Elements(q) = WaitingThreads \cup {t}
        /\ mQueue = <<>> => Head(q) = t
        /\ mQueue # <<>> => Head(q) = Head(mQueue)
    BY <1>2, <1>3, AppendLemma
  <2>2. Head(q) # t /\ Free(kind[Head(q)]) => pc[Head(q)] # "asleep"
    BY <2>1 DEF NoLostWakeup
  <2> HIDE DEF q
  <2>3. TakeOrSleep(t, k, q)
    BY <1>3 DEF q
  <2> QED
    BY <1>3, <2>1, <2>2, <2>3, TakeOrSleepLemma
<1>4. ASSUME NEW t \in Threads, try_lock(t) PROVE IInv'
  <2>1. Readers = {} /\ Writers = {} /\ mReaders = 0
    BY <1>4, FS_EmptySet DEF try_lock, MutualExclusion
  <2>2. Readers' = {} /\ Writers' = {t}
    BY <1>4, <2>1 DEF try_lock, Readers, Writers, Holding
  <2>3. MutualExclusion'
    BY <1>4, <2>1, <2>2, FS_EmptySet DEF try_lock, MutualExclusion
  <2>4. QueueOK' /\ NoLostWakeup'
    BY <1>4, <1>2 DEF try_lock, QueueOK, Distinct, Elements, WaitingThreads, NoLostWakeup
  <2> QED
    BY <1>4, <2>3, <2>4 DEF try_lock
<1>5. ASSUME NEW t \in Threads, lock(t) PROVE IInv'
  BY <1>5, <1>3 DEF lock
<1>6. ASSUME NEW t \in Threads, lock_shared(t) PROVE IInv'
  BY <1>6, <1>3 DEF lock_shared
<1>7. ASSUME NEW t \in Threads, lock_shared_priority(t) PROVE IInv'
  <2>1. CASE mReaders > 0
    <3>1. t \notin Readers /\ Writers = {} /\ mReaders = Cardinality(Readers) /\ mLocked = TRUE
      <4>1. Readers # {}
        BY <2>1, ReadersCounted
      <4> QED
        BY <1>7, <4>1 DEF lock_shared_priority, MutualExclusion, Readers, Holding
    <3>2. Readers' = Readers \cup {t} /\ Writers' = {}
      BY <1>7, <2>1, <3>1 DEF lock_shared_priority, Readers, Writers, Holding
    <3>3. MutualExclusion'
      <4>1. Cardinality(Readers') = mReaders' /\ mLocked' = TRUE
        <5>1. Cardinality(Readers \cup {t}) = Cardinality(Readers) + 1
          BY <3>1, HoldersFinite, FS_AddElement
        <5> QED
          BY <1>7, <2>1, <3>1, <3>2, <5>1 DEF lock_shared_priority
      <4> QED
        BY <3>2, <4>1 DEF MutualExclusion
    <3>4. QueueOK'
      <4>1. mQueue' = mQueue /\ pc[t] = "idle" /\ pc' = [pc EXCEPT ![t] = "held"]
        BY <1>7, <2>1 DEF lock_shared_priority
      <4>2. WaitingThreads' = WaitingThreads
        BY <4>1 DEF WaitingThreads
      <4> QED
        BY <4>1, <4>2 DEF QueueOK, Distinct, Elements
    <3>5. NoLostWakeup'
      <4>1. mQueue # <<>> => Head(mQueue) \in Elements(mQueue)
        BY TailLemma DEF QueueOK
      <4>2. mQueue # <<>> => Head(mQueue) # t /\ Head(mQueue) \in Threads
        BY <4>1, <1>7, <1>2 DEF lock_shared_priority
      <4>3. mLocked = TRUE
        BY <3>1
      <4> QED
        BY <1>7, <2>1, <4>2, <4>3 DEF lock_shared_priority, NoLostWakeup, Free
    <3> QED
      BY <1>7, <2>1, <3>3, <3>4, <3>5 DEF lock_shared_priority
  <2>2. CASE ~(mReaders > 0)
    <3> DEFINE q == <<t>> \o mQueue
    <3>1. /\ q \in Seq(Threads) /\ q # <<>> /\ Distinct(q)
          /\ Elements(q) = WaitingThreads \cup {t}
          /\ Head(q) = t
      BY <1>2, <1>7, PrependLemma DEF lock_shared_priority
    <3> HIDE DEF q
    <3>2. TakeOrSleep(t, "RP", q) /\ kind' = [kind EXCEPT ![t] = "RP"] /\ pc[t] = "idle"
      BY <1>7, <2>2 DEF lock_shared_priority, q
    <3> QED
      BY <3>1, <3>2, TakeOrSleepLemma
  <2> QED
    BY <2>1, <2>2
<1>8. ASSUME NEW t \in Threads, Resume(t) PROVE IInv'
  <2>1. t \in WaitingThreads /\ Distinct(mQueue) /\ Elements(mQueue) = WaitingThreads
    BY <1>8 DEF Resume, QueueOK, WaitingThreads
  <2>2. mQueue # <<>>
    BY <2>1 DEF Elements
  <2>3. kind' = [kind EXCEPT ![t] = kind[t]] /\ TakeOrSleep(t, kind[t], mQueue) /\ pc[t] = "awake"
    BY <1>8 DEF Resume
  <2>4. Head(mQueue) # t /\ Free(kind[Head(mQueue)]) => pc[Head(mQueue)] # "asleep"
    BY <2>2 DEF NoLostWakeup
  <2>5. WaitingThreads \cup {t} = WaitingThreads
    BY <2>1
  <2>6. kind[t] \in {"W", "R", "RP"}
    OBVIOUS
  <2> QED
    BY <2>1, <2>2, <2>3, <2>4, <2>5, <2>6, TakeOrSleepLemma
<1>9. ASSUME NEW t \in Threads, SpuriousWake(t) PROVE IInv'
  <2>1. Readers' = Readers /\ Writers' = Writers
    BY <1>9 DEF SpuriousWake, Readers, Writers, Holding
  <2>2. MutualExclusion'
    BY <1>9, <2>1 DEF SpuriousWake, MutualExclusion
  <2>3. QueueOK'
    BY <1>9 DEF SpuriousWake, QueueOK, Distinct, Elements, WaitingThreads
  <2>4. NoLostWakeup'
    BY <1>9 DEF SpuriousWake, NoLostWakeup, Free
  <2> QED
    BY <1>9, <2>2, <2>3, <2>4 DEF SpuriousWake
<1> QED
  BY <1>1, <1>4, <1>5, <1>6, <1>7, <1>8, <1>9, ReleaseLemma DEF Next

-----------------------------------------------------------------------------
(* The inductive invariant holds for every finite set of threads. *)
THEOREM Invariance == Spec => []IInv
BY InitIInv, NextIInv, PTL DEF Spec

(* Every variable keeps its type; in particular mReaders, a size_t, is never
   decremented below zero (SharedMutex.hpp:83). *)
THEOREM TypeCorrectness == Spec => []TypeOK
<1>1. IInv => TypeOK
  BY DEF IInv
<1> QED
  BY <1>1, Invariance, PTL

(* A writer is alone and the counters tell who holds the lock. *)
THEOREM Exclusion == Spec => []MutualExclusion
<1>1. IInv => MutualExclusion
  BY DEF IInv
<1> QED
  BY <1>1, Invariance, PTL

(* The waiter at the front of the queue never sleeps while the lock is free
   for it. *)
THEOREM WakeupsNotLost == Spec => []NoLostWakeup
<1>1. IInv => NoLostWakeup
  BY DEF IInv
<1> QED
  BY <1>1, Invariance, PTL

-----------------------------------------------------------------------------
(* The queue as the abstract lock sees it: the priority readers are its first  *)
(* n places, whoever is behind them is the line.                               *)
Kinds == {"W", "R", "RP"}
Asked == Threads \X Kinds
Prefix(q, k, n) == n \in 0 .. Len(q) /\ HurriedPlaces(q, k) = 1 .. n
PriorityFirst == \E n \in Nat : Prefix(mQueue, kind, n)

LEMMA LineShape ==
    ASSUME NEW q \in Seq(Threads), NEW k \in [Threads -> Kinds], NEW n \in Nat, Prefix(q, k, n)
    PROVE  /\ FairLine(q, k) = [i \in 1 .. Len(q) - n |-> <<q[i + n], k[q[i + n]]>>]
           /\ FairLine(q, k) \in Seq(Asked)
           /\ Len(FairLine(q, k)) = Len(q) - n
<1>1. Cardinality(HurriedPlaces(q, k)) = n
  BY FS_Interval DEF Prefix
<1>2. FairLine(q, k) = [i \in 1 .. Len(q) - n |-> <<q[i + n], k[q[i + n]]>>]
  BY <1>1 DEF FairLine
<1>3. Len(q) - n \in Nat /\ \A i \in 1 .. Len(q) - n : <<q[i + n], k[q[i + n]]>> \in Asked
  BY DEF Prefix, Asked
<1> DEFINE e(i) == <<q[i + n], k[q[i + n]]>>
<1>4. [i \in 1 .. Len(q) - n |-> e(i)] \in Seq(Asked)
  BY <1>3, IsASeq
<1>5. Len([i \in 1 .. Len(q) - n |-> e(i)]) = Len(q) - n
  BY <1>3, <1>4, LenProperties
<1> QED
  BY <1>2, <1>4, <1>5

(* what a thread that is not in the queue asks for does not matter to it *)
LEMMA OthersKind ==
    ASSUME NEW q \in Seq(Threads), NEW k \in [Threads -> Kinds], NEW t \in Threads,
           NEW x \in Kinds, t \notin Elements(q)
    PROVE  /\ HurriedPlaces(q, [k EXCEPT ![t] = x]) = HurriedPlaces(q, k)
           /\ FairLine(q, [k EXCEPT ![t] = x]) = FairLine(q, k)
<1> DEFINE l == [k EXCEPT ![t] = x]
<1>1. \A i \in 1 .. Len(q) : q[i] \in Threads /\ q[i] # t /\ l[q[i]] = k[q[i]]
  BY DEF Elements
<1> HIDE DEF l
<1>2. HurriedPlaces(q, l) = HurriedPlaces(q, k)
  BY <1>1 DEF HurriedPlaces
<1>3. IsFiniteSet(HurriedPlaces(q, k)) /\ Cardinality(HurriedPlaces(q, k)) \in Nat
  <2>1. IsFiniteSet(1 .. Len(q))
    BY FS_Interval
  <2>2. HurriedPlaces(q, k) \in SUBSET (1 .. Len(q))
    BY DEF HurriedPlaces
  <2>3. IsFiniteSet(HurriedPlaces(q, k))
    BY <2>1, <2>2, FS_Subset
  <2> QED
    BY <2>3, FS_CardinalityType
<1>4. FairLine(q, l) = FairLine(q, k)
  BY <1>1, <1>2, <1>3 DEF FairLine
<1> QED
  BY <1>2, <1>4 DEF l

(* a fair request joins the line at its end *)
LEMMA AppendFair ==
    ASSUME NEW q \in Seq(Threads), NEW k \in [Threads -> Kinds], NEW n \in Nat, Prefix(q, k, n),
           NEW t \in Threads, k[t] # "RP"
    PROVE  /\ Prefix(Append(q, t), k, n)
           /\ FairLine(Append(q, t), k) = Append(FairLine(q, k), <<t, k[t]>>)
<1> DEFINE a == Append(q, t)
           e == <<t, k[t]>>
<1>1. a \in Seq(Threads) /\ Len(a) = Len(q) + 1 /\ Len(q) \in Nat
      /\ \A i \in 1 .. Len(a) : a[i] = IF i = Len(q) + 1 THEN t ELSE q[i]
  OBVIOUS
<1>0. e \in Asked
  BY DEF Asked
<1> HIDE DEF a, e
<1>2. Prefix(a, k, n)
  BY <1>1 DEF Prefix, HurriedPlaces
<1>3. /\ FairLine(a, k) = [i \in 1 .. Len(a) - n |-> <<a[i + n], k[a[i + n]]>>]
      /\ FairLine(a, k) \in Seq(Asked)
      /\ Len(FairLine(a, k)) = Len(a) - n
  BY <1>1, <1>2, LineShape
<1>4. /\ FairLine(q, k) = [i \in 1 .. Len(q) - n |-> <<q[i + n], k[q[i + n]]>>]
      /\ FairLine(q, k) \in Seq(Asked)
      /\ Len(FairLine(q, k)) = Len(q) - n
  BY LineShape
<1> DEFINE f == FairLine(q, k)
           b == Append(f, e)
<1>n. Len(q) - n \in Nat
  BY <1>1 DEF Prefix
<1>f. f \in Seq(Asked) /\ Len(f) = Len(q) - n
  BY LineShape
<1> HIDE DEF f
<1>b. /\ b \in Seq(Asked) /\ Len(b) = Len(f) + 1
      /\ \A i \in 1 .. Len(f) : b[i] = f[i]
      /\ b[Len(f) + 1] = e
  BY <1>0, <1>f, <1>n, AppendProperties
<1> HIDE DEF b
<1>5. /\ b \in Seq(Asked) /\ Len(b) = Len(q) - n + 1
      /\ \A i \in 1 .. Len(b) : b[i] = IF i = Len(q) - n + 1 THEN e ELSE f[i]
  <2>1. Len(b) = Len(q) - n + 1 /\ Len(q) - n + 1 \in Nat
    BY <1>b, <1>f, <1>n
  <2>2. ASSUME NEW i \in 1 .. Len(b)
        PROVE  b[i] = IF i = Len(q) - n + 1 THEN e ELSE f[i]
    <3>1. i = Len(q) - n + 1 \/ i \in 1 .. Len(f)
      BY <1>f, <1>n, <2>1
    <3> QED
      BY <1>b, <1>f, <1>n, <3>1
  <2> QED
    BY <1>b, <2>1, <2>2
<1> USE DEF f
<1>6. \A i \in 1 .. Len(b) : b[i] = FairLine(a, k)[i]
  <2> SUFFICES ASSUME NEW i \in 1 .. Len(b) PROVE b[i] = FairLine(a, k)[i]
    OBVIOUS
  <2>1. i + n \in 1 .. Len(a) /\ i \in 1 .. Len(a) - n
    BY <1>1, <1>5 DEF Prefix
  <2>2. FairLine(a, k)[i] = <<a[i + n], k[a[i + n]]>>
    BY <1>3, <2>1
  <2>3. CASE i = Len(q) - n + 1
    BY <1>1, <1>5, <2>1, <2>2, <2>3 DEF e
  <2>4. CASE i # Len(q) - n + 1
    <3>1. i \in 1 .. Len(q) - n /\ i + n \in 1 .. Len(q) /\ i + n # Len(q) + 1
      BY <1>1, <1>5, <2>4 DEF Prefix
    <3>2. b[i] = <<q[i + n], k[q[i + n]]>>
      BY <1>4, <1>5, <2>4, <3>1
    <3>3. a[i + n] = q[i + n]
      BY <1>1, <2>1, <3>1
    <3> QED
      BY <2>2, <3>2, <3>3
  <2> QED
    BY <2>3, <2>4
<1>7. Len(b) = Len(FairLine(a, k))
  BY <1>1, <1>3, <1>5 DEF Prefix
<1>8. b = FairLine(a, k)
  BY <1>3, <1>5, <1>6, <1>7, SeqEqual
<1> QED
  BY <1>2, <1>8 DEF a, b, e, f

(* a hurried one is before all others and moves nobody in the line *)
LEMMA PrependHurried ==
    ASSUME NEW q \in Seq(Threads), NEW k \in [Threads -> Kinds], NEW n \in Nat, Prefix(q, k, n),
           NEW t \in Threads, k[t] = "RP"
    PROVE  /\ Prefix(<<t>> \o q, k, n + 1)
           /\ FairLine(<<t>> \o q, k) = FairLine(q, k)
<1> DEFINE a == <<t>> \o q
<1>1. a \in Seq(Threads) /\ Len(a) = Len(q) + 1 /\ Len(q) \in Nat
  OBVIOUS
<1>2. \A i \in 1 .. Len(a) : a[i] = IF i = 1 THEN t ELSE q[i - 1]
  BY <1>1
<1> HIDE DEF a
<1>3. HurriedPlaces(a, k) = 1 .. n + 1
  <2>1. ASSUME NEW i \in 1 .. Len(a) PROVE k[a[i]] = "RP" <=> i <= n + 1
    <3>1. CASE i = 1
      BY <1>1, <1>2, <3>1
    <3>2. CASE i # 1
      <4>1. i - 1 \in 1 .. Len(q) /\ a[i] = q[i - 1]
        BY <1>1, <1>2, <3>2
      <4>2. k[q[i - 1]] = "RP" <=> i - 1 <= n
        BY <4>1 DEF Prefix, HurriedPlaces
      <4> QED
        BY <4>1, <4>2
    <3> QED
      BY <3>1, <3>2
  <2>2. n + 1 <= Len(a)
    BY <1>1 DEF Prefix
  <2> QED
    BY <1>1, <2>1, <2>2 DEF HurriedPlaces
<1>4. Prefix(a, k, n + 1)
  BY <1>1, <1>3 DEF Prefix
<1> DEFINE m == n + 1
<1>m. m \in Nat /\ Prefix(a, k, m)
  BY <1>4
<1> HIDE DEF m
<1>5. FairLine(a, k) = [i \in 1 .. Len(a) - m |-> <<a[i + m], k[a[i + m]]>>]
  BY <1>1, <1>m, LineShape
<1> USE DEF m
<1>6. FairLine(q, k) = [i \in 1 .. Len(q) - n |-> <<q[i + n], k[q[i + n]]>>]
  BY LineShape
<1>7. \A i \in 1 .. Len(q) - n : a[i + m] = q[i + n]
  BY <1>1, <1>2
<1>8. Len(a) - m = Len(q) - n
  BY <1>1
<1> QED
  BY <1>4, <1>5, <1>6, <1>7, <1>8 DEF a

(* the front of the queue is served: the one in a hurry who came last, or the
   first of the line *)
LEMMA TailOfLine ==
    ASSUME NEW q \in Seq(Threads), NEW k \in [Threads -> Kinds], NEW n \in Nat, Prefix(q, k, n),
           q # <<>>
    PROVE  /\ \E m \in Nat : Prefix(Tail(q), k, m)
           /\ k[Head(q)] = "RP" => FairLine(Tail(q), k) = FairLine(q, k)
           /\ k[Head(q)] # "RP" =>
                 /\ HurriedPlaces(q, k) = {}
                 /\ FairLine(q, k) # <<>>
                 /\ Head(FairLine(q, k)) = <<Head(q), k[Head(q)]>>
                 /\ FairLine(Tail(q), k) = Tail(FairLine(q, k))
<1> DEFINE r == Tail(q)
<1>1. /\ r \in Seq(Threads) /\ Len(q) \in Nat \ {0} /\ Len(r) = Len(q) - 1
      /\ \A i \in 1..Len(r) : r[i] = q[i + 1]
      /\ Head(q) = q[1]
  BY HeadTailProperties
<1>2. /\ FairLine(q, k) = [i \in 1 .. Len(q) - n |-> <<q[i + n], k[q[i + n]]>>]
      /\ FairLine(q, k) \in Seq(Asked)
      /\ Len(FairLine(q, k)) = Len(q) - n
  BY LineShape
<1>3. k[q[1]] = "RP" <=> n # 0
  BY <1>1 DEF Prefix, HurriedPlaces
<1> HIDE DEF r
<1>4. ASSUME NEW i \in 1 .. Len(r) PROVE k[r[i]] = "RP" <=> i + 1 <= n
  <2>1. i + 1 \in 1 .. Len(q) /\ r[i] = q[i + 1]
    BY <1>1
  <2> QED
    BY <2>1 DEF Prefix, HurriedPlaces
<1>5. CASE n # 0
  <2>1. HurriedPlaces(r, k) = 1 .. n - 1
    BY <1>1, <1>4, <1>5 DEF HurriedPlaces, Prefix
  <2>2. Prefix(r, k, n - 1) /\ n - 1 \in Nat
    BY <1>1, <1>5, <2>1 DEF Prefix
  <2>3. FairLine(r, k) = [i \in 1 .. Len(r) - (n - 1) |-> <<r[i + (n - 1)], k[r[i + (n - 1)]]>>]
    BY <1>1, <2>2, LineShape
  <2>4. Len(r) - (n - 1) = Len(q) - n
    BY <1>1
  <2>5. \A i \in 1 .. Len(q) - n : r[i + (n - 1)] = q[i + n]
    BY <1>1, <1>5
  <2>6. FairLine(r, k) = FairLine(q, k)
    BY <1>2, <2>3, <2>4, <2>5
  <2> QED
    BY <1>1, <1>3, <1>5, <2>2, <2>6 DEF r
<1>6. CASE n = 0
  <2>1. HurriedPlaces(r, k) = 1 .. 0
    BY <1>1, <1>4, <1>6 DEF HurriedPlaces
  <2>2. Prefix(r, k, 0)
    BY <1>1, <2>1 DEF Prefix
  <2> DEFINE l == FairLine(r, k)
  <2>3. /\ l = [i \in 1 .. Len(r) - 0 |-> <<r[i + 0], k[r[i + 0]]>>]
        /\ l \in Seq(Asked)
        /\ Len(l) = Len(r) - 0
    BY <1>1, <2>2, LineShape
  <2>c. l \in Seq(Asked)
    BY <2>3
  <2>a. Len(l) = Len(r) /\ \A i \in 1 .. Len(r) : l[i] = <<r[i], k[r[i]]>>
    BY <1>1, <2>3
  <2> DEFINE s == FairLine(q, k)
  <2>4. s \in Seq(Asked) /\ Len(s) = Len(q) /\ s # <<>>
        /\ \A i \in 1 .. Len(q) : s[i] = <<q[i], k[q[i]]>>
    BY <1>1, <1>2, <1>6
  <2> HIDE DEF s, l
  <2> DEFINE u == Tail(s)
  <2>5. /\ Head(s) = s[1] /\ u \in Seq(Asked) /\ Len(u) = Len(s) - 1
        /\ \A i \in 1 .. Len(u) : u[i] = s[i + 1]
    BY <2>4, HeadTailProperties
  <2> HIDE DEF u
  <2>6. Head(s) = <<Head(q), k[Head(q)]>>
    BY <1>1, <2>4, <2>5
  <2>b. Len(u) = Len(l) /\ Len(u) = Len(r)
    BY <1>1, <2>a, <2>4, <2>5
  <2>7. ASSUME NEW i \in 1 .. Len(u) PROVE u[i] = l[i]
    <3>1. i + 1 \in 1 .. Len(q) /\ i \in 1 .. Len(r)
      BY <1>1, <2>b
    <3>2. u[i] = <<q[i + 1], k[q[i + 1]]>> /\ l[i] = <<r[i], k[r[i]]>>
      BY <2>4, <2>5, <2>a, <3>1
    <3> QED
      BY <1>1, <3>1, <3>2
  <2>8. u = l
    BY <2>c, <2>5, <2>7, <2>b, SeqEqual
  <2>9. HurriedPlaces(q, k) = {}
    BY <1>6 DEF Prefix
  <2> QED
    BY <1>1, <1>3, <1>6, <2>2, <2>4, <2>6, <2>8, <2>9 DEF r, s, l, u
<1> QED
  BY <1>5, <1>6

RInv == IInv /\ PriorityFirst

(* what the abstract lock is in a state: hidden behind names *)
Held == HeldBy(pc, kind)
Line == FairLine(mQueue, kind)
Hurried == HurriedOf(pc, kind)

(* A lock that Free(k) lets thread t take is compatible with the holders, and a thread
   with no call under way is idle to the abstract lock too. *)
LEMMA CompatibleLemma ==
    ASSUME IInv, NEW k \in Kinds, Free(k)
    PROVE  Lock!Compatible(k)
<1> USE DEF IInv, TypeOK, Waiting, Kinds
<1>1. Lock!Holders = Readers \cup Writers /\ Lock!Reading = Readers
  BY DEF Lock!Holders, Lock!Reading, Readers, Writers, Holding, HeldBy
<1>2. CASE ~mLocked
  BY <1>1, <1>2 DEF MutualExclusion, Lock!Compatible
<1>3. CASE mLocked
  <2>1. k # "W" /\ mReaders > 0
    BY <1>3 DEF Free
  <2>2. Readers # {}
    BY <2>1, ReadersCounted
  <2>3. Writers = {}
    BY <2>2 DEF MutualExclusion
  <2> QED
    BY <1>1, <2>1, <2>3 DEF Lock!Compatible
<1> QED
  BY <1>2, <1>3

LEMMA IdleLemma ==
    ASSUME RInv, NEW t \in Threads, pc[t] = "idle"
    PROVE  Lock!Idle(t) /\ t \notin Elements(mQueue)
<1> USE DEF RInv, IInv, TypeOK, Waiting, Kinds
<1>1. t \notin Elements(mQueue)
  BY DEF QueueOK, WaitingThreads
<1>2. PICK n \in Nat : Prefix(mQueue, kind, n)
  BY DEF PriorityFirst
<1>3. Line = [i \in 1 .. Len(mQueue) - n |-> <<mQueue[i + n], kind[mQueue[i + n]]>>]
  BY <1>2, LineShape DEF Line
<1>4. ASSUME NEW i \in DOMAIN Line PROVE Line[i][1] # t
  <2>1. i \in 1 .. Len(mQueue) - n
    BY <1>3
  <2>2. i + n \in 1 .. Len(mQueue) /\ Line[i][1] = mQueue[i + n]
    BY <1>2, <1>3, <2>1 DEF Prefix
  <2> QED
    BY <1>1, <2>2 DEF Elements
<1>5. HeldBy(pc, kind)[t] = "none" /\ t \notin HurriedOf(pc, kind)
  BY DEF HeldBy, HurriedOf
<1> QED
  BY <1>1, <1>4, <1>5 DEF Lock!Idle, Lock!Waiting, Line

(* waking sleepers is invisible to the abstract lock *)
SameAs(p, q) == \A u \in Threads :
    (p[u] = "held" <=> q[u] = "held") /\ (p[u] \in Waiting <=> q[u] \in Waiting)

LEMMA SameWoken ==
    ASSUME NEW p \in [Threads -> {"idle", "held"} \cup Waiting], NEW q
    PROVE  SameAs(notify_all(p, q), p) /\ SameAs(p, p)
BY DEF SameAs, notify_all, Waiting

(* what a step of thread t makes of the holders and of those in a hurry *)
LEMMA HeldLemma ==
    ASSUME IInv, NEW t \in Threads, NEW k \in Kinds,
           NEW s \in {"idle", "held"} \cup Waiting, NEW p,
           SameAs(p, [pc EXCEPT ![t] = s])
    PROVE  /\ HeldBy(p, [kind EXCEPT ![t] = k]) =
                 [Held EXCEPT ![t] = IF s = "held" THEN k ELSE "none"]
           /\ HurriedOf(p, [kind EXCEPT ![t] = k]) =
                 (Hurried \ {t}) \cup (IF s \in Waiting /\ k = "RP" THEN {t} ELSE {})
<1> USE DEF IInv, TypeOK, Waiting, Kinds, SameAs
<1> DEFINE h == [kind EXCEPT ![t] = k]
           q == [pc EXCEPT ![t] = s]
<1>1. \A u \in Threads : h[u] = IF u = t THEN k ELSE kind[u]
  OBVIOUS
<1>2. \A u \in Threads : q[u] = IF u = t THEN s ELSE pc[u]
  OBVIOUS
<1> HIDE DEF h
<1>3. HeldBy(p, h) = [Held EXCEPT ![t] = IF s = "held" THEN k ELSE "none"]
  <2>1. \A u \in Threads : (IF p[u] = "held" THEN h[u] ELSE "none") =
           IF u = t THEN IF s = "held" THEN k ELSE "none" ELSE Held[u]
    BY <1>1, <1>2 DEF Held, HeldBy
  <2> QED
    BY <2>1 DEF Held, HeldBy
<1>4. HurriedOf(p, h) = (Hurried \ {t}) \cup (IF s \in Waiting /\ k = "RP" THEN {t} ELSE {})
  <2>1. \A u \in Threads : p[u] \in Waiting /\ h[u] = "RP" <=>
           IF u = t THEN s \in Waiting /\ k = "RP" ELSE u \in Hurried
    BY <1>1, <1>2 DEF Hurried, HurriedOf
  <2>2. Hurried \subseteq Threads
    BY DEF Hurried, HurriedOf
  <2> QED
    BY <2>1, <2>2 DEF HurriedOf
<1> QED
  BY <1>3, <1>4 DEF h

-----------------------------------------------------------------------------
LEMMA TakeLemma ==
    ASSUME IInv, NEW t \in Threads, NEW k \in Kinds, NEW q, Take(t, k, q),
           kind' = [kind EXCEPT ![t] = k]
    PROVE  /\ HeldBy(pc, kind)' = [Held EXCEPT ![t] = k]
           /\ HurriedOf(pc, kind)' = Hurried \ {t}
<1> DEFINE p == [pc EXCEPT ![t] = "held"]
<1>1. p \in [Threads -> {"idle", "held"} \cup Waiting]
  BY DEF IInv, TypeOK, Waiting
<1>2. pc' = p \/ pc' = notify_all(p, Tail(q))
  BY DEF Take
<1> HIDE DEF p
<1>3. SameAs(notify_all(p, Tail(q)), p) /\ SameAs(p, p)
  BY <1>1, SameWoken
<1>4. SameAs(pc', p)
  BY <1>2, <1>3
<1> DEFINE s == "held"
<1>5. s \in {"idle", "held"} \cup Waiting /\ p = [pc EXCEPT ![t] = s]
  BY DEF p
<1> HIDE DEF s
<1>6. /\ HeldBy(pc', [kind EXCEPT ![t] = k]) = [Held EXCEPT ![t] = IF s = "held" THEN k ELSE "none"]
      /\ HurriedOf(pc', [kind EXCEPT ![t] = k]) =
            (Hurried \ {t}) \cup (IF s \in Waiting /\ k = "RP" THEN {t} ELSE {})
  BY <1>4, <1>5, HeldLemma
<1> QED
  BY <1>6 DEF Waiting, s

LEMMA SleepLemma ==
    ASSUME IInv, NEW t \in Threads, NEW k \in Kinds, NEW q, Sleep(t, q),
           kind' = [kind EXCEPT ![t] = k], pc[t] # "held"
    PROVE  /\ HeldBy(pc, kind)' = Held
           /\ HurriedOf(pc, kind)' = (Hurried \ {t}) \cup (IF k = "RP" THEN {t} ELSE {})
<1> DEFINE s == "asleep"
<1>1. pc' = [pc EXCEPT ![t] = s] /\ s \in {"idle", "held"} \cup Waiting
  BY DEF Sleep, Waiting
<1>2. [pc EXCEPT ![t] = s] \in [Threads -> {"idle", "held"} \cup Waiting]
  BY DEF IInv, TypeOK, Waiting
<1> HIDE DEF s
<1>3. SameAs(pc', [pc EXCEPT ![t] = s])
  BY <1>1, <1>2, SameWoken
<1>4. /\ HeldBy(pc', [kind EXCEPT ![t] = k]) = [Held EXCEPT ![t] = IF s = "held" THEN k ELSE "none"]
      /\ HurriedOf(pc', [kind EXCEPT ![t] = k]) =
            (Hurried \ {t}) \cup (IF s \in Waiting /\ k = "RP" THEN {t} ELSE {})
  BY <1>1, <1>3, HeldLemma
<1>5. [Held EXCEPT ![t] = "none"] = Held
  BY DEF Held, HeldBy
<1> QED
  BY <1>4, <1>5 DEF Waiting, s

(* a call that joins the queue and tests its condition once *)
LEMMA RequestLemma ==
    ASSUME RInv, NEW t \in Threads, NEW k \in Kinds, pc[t] = "idle",
           kind' = [kind EXCEPT ![t] = k],
           TakeOrSleep(t, k, IF k = "RP" THEN <<t>> \o mQueue ELSE Append(mQueue, t))
    PROVE  PriorityFirst' /\ (Lock!Request(t, k) \/ Lock!GrantAtOnce(t, k))
<1>0. /\ IInv /\ PriorityFirst /\ mQueue \in Seq(Threads)
      /\ kind \in [Threads -> Kinds] /\ QueueOK
  BY DEF RInv, IInv, TypeOK, Kinds
<1> DEFINE q == IF k = "RP" THEN <<t>> \o mQueue ELSE Append(mQueue, t)
           l == [kind EXCEPT ![t] = k]
<1>1. Lock!Idle(t) /\ t \notin Elements(mQueue) /\ t \notin Hurried
  BY IdleLemma DEF Hurried, HurriedOf, Waiting
<1>2. PICK n \in Nat : Prefix(mQueue, kind, n)
  BY <1>0 DEF PriorityFirst
<1>3. Prefix(mQueue, l, n) /\ FairLine(mQueue, l) = Line /\ l \in [Threads -> Kinds] /\ l[t] = k
  <2>1. HurriedPlaces(mQueue, l) = HurriedPlaces(mQueue, kind) /\ FairLine(mQueue, l) = FairLine(mQueue, kind)
    BY <1>0, <1>1, OthersKind
  <2>2. l \in [Threads -> Kinds] /\ l[t] = k
    BY <1>0
  <2> HIDE DEF l
  <2> QED
    BY <1>2, <2>1, <2>2 DEF Prefix, Line
<1>4. kind' = l
  OBVIOUS
<1>q. TakeOrSleep(t, k, q)
  OBVIOUS
<1> HIDE DEF l
<1>5. (\E m \in Nat : Prefix(q, l, m))
      /\ FairLine(q, l) = IF k = "RP" THEN Line ELSE Append(Line, <<t, k>>)
  <2>1. CASE k = "RP"
    <3>1. Prefix(<<t>> \o mQueue, l, n + 1) /\ FairLine(<<t>> \o mQueue, l) = FairLine(mQueue, l)
      BY <1>0, <1>3, <2>1, PrependHurried
    <3> QED
      BY <1>3, <2>1, <3>1
  <2>2. CASE k # "RP"
    <3>1. Prefix(Append(mQueue, t), l, n)
          /\ FairLine(Append(mQueue, t), l) = Append(FairLine(mQueue, l), <<t, l[t]>>)
      BY <1>0, <1>3, <2>2, AppendFair
    <3> QED
      BY <1>3, <2>2, <3>1
  <2> QED
    BY <2>1, <2>2
<1>6. CASE Head(q) = t /\ Free(k)
  <2>1. Take(t, k, q) /\ Lock!Compatible(k)
    BY <1>0, <1>q, <1>6, CompatibleLemma DEF TakeOrSleep
  <2>2. /\ HeldBy(pc, kind)' = [Held EXCEPT ![t] = k]
        /\ HurriedOf(pc, kind)' = Hurried
    <3>1. HurriedOf(pc, kind)' = Hurried \ {t} /\ HeldBy(pc, kind)' = [Held EXCEPT ![t] = k]
      BY <1>0, <2>1, TakeLemma
    <3> QED
      BY <1>1, <3>1
  <2>3. Tail(q) = mQueue /\ (k # "RP" => mQueue = <<>>)
    <3>1. CASE k = "RP"
      BY <1>0, <3>1
    <3>2. CASE k # "RP"
      <4>1. mQueue # <<>> => Head(Append(mQueue, t)) = Head(mQueue) /\ Head(mQueue) \in Elements(mQueue)
        BY <1>0, <1>1, AppendLemma, TailLemma DEF QueueOK
      <4>2. mQueue = <<>>
        BY <1>1, <1>6, <3>2, <4>1
      <4> QED
        BY <3>2, <4>2
    <3> QED
      BY <3>1, <3>2
  <2>4. mQueue' = mQueue
    BY <2>1, <2>3 DEF Take
  <2>5. PriorityFirst'
    BY <1>3, <1>4, <2>4 DEF PriorityFirst
  <2>6. FairLine(mQueue, kind)' = Line
    BY <1>3, <1>4, <2>4
  <2>7. k # "RP" => Line = <<>> /\ Hurried = {}
    <3> SUFFICES ASSUME mQueue = <<>> PROVE Line = <<>> /\ Hurried = {}
      BY <2>3
    <3>1. Len(mQueue) = 0 /\ n = 0
      BY <1>2 DEF Prefix
    <3>2. Line \in Seq(Asked) /\ Len(Line) = Len(mQueue) - n
      BY <1>0, <1>2, LineShape DEF Line
    <3>3. Line = <<>>
      BY <3>1, <3>2
    <3>4. WaitingThreads = {}
      BY <1>0, <3>1 DEF QueueOK, Elements
    <3> QED
      BY <3>3, <3>4 DEF WaitingThreads, Hurried, HurriedOf
  <2>8. Lock!GrantAtOnce(t, k)
    BY <1>1, <2>1, <2>2, <2>6, <2>7 DEF Lock!GrantAtOnce, Lock!Fair, Held, Line, Hurried
  <2> QED
    BY <2>5, <2>8
<1>7. CASE ~(Head(q) = t /\ Free(k))
  <2>1. Sleep(t, q)
    BY <1>q, <1>7 DEF TakeOrSleep
  <2>2. /\ HeldBy(pc, kind)' = Held
        /\ HurriedOf(pc, kind)' = Hurried \cup (IF k = "RP" THEN {t} ELSE {})
    <3>1. /\ HeldBy(pc, kind)' = Held
          /\ HurriedOf(pc, kind)' = (Hurried \ {t}) \cup (IF k = "RP" THEN {t} ELSE {})
      BY <1>0, <2>1, SleepLemma
    <3> QED
      BY <1>1, <3>1
  <2>3. mQueue' = q
    BY <2>1 DEF Sleep
  <2>4. PriorityFirst'
    BY <1>4, <1>5, <2>3 DEF PriorityFirst
  <2>5. FairLine(mQueue, kind)' = IF k = "RP" THEN Line ELSE Append(Line, <<t, k>>)
    BY <1>4, <1>5, <2>3
  <2>6. Lock!Request(t, k)
    BY <1>1, <2>2, <2>5 DEF Lock!Request, Lock!Fair, Kinds, Held, Line, Hurried
  <2> QED
    BY <2>4, <2>6
<1> QED
  BY <1>6, <1>7

(* a woken waiter that tests its condition again *)
LEMMA ResumeLemma ==
    ASSUME RInv, NEW t \in Threads, Resume(t)
    PROVE  PriorityFirst' /\ (Lock!GrantFair(t) \/ Lock!GrantHurried(t) \/ UNCHANGED Lock!vars)
<1>0. /\ IInv /\ PriorityFirst /\ mQueue \in Seq(Threads)
      /\ kind \in [Threads -> Kinds] /\ QueueOK
  BY DEF RInv, IInv, TypeOK, Kinds
<1>1. PICK n \in Nat : Prefix(mQueue, kind, n)
  BY <1>0 DEF PriorityFirst
<1>2. kind' = [kind EXCEPT ![t] = kind[t]] /\ kind' = kind /\ kind[t] \in Kinds
      /\ TakeOrSleep(t, kind[t], mQueue) /\ pc[t] = "awake"
  BY <1>0 DEF Resume
<1>3. t \in Elements(mQueue) /\ mQueue # <<>>
  BY <1>0, <1>2 DEF QueueOK, WaitingThreads, Elements, Waiting
<1>4. CASE Head(mQueue) = t /\ Free(kind[t])
  <2>1. Take(t, kind[t], mQueue) /\ Lock!Compatible(kind[t])
    BY <1>0, <1>2, <1>4, CompatibleLemma DEF TakeOrSleep
  <2>2. /\ HeldBy(pc, kind)' = [Held EXCEPT ![t] = kind[t]]
        /\ HurriedOf(pc, kind)' = Hurried \ {t}
    BY <1>0, <1>2, <2>1, TakeLemma
  <2>3. mQueue' = Tail(mQueue)
    BY <2>1 DEF Take
  <2>4. /\ \E m \in Nat : Prefix(Tail(mQueue), kind, m)
        /\ kind[t] = "RP" => FairLine(Tail(mQueue), kind) = Line
        /\ kind[t] # "RP" =>
              /\ HurriedPlaces(mQueue, kind) = {}
              /\ Line # <<>> /\ Head(Line) = <<t, kind[t]>>
              /\ FairLine(Tail(mQueue), kind) = Tail(Line)
    BY <1>0, <1>1, <1>3, <1>4, TailOfLine DEF Line
  <2>5. PriorityFirst'
    BY <1>2, <2>3, <2>4 DEF PriorityFirst
  <2>6. CASE kind[t] = "RP"
    <3>1. t \in Hurried
      BY <1>2, <2>6 DEF Hurried, HurriedOf, Waiting
    <3>2. Lock!GrantHurried(t)
      BY <1>2, <2>1, <2>2, <2>3, <2>4, <2>6, <3>1 DEF Lock!GrantHurried, Held, Line, Hurried
    <3> QED
      BY <2>5, <3>2
  <2>7. CASE kind[t] # "RP"
    <3>1. Hurried = {}
      <4> SUFFICES ASSUME NEW u \in Hurried PROVE FALSE
        OBVIOUS
      <4>1. u \in Elements(mQueue) /\ kind[u] = "RP"
        BY <1>0 DEF Hurried, HurriedOf, QueueOK, WaitingThreads
      <4> QED
        BY <2>4, <2>7, <4>1 DEF Elements, HurriedPlaces
    <3>2. Head(Line)[1] = t /\ Head(Line)[2] = kind[t]
      BY <2>4, <2>7
    <3>3. FairLine(mQueue, kind)' = Tail(Line) /\ Line # <<>>
      BY <1>2, <2>3, <2>4, <2>7
    <3>4. Lock!GrantFair(t)
      BY <2>1, <2>2, <3>1, <3>2, <3>3 DEF Lock!GrantFair, Held, Line, Hurried
    <3> QED
      BY <2>5, <3>4
  <2> QED
    BY <2>6, <2>7
<1>5. CASE ~(Head(mQueue) = t /\ Free(kind[t]))
  <2>1. Sleep(t, mQueue)
    BY <1>2, <1>5 DEF TakeOrSleep
  <2>2. /\ HeldBy(pc, kind)' = Held
        /\ HurriedOf(pc, kind)' = (Hurried \ {t}) \cup (IF kind[t] = "RP" THEN {t} ELSE {})
    BY <1>0, <1>2, <2>1, SleepLemma
  <2>3. HurriedOf(pc, kind)' = Hurried
    BY <1>2, <2>2 DEF Hurried, HurriedOf, Waiting
  <2>4. mQueue' = mQueue
    BY <2>1 DEF Sleep
  <2>5. PriorityFirst'
    BY <1>0, <1>2, <2>4 DEF PriorityFirst
  <2> QED
    BY <1>2, <2>2, <2>3, <2>4, <2>5 DEF Lock!vars, Held, Hurried
<1> QED
  BY <1>4, <1>5

(* Every step of the mutex is a step of the abstract lock or changes nothing of it. *)
LEMMA NextRefines ==
    ASSUME RInv, [Next]_vars
    PROVE  PriorityFirst' /\ [Lock!Next]_(Lock!vars)
<1>0. /\ IInv /\ PriorityFirst /\ mQueue \in Seq(Threads)
      /\ kind \in [Threads -> Kinds] /\ pc \in [Threads -> {"idle", "held"} \cup Waiting]
      /\ QueueOK /\ MutualExclusion
  BY DEF RInv, IInv, TypeOK, Kinds
<1>1. CASE UNCHANGED vars
  BY <1>0, <1>1 DEF vars, PriorityFirst, Lock!vars
<1>2. ASSUME NEW t \in Threads, NEW k \in Kinds, Lock!Request(t, k) \/ Lock!GrantAtOnce(t, k)
      PROVE  [Lock!Next]_(Lock!vars)
  BY <1>2 DEF Lock!Next, Kinds
<1>3. ASSUME NEW t \in Threads, try_lock(t)
      PROVE  PriorityFirst' /\ [Lock!Next]_(Lock!vars)
  <2>1. /\ pc[t] = "idle" /\ mQueue' = mQueue /\ mQueue = <<>> /\ "W" \in Kinds /\ Free("W")
        /\ pc' = [pc EXCEPT ![t] = "held"] /\ kind' = [kind EXCEPT ![t] = "W"]
    BY <1>3 DEF try_lock, Kinds, Free
  <2>2. TakeOrSleep(t, "W", Append(mQueue, t))
    BY <1>3 DEF try_lock, TakeOrSleep, Take, Free
  <2> HIDE DEF Kinds
  <2> DEFINE k == "W"
  <2>3. TakeOrSleep(t, k, IF k = "RP" THEN <<t>> \o mQueue ELSE Append(mQueue, t)) /\ k \in Kinds
        /\ kind' = [kind EXCEPT ![t] = k]
    BY <2>1, <2>2
  <2> HIDE DEF k
  <2> QED
    BY <2>1, <2>3, <1>2, RequestLemma
<1>4. ASSUME NEW t \in Threads, NEW k \in {"W", "R"}, pc[t] = "idle",
             kind' = [kind EXCEPT ![t] = k], TakeOrSleep(t, k, Append(mQueue, t))
      PROVE  PriorityFirst' /\ [Lock!Next]_(Lock!vars)
  <2>1. k \in Kinds /\ TakeOrSleep(t, k, IF k = "RP" THEN <<t>> \o mQueue ELSE Append(mQueue, t))
    BY <1>4 DEF Kinds
  <2> QED
    BY <1>2, <1>4, <2>1, RequestLemma
<1>5. ASSUME NEW t \in Threads, lock(t) PROVE PriorityFirst' /\ [Lock!Next]_(Lock!vars)
  BY <1>4, <1>5 DEF lock
<1>6. ASSUME NEW t \in Threads, lock_shared(t) PROVE PriorityFirst' /\ [Lock!Next]_(Lock!vars)
  BY <1>4, <1>6 DEF lock_shared
<1>7. ASSUME NEW t \in Threads, lock_shared_priority(t)
      PROVE  PriorityFirst' /\ [Lock!Next]_(Lock!vars)
  <2> DEFINE k == "RP"
  <2>1. pc[t] = "idle" /\ kind' = [kind EXCEPT ![t] = k] /\ k \in Kinds
    BY <1>7 DEF lock_shared_priority, Kinds
  <2>2. CASE mReaders > 0
    <3>1. mQueue' = mQueue /\ pc' = [pc EXCEPT ![t] = "held"]
      BY <1>7, <2>2 DEF lock_shared_priority
    <3>2. Lock!Idle(t) /\ t \notin Elements(mQueue) /\ t \notin Hurried
      BY <2>1, IdleLemma DEF Hurried, HurriedOf, Waiting
    <3>3. Lock!Compatible(k)
      <4>1. Free(k)
        BY <2>2 DEF Free
      <4> QED
        BY <1>0, <2>1, <4>1, CompatibleLemma
    <3> DEFINE s == "held"
    <3>4. SameAs(pc', [pc EXCEPT ![t] = s]) /\ s \in {"idle", "held"} \cup Waiting
      BY <3>1 DEF SameAs
    <3> HIDE DEF k, s
    <3>5. /\ HeldBy(pc', [kind EXCEPT ![t] = k]) = [Held EXCEPT ![t] = IF s = "held" THEN k ELSE "none"]
          /\ HurriedOf(pc', [kind EXCEPT ![t] = k]) =
                (Hurried \ {t}) \cup (IF s \in Waiting /\ k = "RP" THEN {t} ELSE {})
      BY <1>0, <2>1, <3>4, HeldLemma
    <3>6. /\ HeldBy(pc, kind)' = [Held EXCEPT ![t] = k]
          /\ HurriedOf(pc, kind)' = Hurried
      BY <2>1, <3>2, <3>5 DEF s, Waiting
    <3>7. /\ HurriedPlaces(mQueue, [kind EXCEPT ![t] = k]) = HurriedPlaces(mQueue, kind)
          /\ FairLine(mQueue, [kind EXCEPT ![t] = k]) = Line
      BY <1>0, <2>1, <3>2, OthersKind DEF Line
    <3>8. PriorityFirst'
      BY <1>0, <2>1, <3>1, <3>7 DEF PriorityFirst, Prefix
    <3>9. Lock!GrantAtOnce(t, k)
      BY <2>1, <3>1, <3>2, <3>3, <3>6, <3>7 DEF Lock!GrantAtOnce, Lock!Fair, k, Held, Line, Hurried
    <3> QED
      BY <1>2, <2>1, <3>8, <3>9
  <2>3. CASE ~(mReaders > 0)
    <3>1. TakeOrSleep(t, "RP", <<t>> \o mQueue)
      BY <1>7, <2>3 DEF lock_shared_priority
    <3>2. TakeOrSleep(t, k, IF k = "RP" THEN <<t>> \o mQueue ELSE Append(mQueue, t))
      BY <3>1
    <3> HIDE DEF k
    <3> QED
      BY <1>2, <2>1, <3>2, RequestLemma
  <2> QED
    BY <2>2, <2>3
<1>8. ASSUME NEW t \in Threads, Resume(t) PROVE PriorityFirst' /\ [Lock!Next]_(Lock!vars)
  <2>1. PriorityFirst' /\ (Lock!GrantFair(t) \/ Lock!GrantHurried(t) \/ UNCHANGED Lock!vars)
    BY <1>8, ResumeLemma
  <2> QED
    BY <2>1 DEF Lock!Next
<1>9. ASSUME NEW t \in Threads, NEW s \in {"asleep", "awake", "idle"},
             SameAs(pc', [pc EXCEPT ![t] = s]), mQueue' = mQueue, kind' = kind
      PROVE  /\ PriorityFirst' /\ FairLine(mQueue, kind)' = Line
             /\ HeldBy(pc, kind)' = [Held EXCEPT ![t] = "none"]
             /\ HurriedOf(pc, kind)' =
                   (Hurried \ {t}) \cup (IF s \in Waiting /\ kind[t] = "RP" THEN {t} ELSE {})
  <2>1. PriorityFirst' /\ FairLine(mQueue, kind)' = Line
    BY <1>0, <1>9 DEF PriorityFirst, Line
  <2> DEFINE k == kind[t]
  <2>2. s \in {"idle", "held"} \cup Waiting /\ s # "held" /\ k \in Kinds
    BY <1>0 DEF Waiting
  <2>3. kind' = [kind EXCEPT ![t] = k]
    BY <1>0, <1>9
  <2>i. IInv
    BY <1>0
  <2> HIDE DEF k
  <2>4. /\ HeldBy(pc', [kind EXCEPT ![t] = k]) = [Held EXCEPT ![t] = IF s = "held" THEN k ELSE "none"]
        /\ HurriedOf(pc', [kind EXCEPT ![t] = k]) =
              (Hurried \ {t}) \cup (IF s \in Waiting /\ k = "RP" THEN {t} ELSE {})
    BY <2>i, <1>9, <2>2, HeldLemma
  <2> QED
    BY <2>1, <2>2, <2>3, <2>4 DEF k
<1>10. ASSUME NEW t \in Threads, SpuriousWake(t) PROVE PriorityFirst' /\ [Lock!Next]_(Lock!vars)
  <2> DEFINE s == "awake"
  <2>1. /\ pc[t] = "asleep" /\ mQueue' = mQueue /\ kind' = kind
        /\ pc' = [pc EXCEPT ![t] = s] /\ s \in {"asleep", "awake", "idle"}
    BY <1>10 DEF SpuriousWake
  <2>2. SameAs(pc', [pc EXCEPT ![t] = s])
    BY <2>1 DEF SameAs
  <2> HIDE DEF s
  <2>3. /\ PriorityFirst' /\ FairLine(mQueue, kind)' = Line
        /\ HeldBy(pc, kind)' = [Held EXCEPT ![t] = "none"]
        /\ HurriedOf(pc, kind)' =
              (Hurried \ {t}) \cup (IF s \in Waiting /\ kind[t] = "RP" THEN {t} ELSE {})
    BY <1>9, <2>1, <2>2
  <2>4. [Held EXCEPT ![t] = "none"] = Held
    BY <1>0, <2>1 DEF Held, HeldBy
  <2>5. HurriedOf(pc, kind)' = Hurried
    BY <2>1, <2>3 DEF s, Waiting, Hurried, HurriedOf
  <2> QED
    BY <2>3, <2>4, <2>5 DEF Lock!vars, Held, Line, Hurried
<1>11. ASSUME NEW t \in Threads, unlock(t) \/ unlock_shared(t)
       PROVE  PriorityFirst' /\ [Lock!Next]_(Lock!vars)
  <2> DEFINE s == "idle"
             p == [pc EXCEPT ![t] = s]
  <2>1. /\ pc[t] = "held" /\ mQueue' = mQueue /\ kind' = kind
        /\ pc' = notify_all(p, mQueue) /\ s \in {"asleep", "awake", "idle"}
    BY <1>11 DEF unlock, unlock_shared
  <2>2. p \in [Threads -> {"idle", "held"} \cup Waiting]
    BY <1>0
  <2> HIDE DEF p
  <2>3. SameAs(pc', p)
    BY <2>1, <2>2, SameWoken
  <2>4. SameAs(pc', [pc EXCEPT ![t] = s])
    BY <2>3 DEF p
  <2> HIDE DEF s
  <2>5. /\ PriorityFirst' /\ FairLine(mQueue, kind)' = Line
        /\ HeldBy(pc, kind)' = [Held EXCEPT ![t] = "none"]
        /\ HurriedOf(pc, kind)' =
              (Hurried \ {t}) \cup (IF s \in Waiting /\ kind[t] = "RP" THEN {t} ELSE {})
    BY <1>9, <2>1, <2>4
  <2>6. HurriedOf(pc, kind)' = Hurried
    BY <2>1, <2>5 DEF s, Waiting, Hurried, HurriedOf
  <2>7. Held[t] # "none"
    BY <1>0, <2>1 DEF Held, HeldBy, Kinds
  <2>8. Lock!Release(t)
    BY <2>5, <2>6, <2>7 DEF Lock!Release, Held, Line, Hurried
  <2> QED
    BY <2>5, <2>8 DEF Lock!Next
<1> QED
  BY <1>1, <1>3, <1>5, <1>6, <1>7, <1>8, <1>10, <1>11 DEF Next

LEMMA InitRefines == Init => PriorityFirst /\ Lock!Init
<1> SUFFICES ASSUME Init PROVE PriorityFirst /\ Lock!Init
  OBVIOUS
<1>1. mQueue \in Seq(Threads) /\ kind \in [Threads -> Kinds] /\ Len(mQueue) = 0
  BY EmptySeq DEF Init, Kinds
<1> DEFINE n == 0
<1>2. Prefix(mQueue, kind, n) /\ n \in Nat
  BY <1>1 DEF Prefix, HurriedPlaces
<1> HIDE DEF n
<1>3. Line \in Seq(Asked) /\ Len(Line) = Len(mQueue) - n
  BY <1>1, <1>2, LineShape DEF Line
<1>4. FairLine(mQueue, kind) = <<>>
  BY <1>1, <1>3 DEF Line, n
<1>5. HeldBy(pc, kind) = [t \in Threads |-> "none"] /\ HurriedOf(pc, kind) = {}
  BY DEF Init, HeldBy, HurriedOf, Waiting
<1> QED
  BY <1>2, <1>4, <1>5 DEF PriorityFirst, Lock!Init

(* The mutex is the readers-priority, otherwise first-come-first-served lock that
   its class comment promises (SharedMutex.hpp:12-16), however many threads use it
   and however they are woken. *)
THEOREM Refinement == Spec => ImplementsFairRWLock
<1>1. Init => RInv /\ Lock!Init
  BY InitIInv, InitRefines DEF RInv
<1>2. RInv /\ [Next]_vars => RInv' /\ [Lock!Next]_(Lock!vars)
  BY NextIInv, NextRefines DEF RInv
<1> QED
  BY <1>1, <1>2, PTL DEF Spec, ImplementsFairRWLock, Lock!Spec
=============================================================================
