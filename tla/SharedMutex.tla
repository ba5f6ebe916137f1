---------------------------- MODULE SharedMutex -----------------------------
(***************************************************************************)
(* The readers/writer lock every item, folder and file of the client is     *)
(* guarded by (SharedMutex.hpp).  A call runs under mMutex from its start    *)
(* (or from its wake-up) to its return or its wait, so each such segment is  *)
(* one step.  mWaitCV is the set of threads whose pc is "asleep"; a notified *)
(* thread is "awake" until it has mMutex again and looks at its condition.   *)
(*                                                                          *)
(* A ticket of mQueue (mIndex++) is unique and belongs to one waiting call,  *)
(* so the queue holds the waiting threads themselves.                        *)
(***************************************************************************)
EXTENDS Naturals, Sequences, FiniteSets

CONSTANT Threads    \* the threads that use the lock

ASSUME ThreadsAssumption == IsFiniteSet(Threads)

VARIABLES
    mQueue,     \* the waiting threads, the next one to be served first
    mReaders,   \* number of readers holding the lock
    mLocked,    \* TRUE when the lock is held
    pc,         \* where each thread is
    kind        \* what each thread asked for last: "W" lock(), "R" lock_shared(),
                \* "RP" lock_shared(true)

vars == <<mQueue, mReaders, mLocked, pc, kind>>

Waiting == {"asleep", "awake"}

TypeOK ==
    /\ mQueue \in Seq(Threads)
    /\ mReaders \in Nat
    /\ mLocked \in BOOLEAN
    /\ pc \in [Threads -> {"idle", "held"} \cup Waiting]
    /\ kind \in [Threads -> {"W", "R", "RP"}]

Init ==
    /\ mQueue = <<>>
    /\ mReaders = 0
    /\ mLocked = FALSE
    /\ pc = [t \in Threads |-> "idle"]
    /\ kind = [t \in Threads |-> "W"]

(* what the wait loops test beside the ticket at the front of the queue *)
Free(k) == IF k = "W" THEN ~mLocked ELSE mReaders > 0 \/ ~mLocked

(* mWaitCV.notify_all(), called only when somebody is queued *)
notify_all(p, queue) ==
    [t \in Threads |-> IF queue # <<>> /\ p[t] = "asleep" THEN "awake" ELSE p[t]]

(* mutant: a reader is let in without being counted *)
TakeUncounted(t, k, queue) ==
    /\ mQueue' = Tail(queue)
    /\ mLocked' = TRUE
    /\ pc' = notify_all([pc EXCEPT ![t] = "held"], Tail(queue))
    /\ UNCHANGED mReaders

(* the code after the wait loop: the ticket leaves the queue, the lock is
   taken, and a reader lets the next waiter look *)
Take(t, k, queue) ==
    /\ mQueue' = Tail(queue)
    /\ mLocked' = TRUE
    /\ IF k = "W"
       THEN UNCHANGED mReaders /\ pc' = [pc EXCEPT ![t] = "held"]
       ELSE /\ mReaders' = mReaders + 1
            /\ pc' = notify_all([pc EXCEPT ![t] = "held"], Tail(queue))

Sleep(t, queue) ==
    /\ mQueue' = queue
    /\ pc' = [pc EXCEPT ![t] = "asleep"]
    /\ UNCHANGED <<mReaders, mLocked>>

(* mutant: the waiter does not look at the ticket at the front *)
TakeOutOfTurn(t, k, queue) ==
    IF Free(k) THEN Take(t, k, queue) ELSE Sleep(t, queue)

(* one test of the wait condition by thread t, with the queue as it is then *)
TakeOrSleep(t, k, queue) ==
    IF Head(queue) = t /\ Free(k) THEN Take(t, k, queue) ELSE Sleep(t, queue)

(* try_lock() that succeeds; one that fails changes nothing *)
try_lock(t) ==
    /\ pc[t] = "idle"
    /\ ~mLocked /\ mQueue = <<>>
    /\ mLocked' = TRUE
    /\ pc' = [pc EXCEPT ![t] = "held"]
    /\ kind' = [kind EXCEPT ![t] = "W"]
    /\ UNCHANGED <<mQueue, mReaders>>

lock(t) ==
    /\ pc[t] = "idle"
    /\ kind' = [kind EXCEPT ![t] = "W"]
    /\ TakeOrSleep(t, "W", Append(mQueue, t))

(* lock_shared(false) joins the back of the queue *)
lock_shared(t) ==
    /\ pc[t] = "idle"
    /\ kind' = [kind EXCEPT ![t] = "R"]
    /\ TakeOrSleep(t, "R", Append(mQueue, t))

(* mutant: a priority reader that has to wait joins the back of the queue *)
lock_shared_last(t) ==
    /\ pc[t] = "idle"
    /\ kind' = [kind EXCEPT ![t] = "RP"]
    /\ IF mReaders > 0
       THEN /\ mReaders' = mReaders + 1
            /\ pc' = [pc EXCEPT ![t] = "held"]
            /\ UNCHANGED <<mQueue, mLocked>>
       ELSE TakeOrSleep(t, "RP", Append(mQueue, t))

(* mutant: a priority reader joins whoever holds the lock *)
lock_shared_any(t) ==
    /\ pc[t] = "idle"
    /\ kind' = [kind EXCEPT ![t] = "RP"]
    /\ IF mLocked
       THEN /\ mReaders' = mReaders + 1
            /\ pc' = [pc EXCEPT ![t] = "held"]
            /\ UNCHANGED <<mQueue, mLocked>>
       ELSE TakeOrSleep(t, "RP", <<t>> \o mQueue)

(* lock_shared(true) joins the readers there are, or the front of the queue *)
lock_shared_priority(t) ==
    /\ pc[t] = "idle"
    /\ kind' = [kind EXCEPT ![t] = "RP"]
    /\ IF mReaders > 0
       THEN /\ mReaders' = mReaders + 1
            /\ pc' = [pc EXCEPT ![t] = "held"]
            /\ UNCHANGED <<mQueue, mLocked>>
       ELSE TakeOrSleep(t, "RP", <<t>> \o mQueue)

(* a woken waiter has mMutex again and tests its condition *)
Resume(t) ==
    /\ pc[t] = "awake"
    /\ TakeOrSleep(t, kind[t], mQueue)
    /\ UNCHANGED kind

(* a condition variable may wake a waiter nobody notified *)
SpuriousWake(t) ==
    /\ pc[t] = "asleep"
    /\ pc' = [pc EXCEPT ![t] = "awake"]
    /\ UNCHANGED <<mQueue, mReaders, mLocked, kind>>

(* mutant: a reader that is not the last one notifies nobody, and neither does
   the last *)
unlock_shared_silent(t) ==
    /\ pc[t] = "held" /\ kind[t] # "W"
    /\ mReaders' = mReaders - 1
    /\ mLocked' = IF mReaders' = 0 THEN FALSE ELSE mLocked
    /\ pc' = [pc EXCEPT ![t] = "idle"]
    /\ UNCHANGED <<mQueue, kind>>

unlock(t) ==
    /\ pc[t] = "held" /\ kind[t] = "W"
    /\ mLocked' = FALSE
    /\ pc' = notify_all([pc EXCEPT ![t] = "idle"], mQueue)
    /\ UNCHANGED <<mQueue, mReaders, kind>>

unlock_shared(t) ==
    /\ pc[t] = "held" /\ kind[t] # "W"
    /\ mReaders' = mReaders - 1
    /\ mLocked' = IF mReaders' = 0 THEN FALSE ELSE mLocked
    /\ pc' = notify_all([pc EXCEPT ![t] = "idle"], mQueue)
    /\ UNCHANGED <<mQueue, kind>>

Next == \E t \in Threads :
    \/ try_lock(t)
    \/ lock(t)
    \/ lock_shared(t)
    \/ lock_shared_priority(t)
    \/ Resume(t)
    \/ SpuriousWake(t)
    \/ unlock(t)
    \/ unlock_shared(t)

(* A woken thread gets mMutex in the end, and a holder gives the lock back;
   nobody has to ask for the lock. *)
Fairness == \A t \in Threads :
    WF_vars(Resume(t)) /\ WF_vars(unlock(t)) /\ WF_vars(unlock_shared(t))

Spec == Init /\ [][Next]_vars
FairSpec == Spec /\ Fairness

-----------------------------------------------------------------------------
Holding(k) == {t \in Threads : pc[t] = "held" /\ kind[t] \in k}
Readers == Holding({"R", "RP"})
Writers == Holding({"W"})

(* A writer holds the lock alone, and mReaders and mLocked tell the truth about
   who holds it: a reader counted twice or a lock left set would block every
   later caller (SharedMutex.hpp:20-87). *)
MutualExclusion ==
    /\ \A w \in Writers : Writers = {w} /\ Readers = {}
    /\ mReaders = Cardinality(Readers)
    /\ mLocked <=> Writers \cup Readers # {}

(* No wake-up is lost: the waiter at the front never sleeps while the lock is
   free for it.  Every path that frees the lock or moves the front of the queue
   has to notify (SharedMutex.hpp:51,75,85) except lock(), which need not. *)
NoLostWakeup ==
    mQueue # <<>> /\ Free(kind[Head(mQueue)]) => pc[Head(mQueue)] # "asleep"

(* The lock is the readers-priority, otherwise first-come-first-served lock of
   the class comment (SharedMutex.hpp:12-16): the priority readers that wait are
   before everybody else in the queue, and what is behind them is the line. *)
HurriedPlaces(queue, k) == {i \in 1 .. Len(queue) : k[queue[i]] = "RP"}
FairLine(queue, k) ==
    LET n == Cardinality(HurriedPlaces(queue, k))
    IN  [i \in 1 .. Len(queue) - n |-> <<queue[i + n], k[queue[i + n]]>>]
HeldBy(p, k) == [t \in Threads |-> IF p[t] = "held" THEN k[t] ELSE "none"]
HurriedOf(p, k) == {t \in Threads : p[t] \in Waiting /\ k[t] = "RP"}
Lock == INSTANCE FairRWLock WITH
    held <- HeldBy(pc, kind), line <- FairLine(mQueue, kind), hurried <- HurriedOf(pc, kind)
ImplementsFairRWLock == Lock!Spec

(* The queue is fair to writers and to plain readers: whoever waits gets the
   lock, unless priority readers keep taking it for ever. *)
EveryWaiterServed == \A t \in Threads :
    \/ pc[t] \in Waiting ~> pc[t] = "held"
    \/ []<>(Holding({"RP"}) # {})

(* A priority reader gets the lock however many other priority readers push in
   before it (SharedMutex.hpp:64-65 puts each new one at the very front). *)
PriorityReaderServed == \A t \in Threads :
    pc[t] \in Waiting /\ kind[t] = "RP" ~> pc[t] = "held"
=============================================================================
