------------------------------- MODULE Memory -------------------------------
(* The memory of pages: CachingAllocator keeps what is freed, in the order of freeing, and
   serves from it, splitting what is too large; the rest comes from and goes to the
   operating system in MemoryAllocator.  A Page owns one range and is resized by a move. *)
EXTENDS Integers, Sequences, FiniteSets, FiniteSetsExt, SequencesExt

CONSTANTS
    MemThreads,
    mBaseline,      \* memory pages in use when evictions stop
    MaxPages,       \* bound on a page's size, in memory pages
    MaxAlloc,       \* bound on what is allocated at a time
    OsPages         \* bound on what the system gives

VARIABLES
    owned,          \* ranges [first, count] that pages own
    mFreeQueue,     \* freed ranges, the last one first
    mapped,         \* memory pages that the system has given
    mCurAlloc, mMaxAlloc, mCurFree,
    task            \* what each thread is doing

memVars == <<owned, mFreeQueue, mapped, mCurAlloc, mMaxAlloc, mCurFree, task>>

Span(first, count) == [first |-> first, count |-> count]
PagesOf(r) == r.first .. r.first + r.count - 1
Total(ranges) == MapThenSumSet(LAMBDA r : r.count, ranges)
Nothing == Span(0, 0)

(* mFreeLists.lower_bound(): of the smallest size that is enough, the range freed last *)
Fits(n) == {i \in DOMAIN mFreeQueue : mFreeQueue[i].count >= n}
Fit(n) == CHOOSE i \in Fits(n) : \A j \in Fits(n) :
    \/ mFreeQueue[i].count < mFreeQueue[j].count
    \/ mFreeQueue[i].count = mFreeQueue[j].count /\ i <= j

(* mutant of Split: the rest begins where the range did *)
SplitSame(r, n) == IF r.count = n THEN <<>> ELSE <<Span(r.first, r.count - n)>>

Split(r, n) == IF r.count = n THEN <<>> ELSE <<Span(r.first + n, r.count - n)>>

(* the thread has the range: a new page's, or a resized one's, which lets the old go *)
Has(t, r, old) ==
    /\ owned' = owned \cup {r}
    /\ task' = [task EXCEPT ![t] = IF old = Nothing THEN [at |-> "idle"]
                                   ELSE [at |-> "free", range |-> old]]

(* alloc(), under the mutex.  Page(): old is Nothing; Page::resize(): the page's range *)
Alloc(t, n, old) ==
    /\ mCurAlloc' = mCurAlloc + n
    /\ mMaxAlloc' = IF mCurAlloc' > mMaxAlloc THEN mCurAlloc' ELSE mMaxAlloc
    /\ IF Fits(n) = {}
       THEN /\ task' = [task EXCEPT ![t] = [at |-> "map", count |-> n, old |-> old]]
            /\ UNCHANGED <<owned, mFreeQueue, mCurFree>>
       ELSE LET r == mFreeQueue[Fit(n)]
            IN  /\ mFreeQueue' = Split(r, n) \o RemoveAt(mFreeQueue, Fit(n))
                /\ mCurFree' = mCurFree - n
                /\ Has(t, Span(r.first, n), old)
    /\ UNCHANGED mapped

(* MemoryAllocator::alloc(), without the mutex *)
Map(t) ==
    /\ task[t].at = "map"
    /\ \E first \in 1 .. OsPages - task[t].count + 1 :
         LET r == Span(first, task[t].count)
         IN  /\ PagesOf(r) \cap mapped = {}
             /\ mapped' = mapped \cup PagesOf(r)
             /\ Has(t, r, task[t].old)
    /\ UNCHANGED <<mFreeQueue, mCurAlloc, mMaxAlloc, mCurFree>>

(* pop_last_entry() while the free pool is over its limit, an unsigned difference: below
   the baseline there is none *)
OverLimit(free) == mMaxAlloc >= mBaseline /\ free > mMaxAlloc - mBaseline

Kept(queue) ==
    CHOOSE k \in 0 .. Len(queue) :
        /\ ~OverLimit(Total({queue[i] : i \in 1 .. k}))
        /\ k = Len(queue) \/ OverLimit(Total({queue[i] : i \in 1 .. k + 1}))

(* MemoryAllocator::free() *)
Unmapped(gone) == mapped \ UNION {PagesOf(g) : g \in gone}

free(t, r) ==
    LET queue == <<r>> \o mFreeQueue
        gone == {queue[i] : i \in Kept(queue) + 1 .. Len(queue)}
    IN  /\ owned' = owned \ {r}
        /\ mFreeQueue' = SubSeq(queue, 1, Kept(queue))
        /\ mapped' = Unmapped(gone)
        /\ mCurFree' = mCurFree + r.count - Total(gone)
        /\ mCurAlloc' = mCurAlloc - r.count
        /\ task' = [task EXCEPT ![t] = [at |-> "idle"]]
        /\ UNCHANGED mMaxAlloc

(* a page that no other thread is working on *)
Mine(r) == \A t \in MemThreads :
    /\ task[t].at = "map" => task[t].old # r
    /\ task[t].at = "free" => task[t].range # r

NewPage(t) ==
    /\ task[t].at = "idle"
    /\ \E n \in 1 .. MaxPages : mCurAlloc + n <= MaxAlloc /\ Alloc(t, n, Nothing)

resize(t) ==
    /\ task[t].at = "idle"
    /\ \E r \in owned, n \in 0 .. MaxPages :
         /\ Mine(r) /\ n # r.count /\ mCurAlloc + n <= MaxAlloc
         /\ IF n = 0 THEN free(t, r) ELSE Alloc(t, n, r)

DropPage(t) == task[t].at = "idle" /\ \E r \in owned : Mine(r) /\ free(t, r)

FreeOld(t) == task[t].at = "free" /\ free(t, task[t].range)

MemInit ==
    /\ owned = {} /\ mFreeQueue = <<>> /\ mapped = {}
    /\ mCurAlloc = 0 /\ mMaxAlloc = 0 /\ mCurFree = 0
    /\ task = [t \in MemThreads |-> [at |-> "idle"]]

MemNext == \E t \in MemThreads : NewPage(t) \/ resize(t) \/ DropPage(t) \/ Map(t) \/ FreeOld(t)

(* Whatever is split, recycled and given back by two threads at once, no memory is owned
   twice, none is lost, and the sums by which the free pool is limited are true (alloc,
   free, add_entry, pop_last_entry). *)
MemoryIsWhole ==
    LET idle == {mFreeQueue[i] : i \in DOMAIN mFreeQueue}
        coming == MapThenSumSet(LAMBDA t : IF task[t].at = "map" THEN task[t].count ELSE 0,
                                MemThreads)
    IN  /\ UNION {PagesOf(r) : r \in owned \cup idle} = mapped
        /\ Cardinality(mapped) = Total(owned) + mCurFree
        /\ mCurFree = Total(idle)
        /\ mCurAlloc = Total(owned) + coming
=============================================================================
