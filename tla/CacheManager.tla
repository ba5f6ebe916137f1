---------------------------- MODULE CacheManager ----------------------------
(***************************************************************************)
(* The cache manager keeps the pages of all files within a limit of memory, *)
(* and dirty pages within a limit of their own.  For each limit it has a    *)
(* queue of pages, the most recently used first, a thread that frees pages  *)
(* from the back, and callers that wait for it.  Evicting and flushing are  *)
(* the same code but for the details, so the two are told apart by a kind.  *)
(*                                                                          *)
(* The other half of the state is the files': pages in memory and the       *)
(* file's lock, which callers hold while they wait for memory, and cleanup  *)
(* threads need.  What runs under mMutex, or under a file's write lock with *)
(* only that file's pages, is one step.  A page's size is its capacity.     *)
(***************************************************************************)
EXTENDS Naturals, Sequences, FiniteSets

CONSTANTS
    Callers,     \* threads that use files: FUSE calls and fetch threads
    Pages,       \* <<file, index>>
    MaxPageSize, \* the largest capacity of a page
    memoryLimit, margin,    \* CacheOptions, and memoryLimit/evictSizeFrac
    DirtyLimits, \* what the bandwidth measurement can make of mDirtyLimit
    Ahead,       \* whether fetch threads run ahead of readers, or one waits for each
    GrowDirty,   \* whether a write may make a page larger that is dirty already
    MaxCalls,    \* bound: calls, in all
    None

ASSUME CacheSizesAssumption ==
    /\ MaxPageSize \in Nat \ {0} /\ memoryLimit \in Nat /\ margin \in 0 .. memoryLimit
    /\ DirtyLimits \subseteq Nat /\ DirtyLimits # {} /\ MaxCalls \in Nat
ASSUME PagesAssumption == \A p \in Pages : p = <<p[1], p[2]>> /\ p[2] \in Nat
ASSUME AheadAssumption == Ahead \in BOOLEAN /\ GrowDirty \in BOOLEAN

File(p) == p[1]
Files == {File(p) : p \in Pages}
Kinds == {"evict", "flush"}
Ops == {"write", "resize", "zero", "read", "fetch", "drop", "sync", "delete"}

VARIABLES
    page,       \* the files' pages: size (0: not in memory) and dirty
    wlock, rlock, \* the files' locks: one writer, or a number of readers
    queue,      \* queue["evict"] is mPageQueue, queue["flush"] mDirtyQueue
    mDirtyLimit,
    failure,    \* mEvictFailure, mFlushFailure
    skipWait,   \* mSkipEvictWait, mSkipFlushWait
    cachePc,    \* where each caller and cleanup thread is
    job,        \* a caller's operation
    work,       \* what a cleanup thread has still to clean
    deleting,   \* files whose PageManager is being destructed
    calls,      \* calls so far
    cacheAborted \* the behaviour of the program is undefined from here on

pageVars == <<page, wlock, rlock>>
cacheVars == <<queue, mDirtyLimit, failure, skipWait>>
managerVars == <<page, wlock, rlock, queue, mDirtyLimit, failure, skipWait, cachePc, job, work,
                 deleting, calls, cacheAborted>>

NoJob == [op |-> "none", page |-> None, old |-> 0, kind |-> "evict"]
NoWork == [files |-> {}, unscoped |-> {}, pages |-> <<>>, file |-> None]
Entries == [page : Pages, size : 1 .. MaxPageSize]
Threads == Callers \cup Kinds
ASSUME ThreadsAssumption == Callers \cap Kinds = {} /\ None \notin Threads

-----------------------------------------------------------------------------
(* The queues.  mCurrentTotal and mCurrentDirty are the sums of their sizes. *)
Total(q) == LET sum[n \in 0 .. Len(q)] == IF n = 0 THEN 0 ELSE sum[n - 1] + q[n].size
            IN  sum[Len(q)]
Limit(k) == IF k = "evict" THEN memoryLimit ELSE mDirtyLimit
OverIn(q, k) == Total(q[k]) > Limit(k)    \* ShouldEvict(), ShouldFlush()
Over(k) == OverIn(queue, k)
Omitting(q, ps) ==
    LET kept[n \in 0 .. Len(q)] == IF n = 0 THEN <<>>
                                   ELSE IF q[n].page \in ps THEN kept[n - 1]
                                   ELSE Append(kept[n - 1], q[n])
    IN  kept[Len(q)]
SizeOf(q, p) == LET at == {i \in 1 .. Len(q) : q[i].page = p}
                IN  IF at = {} THEN 0 ELSE q[CHOOSE i \in at : TRUE].size
SizeIn(k, p) == SizeOf(queue[k], p)

RemovePages(ps) == [k \in Kinds |-> Omitting(queue[k], ps)]
RemoveDirty(ps) == [queue EXCEPT !["flush"] = Omitting(@, ps)]
(* to the front, from wherever it was *)
EnqueuePage(p, size, dirty) == [k \in Kinds |->
    (IF k = "evict" \/ dirty THEN <<[page |-> p, size |-> size]>> ELSE <<>>)
    \o Omitting(queue[k], {p})]
ResizeIn(q, p, size) == [i \in DOMAIN q |-> IF q[i].page = p THEN [q[i] EXCEPT !.size = size] ELSE q[i]]

Absent == [size |-> 0, dirty |-> FALSE]

(* GetWriteList(): the dirty pages that follow each other from p on *)
Run(p) == {q \in Pages : /\ File(q) = File(p) /\ q[2] >= p[2]
                         /\ \A i \in p[2] .. q[2] : page[<<File(p), i>>].dirty}
Cleaned(ps) == [p \in Pages |-> IF p \in ps THEN [page[p] EXCEPT !.dirty = FALSE] ELSE page[p]]

(* PageManager::EvictPage() and FlushPage(), when the backend does not fail *)
PageEvicted(p) ==
    /\ page' = [Cleaned(IF page[p].dirty THEN Run(p) ELSE {}) EXCEPT ![p] = Absent]
    /\ queue' = LET q == IF page[p].dirty THEN RemoveDirty(Run(p)) ELSE queue
                IN  IF page[p].size = 0 THEN q ELSE [k \in Kinds |-> Omitting(q[k], {p})]
    /\ UNCHANGED mDirtyLimit

PageFlushed(p) ==
    /\ page' = Cleaned(IF page[p].dirty THEN Run(p) ELSE {})
    /\ queue' = IF page[p].size = 0 THEN queue
                ELSE RemoveDirty(IF page[p].dirty THEN Run(p) ELSE {p})
    /\ mDirtyLimit' \in DirtyLimits

Clean(k, p) == IF k = "evict" THEN PageEvicted(p) ELSE PageFlushed(p)

(* threads that are woken: the cleanup thread of kind k, and those waiting for it *)
NotifyThread(p, k) == [p EXCEPT ![k] = IF @ = "asleep" THEN "check" ELSE @]
NotifyWaiters(p, ks) == [t \in Threads |->
    IF t \in Callers /\ p[t] = "asleep" /\ job[t].kind \in ks THEN "awake" ELSE p[t]]

Unlocked(f) == wlock[f] = None /\ rlock[f] = {}
Unlock(t) ==
    /\ wlock' = [f \in Files |-> IF wlock[f] = t THEN None ELSE wlock[f]]
    /\ rlock' = [f \in Files |-> rlock[f] \ {t}]

-----------------------------------------------------------------------------
(* Callers *)
Using(f, ops) == {c \in Callers : job[c].op \in ops /\ File(job[c].page) = f}

(* A file that is deleted has no users left but fetch threads, and gets no new ones.
   A page is fetched once (mPendingPages), for a reader that keeps the file's lock
   unless the thread runs ahead. *)
Begin(c) ==
    /\ cachePc[c] = "idle"
    /\ calls < MaxCalls /\ calls' = calls + 1
    /\ \E op \in Ops, p \in Pages :
         /\ Using(File(p), {"delete"}) = {}
         /\ op = "delete" => Using(File(p), Ops \ {"fetch"}) = {}
         /\ op \in {"sync", "delete"} => p[2] = 0
         /\ op = "fetch" => page[p].size = 0 /\ wlock[File(p)] = None
                            /\ \A d \in Using(File(p), {"fetch"}) : job[d].page # p
         /\ rlock' = [rlock EXCEPT ![File(p)] = IF op = "fetch" /\ ~Ahead THEN @ \cup {c} ELSE @]
         /\ job' = [job EXCEPT ![c] = [NoJob EXCEPT !.op = op, !.page = p]]
         /\ cachePc' = [cachePc EXCEPT ![c] = IF op = "delete" THEN "scope" ELSE "lock"]
    /\ UNCHANGED <<page, wlock, cacheVars, work, deleting, cacheAborted>>

Exclusive == {"write", "resize", "drop", "sync"}    \* the operations that write

(* A reader has mPagesMutex while it waits for memory, and in its catch block. *)
PagesMutexFree(f) == \A c \in rlock[f] : cachePc[c] \in {"lock", "done"}

(* The caller has the file's lock, and its page is there, or is not. *)
Locked(c, op, present) ==
    LET p == job[c].page IN
    /\ cachePc[c] = "lock" /\ job[c].op = op
    /\ IF op \in Exclusive THEN Unlocked(File(p))
       ELSE wlock[File(p)] = None /\ PagesMutexFree(File(p))
    /\ present = (page[p].size > 0)

Hold(c) ==
    LET f == File(job[c].page) IN
    IF job[c].op \in Exclusive THEN wlock' = [wlock EXCEPT ![f] = c] /\ UNCHANGED rlock
    ELSE rlock' = [rlock EXCEPT ![f] = @ \cup {c}] /\ UNCHANGED wlock

Return(c, p) == cachePc' = [p EXCEPT ![c] = "idle"] /\ job' = [job EXCEPT ![c] = NoJob]

-----------------------------------------------------------------------------
(* Memory is found under mMutex, from the test of the limit to the wait.  What comes of
   it is a record: the queues, where the caller goes on, what for, and which failures
   have been cleared. *)
Outcome(q, step, k) == [queue |-> q, step |-> step, kind |-> k, cleared |-> {}]

(* mutant of ShouldSkipWait: each wait looks at its own thread only *)
ShouldSkipWaitOwn(c, k) == skipWait[k] = File(job[c].page)

(* a cleanup thread of either kind may be waiting for the lock this caller holds *)
ShouldSkipWait(c, k) == \E any \in Kinds : skipWait[any] = File(job[c].page)

(* the test of a wait loop, with what follows when there is enough memory *)
Test(c, k, q, failed, enough) ==
    IF ~OverIn(q, k) \/ (~failed /\ ShouldSkipWait(c, k)) THEN enough
    ELSE Outcome(q, IF failed THEN "failed" ELSE "asleep", k)

(* HandleMemory(), HandleDirtyMemory() for a caller that can wait: with the file's write
   lock it cleans pages of the file itself while they are the last in the queue. *)
Handle(c, k, q, enough) ==
    LET p == job[c].page
        last == q[k][Len(q[k])].page
    IN  IF /\ job[c].op \in Exclusive /\ OverIn(q, k)
           /\ File(last) = File(p) /\ last # p
        THEN Outcome(q, "free", k)
        ELSE [Test(c, k, q, FALSE, enough) EXCEPT !.cleared = @ \cup {k}]

HandleDirty(c, q) == Handle(c, "flush", q, Outcome(q, "done", "flush"))

(* With the memory there, a page that is or will be dirty needs dirty memory as well;
   a resized page if it has grown. *)
AfterEvict(c, q, size) ==
    LET p == job[c].page
        resized == [q EXCEPT !["flush"] = ResizeIn(@, p, size)]
    IN  IF job[c].op = "resize"
        THEN IF SizeIn("flush", p) \in 1 .. size - 1 THEN HandleDirty(c, resized)
             ELSE Outcome(resized, "done", "flush")
        ELSE IF job[c].op = "write" \/ page[p].dirty THEN HandleDirty(c, q)
        ELSE Outcome(q, "done", "flush")

HandleEvict(c, q, size) == Handle(c, "evict", q, AfterEvict(c, q, size))

Become(c, o, old) ==
    /\ queue' = o.queue
    /\ failure' = [k \in Kinds |-> failure[k] /\ k \notin o.cleared]
    /\ cachePc' = IF o.step = "asleep" THEN NotifyThread([cachePc EXCEPT ![c] = "asleep"], o.kind)
             ELSE [cachePc EXCEPT ![c] = o.step]
    /\ job' = [job EXCEPT ![c].kind = o.kind, ![c].old = old]

(* InformPage() by a caller that can wait: more memory in use has to be paid for *)
InformPage(c, size, dirty) ==
    LET p == job[c].page
        q == EnqueuePage(p, size, dirty)
    IN  Become(c, IF size > SizeIn("evict", p) THEN HandleEvict(c, q, size)
                  ELSE Outcome(q, "done", "flush"), page[p].size)

-----------------------------------------------------------------------------
(* What callers do with the file's lock *)
(* GetPageWrite(): a new page, or one that may grow *)
Write(c) ==
    LET p == job[c].page IN
    /\ Locked(c, "write", page[p].size > 0)
    /\ Hold(c)
    /\ \E size \in 1 .. MaxPageSize :
         /\ size >= page[p].size
         /\ page[p].dirty /\ size > page[p].size => GrowDirty
         /\ page' = [page EXCEPT ![p].size = size]
         /\ InformPage(c, size, TRUE)
    /\ UNCHANGED <<mDirtyLimit, skipWait, work, deleting, calls, cacheAborted>>

(* GetPageRead(): a page that nobody wrote, before one that somebody did *)
ReadZero(c) ==
    /\ Locked(c, "zero", FALSE)
    /\ Hold(c)
    /\ page' = [page EXCEPT ![job[c].page].size = MaxPageSize]
    /\ InformPage(c, MaxPageSize, FALSE)
    /\ UNCHANGED <<mDirtyLimit, skipWait, work, deleting, calls, cacheAborted>>

(* GetPageRead() of a page in memory *)
Read(c) ==
    LET p == job[c].page IN
    /\ Locked(c, "read", TRUE)
    /\ Hold(c)
    /\ InformPage(c, page[p].size, page[p].dirty)
    /\ UNCHANGED <<page, mDirtyLimit, skipWait, work, deleting, calls, cacheAborted>>

(* A fetch thread puts in a page, unless it is there already, and never waits. *)
FetchPage(c) ==
    LET p == job[c].page
        size == IF page[p].size > 0 THEN page[p].size ELSE MaxPageSize
    IN  /\ Locked(c, "fetch", page[p].size > 0)
        /\ page' = [page EXCEPT ![p].size = size]
        /\ queue' = EnqueuePage(p, size, FALSE)
        /\ Return(c, IF size > SizeIn("evict", p) /\ OverIn(queue', "evict")
                     THEN NotifyThread(cachePc, "evict") ELSE cachePc)
        /\ Unlock(c)
        /\ UNCHANGED <<mDirtyLimit, failure, skipWait, work, deleting, calls, cacheAborted>>

(* Truncate() and RemoteChanged(): a page is removed *)
Drop(c) ==
    LET p == job[c].page IN
    /\ Locked(c, "drop", TRUE)
    /\ page' = [page EXCEPT ![p] = Absent]
    /\ queue' = RemovePages({p})
    /\ Return(c, cachePc)
    /\ UNCHANGED <<wlock, rlock, mDirtyLimit, failure, skipWait, work, deleting, calls, cacheAborted>>

(* FlushPages(): one run of dirty pages after another, until one fails *)
Sync(c) ==
    LET f == File(job[c].page)
        dirty == {p \in Pages : File(p) = f /\ page[p].dirty}
    IN  /\ Locked(c, "sync", page[job[c].page].size > 0)
        /\ \E done \in {{}} \cup {UNION {Run(q) : q \in {r \in dirty : r[2] <= p[2]}} : p \in dirty} :
             page' = Cleaned(done) /\ queue' = RemoveDirty(done)
        /\ Return(c, cachePc)
        /\ UNCHANGED <<wlock, rlock, mDirtyLimit, failure, skipWait, work, deleting, calls, cacheAborted>>

(* the page is there, or not, contrary to what the operation is for *)
Nothing(c) ==
    /\ \/ Locked(c, "zero", TRUE)
       \/ \E op \in {"read", "resize", "drop"} : Locked(c, op, FALSE)
    /\ Return(c, cachePc)
    /\ UNCHANGED <<pageVars, cacheVars, work, deleting, calls, cacheAborted>>

(* ResizePage(), by Truncate() and for an old last page: the new size is counted in one
   queue and paid for, then in the other *)
ResizePage(c) ==
    LET p == job[c].page IN
    /\ Locked(c, "resize", TRUE)
    /\ Hold(c)
    /\ \E size \in 1 .. MaxPageSize :
         LET q == [queue EXCEPT !["evict"] = ResizeIn(@, p, size)] IN
         /\ page' = [page EXCEPT ![p].size = size]
         /\ Become(c, IF SizeIn("evict", p) \in 1 .. size - 1 THEN HandleEvict(c, q, size)
                      ELSE AfterEvict(c, q, size), page[p].size)
    /\ UNCHANGED <<mDirtyLimit, skipWait, work, deleting, calls, cacheAborted>>

(* mMutex is let go while the last page is evicted or flushed. *)
Free(c) ==
    LET k == job[c].kind
        p == queue[k][Len(queue[k])].page
    IN  /\ cachePc[c] = "free"
        /\ \/ Clean(k, p) /\ cachePc' = [cachePc EXCEPT ![c] = "retest"]
           \/ /\ page[p].dirty /\ cachePc' = [cachePc EXCEPT ![c] = "failed"]    \* BackendException
              /\ UNCHANGED <<page, queue, mDirtyLimit>>
        /\ UNCHANGED <<wlock, rlock, failure, skipWait, job, work, deleting, calls, cacheAborted>>

Enough(c) == IF job[c].kind = "evict" THEN AfterEvict(c, queue, page[job[c].page].size)
             ELSE Outcome(queue, "done", "flush")

Resume(c, o) ==
    /\ Become(c, o, job[c].old)
    /\ UNCHANGED <<pageVars, mDirtyLimit, skipWait, work, deleting, calls, cacheAborted>>

Retest(c) == cachePc[c] = "retest" /\ Resume(c, Handle(c, job[c].kind, queue, Enough(c)))
Wake(c) == cachePc[c] = "awake" /\
    Resume(c, Test(c, job[c].kind, queue, failure[job[c].kind], Enough(c)))

Done(c) ==
    /\ cachePc[c] = "done"
    /\ page' = [page EXCEPT ![job[c].page].dirty = @ \/ job[c].op = "write"]
    /\ Unlock(c)
    /\ Return(c, cachePc)
    /\ UNCHANGED <<cacheVars, work, deleting, calls, cacheAborted>>

(* mutant of Undo: a page that got no memory stays in the queues *)
UndoForgets(p, size) ==
    /\ page' = IF size = 0 THEN [page EXCEPT ![p] = Absent] ELSE [page EXCEPT ![p].size = size]
    /\ UNCHANGED queue

(* a page that was made is removed again, and one that was there gets its old size *)
Undo(p, size) ==
    IF size = 0
    THEN page' = [page EXCEPT ![p] = Absent] /\ queue' = RemovePages({p})
    ELSE /\ page' = [page EXCEPT ![p].size = size]
         /\ queue' = [k \in Kinds |-> ResizeIn(queue[k], p, size)]

(* a BackendException or MemoryException *)
Failed(c) ==
    /\ cachePc[c] = "failed"
    /\ IF job[c].op = "read" THEN UNCHANGED <<page, queue>> ELSE Undo(job[c].page, job[c].old)
    /\ Unlock(c)
    /\ Return(c, cachePc)
    /\ UNCHANGED <<mDirtyLimit, failure, skipWait, work, deleting, calls, cacheAborted>>

-----------------------------------------------------------------------------
(* ~PageManager() *)
DeleteScope(c) ==
    LET f == File(job[c].page) IN
    /\ cachePc[c] = "scope"
    /\ \A k \in Kinds : f \notin work[k].files
    /\ deleting' = deleting \cup {f}
    /\ cachePc' = [cachePc EXCEPT ![c] = "remove"]
    /\ UNCHANGED <<pageVars, cacheVars, job, work, calls, cacheAborted>>

DeletePage(c) ==
    LET f == File(job[c].page) IN
    /\ cachePc[c] = "remove"
    /\ Using(f, {"fetch"}) = {}
    /\ \E p \in Pages :
         /\ File(p) = f /\ page[p].size > 0
         /\ page' = [page EXCEPT ![p] = Absent]
         /\ queue' = RemovePages({p})
    /\ UNCHANGED <<wlock, rlock, mDirtyLimit, failure, skipWait, cachePc, job, work, deleting, calls, cacheAborted>>

Deleted(c) ==
    LET f == File(job[c].page) IN
    /\ cachePc[c] = "remove"
    /\ Using(f, {"fetch"}) = {}
    /\ \A p \in Pages : File(p) = f => page[p].size = 0
    /\ deleting' = deleting \ {f}
    /\ cacheAborted' = (wlock[f] # None)    \* destructed with its lock held
    /\ Return(c, cachePc)
    /\ UNCHANGED <<pageVars, cacheVars, work, calls>>

-----------------------------------------------------------------------------
(* The cleanup threads *)
Go(k, step) == cachePc' = [cachePc EXCEPT ![k] = step]

CheckLimit(k) ==
    /\ cachePc[k] = "check"
    /\ IF ~Over(k) \/ failure[k]
       THEN cachePc' = NotifyWaiters([cachePc EXCEPT ![k] = "asleep"], {k})
       ELSE Go(k, "collect")
    /\ UNCHANGED <<pageVars, cacheVars, job, work, deleting, calls, cacheAborted>>

(* The walk from the back of the queue after n steps, as it is in DoPageEvictions() and
   DoPageFlushes().  An entry whose file is being destructed is erased under the
   iterator, which goes on to the one after next. *)
Wanted(k, s) == s.total + (IF k = "evict" THEN margin ELSE 0) > Limit(k) + s.cleaned
Walk(k) ==
    LET walk[n \in 0 .. Len(queue[k])] ==
          IF n = 0 THEN [at |-> Len(queue[k]), total |-> Total(queue[k]), cleaned |-> 0,
                         taken |-> <<>>, erased |-> {}]
          ELSE LET s == walk[n - 1]
                   e == queue[k][s.at]
               IN  IF s.at < 1 \/ ~Wanted(k, s) THEN s
                   ELSE IF File(e.page) \in deleting
                   THEN [s EXCEPT !.at = IF @ = 1 THEN 0 ELSE @ - 2, !.total = @ - e.size,
                                  !.erased = @ \cup {e.page}]
                   ELSE [s EXCEPT !.at = @ - 1, !.cleaned = @ + e.size, !.taken = Append(@, e)]
    IN  walk[Len(queue[k])]

Collect(k) ==
    LET s == Walk(k) IN
    /\ cachePc[k] = "collect"
    /\ queue' = RemovePages(s.erased)
    /\ work' = [work EXCEPT ![k] =
           [NoWork EXCEPT !.files = {File(s.taken[i].page) : i \in DOMAIN s.taken}, !.pages = s.taken,
                          !.unscoped = {File(p) : p \in s.erased}]]
    /\ cacheAborted' = (s.at < 1 /\ Wanted(k, s))
    /\ Go(k, "next")
    /\ UNCHANGED <<pageVars, mDirtyLimit, failure, skipWait, job, deleting, calls>>

(* GetPageManagerLock(): whoever waits for memory with the file locked may go on *)
NextFile(k) ==
    /\ cachePc[k] = "next"
    /\ \E f \in work[k].files :
         /\ skipWait' = [skipWait EXCEPT ![k] = f]
         /\ work' = [work EXCEPT ![k].file = f]
         /\ cachePc' = NotifyWaiters([cachePc EXCEPT ![k] = "locking"], Kinds)
    /\ UNCHANGED <<pageVars, queue, mDirtyLimit, failure, job, deleting, calls, cacheAborted>>

(* the same for a file whose scope lock it did not get *)
NextUnscoped(k) ==
    /\ cachePc[k] = "next" /\ work[k].unscoped # {}
    /\ cacheAborted' = TRUE
    /\ UNCHANGED <<pageVars, cacheVars, cachePc, job, work, deleting, calls>>

AllFiles(k) ==
    /\ cachePc[k] = "next" /\ work[k].files \cup work[k].unscoped = {}
    /\ Go(k, "check")
    /\ UNCHANGED <<pageVars, cacheVars, job, work, deleting, calls, cacheAborted>>

LockManager(k) ==
    LET f == work[k].file IN
    /\ cachePc[k] = "locking"
    /\ Unlocked(f)
    /\ wlock' = [wlock EXCEPT ![f] = k]
    /\ skipWait' = [skipWait EXCEPT ![k] = None]
    /\ Go(k, "clean")
    /\ UNCHANGED <<page, rlock, queue, mDirtyLimit, failure, job, work, deleting, calls, cacheAborted>>

Mine(k) == Omitting(work[k].pages, {p \in Pages : File(p) # work[k].file})

CleanPage(k) ==
    LET p == Head(Mine(k)).page IN
    /\ cachePc[k] = "clean" /\ Mine(k) # <<>>
    /\ Clean(k, p)
    /\ work' = [work EXCEPT ![k].pages = Omitting(@, {p})]
    /\ UNCHANGED <<wlock, rlock, failure, skipWait, cachePc, job, deleting, calls, cacheAborted>>

(* A BackendException ends the round, and the thread stops until the failure is
   cleared.  A page that cannot be evicted goes to the front, unless it has been removed
   and made again since it was collected: then the queue has it by another address. *)
CleanFails(k) ==
    LET p == Head(Mine(k)).page IN
    /\ cachePc[k] = "clean" /\ Mine(k) # <<>> /\ page[p].dirty
    /\ \/ queue' = queue
       \/ k = "evict" /\ SizeIn(k, p) > 0 /\ queue' = EnqueuePage(p, page[p].size, TRUE)
    /\ failure' = [failure EXCEPT ![k] = TRUE]
    /\ cachePc' = NotifyWaiters([cachePc EXCEPT ![k] = "check"], {k})
    /\ Unlock(k)
    /\ work' = [work EXCEPT ![k] = NoWork]
    /\ UNCHANGED <<page, mDirtyLimit, skipWait, job, deleting, calls, cacheAborted>>

(* The entry is erased, and with it the scope lock, before the file's lock is let go. *)
FileDone(k) ==
    /\ cachePc[k] = "clean" /\ Mine(k) = <<>>
    /\ work' = [work EXCEPT ![k].files = @ \ {work[k].file}]
    /\ cachePc' = NotifyWaiters([cachePc EXCEPT ![k] = "unlock"], {k})
    /\ UNCHANGED <<pageVars, cacheVars, job, deleting, calls, cacheAborted>>

UnlockManager(k) ==
    /\ cachePc[k] = "unlock"
    /\ work' = [work EXCEPT ![k].file = None]
    /\ Unlock(k)
    /\ Go(k, "next")
    /\ UNCHANGED <<page, cacheVars, job, deleting, calls, cacheAborted>>

-----------------------------------------------------------------------------
CacheInit ==
    /\ page = [p \in Pages |-> Absent]
    /\ wlock = [f \in Files |-> None] /\ rlock = [f \in Files |-> {}]
    /\ queue = [k \in Kinds |-> <<>>] /\ mDirtyLimit = 0
    /\ failure = [k \in Kinds |-> FALSE] /\ skipWait = [k \in Kinds |-> None]
    /\ cachePc = [t \in Threads |-> IF t \in Kinds THEN "check" ELSE "idle"]
    /\ job = [c \in Callers |-> NoJob] /\ work = [k \in Kinds |-> NoWork]
    /\ deleting = {} /\ calls = 0 /\ cacheAborted = FALSE

CallerStep(c) ==
    \/ Write(c) \/ ReadZero(c) \/ Read(c) \/ FetchPage(c) \/ Drop(c) \/ Sync(c) \/ ResizePage(c)
    \/ Nothing(c)
    \/ Free(c) \/ Retest(c) \/ Wake(c) \/ Done(c) \/ Failed(c)
    \/ DeleteScope(c) \/ DeletePage(c) \/ Deleted(c)

ThreadStep(k) ==
    \/ CheckLimit(k) \/ Collect(k)
    \/ NextFile(k) \/ NextUnscoped(k) \/ AllFiles(k) \/ LockManager(k)
    \/ CleanPage(k) \/ CleanFails(k) \/ FileDone(k) \/ UnlockManager(k)

CacheNext ==
    /\ ~cacheAborted
    /\ \/ \E c \in Callers : Begin(c) \/ CallerStep(c)
       \/ \E k \in Kinds : ThreadStep(k)

CacheSpec == CacheInit /\ [][CacheNext]_managerVars

(* Every thread runs on.  Calls are bounded, so whoever waits for a lock gets it. *)
FairCacheSpec ==
    /\ CacheSpec
    /\ \A c \in Callers : WF_managerVars(~cacheAborted /\ CallerStep(c))
    /\ \A k \in Kinds : WF_managerVars(~cacheAborted /\ ThreadStep(k))
-----------------------------------------------------------------------------
(* The queues are the memory: what is in memory is queued with the size it has, what
   is dirty is queued to be flushed, and nothing is queued that has been destructed,
   whatever failed or was undone in between (EnqueuePage, ResizePage, RemovePage, the
   callers' catch blocks in PageManager).  Files are looked at between their uses. *)
Tracked == \A p \in Pages :
    /\ page[p].size = 0 => \A k \in Kinds : SizeIn(k, p) = 0
    /\ wlock[File(p)] = None /\ File(p) \notin deleting =>
         /\ SizeIn("evict", p) = page[p].size
         /\ SizeIn("flush", p) \in {page[p].size} \cup (IF page[p].dirty THEN {} ELSE {0})

(* No call waits for memory for ever: cleanup threads that need the lock of a file held
   by a waiting caller, failures and limits that change leave nobody asleep
   (HandleMemory, GetPageManagerLock, EvictThread, FlushThread). *)
CallsReturn == \A c \in Callers : cachePc[c] # "idle" ~> cachePc[c] = "idle" \/ cacheAborted
=============================================================================
