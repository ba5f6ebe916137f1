---------------------------- MODULE PageManager ----------------------------
(***************************************************************************)
(* A file's data in the client: PageManager caches it in pages, fetches     *)
(* missing pages on threads of their own and writes dirty ones back through *)
(* PageBackend, which also makes the file on the server when it is first    *)
(* needed there.                                                            *)
(*                                                                          *)
(* The file's lock is held shared by readers and fetch threads.  Whatever   *)
(* needs it exclusively is one step: nothing else can run in between.  The  *)
(* cache manager is whoever evicts and flushes pages.  The file may be      *)
(* written anywhere (WriteMode RANDOM) and a run of pages has no size limit.*)
(***************************************************************************)
EXTENDS Naturals, Sequences, FiniteSets, FiniteSetsExt

CONSTANTS
    Readers,
    PageSize, MaxSize,
    MaxFetch,    \* bound on mFetchSize
    ReadAhead,   \* ConfigOptions::readAheadBuffer
    InitialSize, \* of a file that is at the server already
    MaxChanges,  \* bound: writes, truncations and remote changes
    Faults       \* what else may happen: a change by another client while pages are
                 \* dirty, no memory for a page, a write stored but its answer lost

ASSUME SizesAssumption ==
    /\ PageSize \in Nat \ {0} /\ MaxSize \in Nat \ {0} /\ InitialSize \in 0 .. MaxSize
    /\ MaxFetch \in Nat \ {0} /\ ReadAhead \in Nat /\ MaxChanges \in Nat
ASSUME FaultsAssumption == Faults \subseteq {"remote", "memory", "lost"}

VARIABLES
    content,        \* what the file's users wrote to it: the file it should be
    server,         \* the file's data at the server
    mBackendExists, mBackendSize, mFileSize,
    mPages,         \* the pages in memory, by index
    mPendingPages,  \* ranges of pages being fetched: [first, count]
    mFailedPages,   \* pages whose fetch failed
    fetchers,       \* fetch threads
    pc, want,       \* readers, and the page each wants
    writerWaits,    \* somebody waits for the file's write lock
    changes,        \* changes so far: also the value the next one writes
    aborted         \* an assertion failed

fileVars == <<content, server, mBackendExists, mBackendSize, mFileSize>>
fetchVars == <<mPendingPages, mFailedPages, fetchers>>
readVars == <<pc, want>>
vars == <<content, server, mBackendExists, mBackendSize, mFileSize, mPages,
          mPendingPages, mFailedPages, fetchers, pc, want, writerWaits, changes, aborted>>

Smaller(a, b) == IF a < b THEN a ELSE b
Larger(a, b) == IF a > b THEN a ELSE b

(* page.resize(), with zeros for what is added *)
Resize(data, size) == [k \in 1 .. size |-> IF k <= Len(data) THEN data[k] ELSE 0]

(* data written over others, with zeros in a gap *)
WriteAt(old, start, data) ==
    [k \in 1 .. Larger(Len(old), start + Len(data)) |->
        IF k > start /\ k <= start + Len(data) THEN data[k - start]
        ELSE IF k <= Len(old) THEN old[k] ELSE 0]

Start(i) == i * PageSize
PageOf(k) == (k - 1) \div PageSize     \* of the k-th byte
LastPage(size) == PageOf(size)
Indexes == 0 .. LastPage(MaxSize)
DirtyPages(pages) == {i \in DOMAIN pages : pages[i].dirty}
SetPage(pages, i, page) == [j \in DOMAIN pages \cup {i} |-> IF j = i THEN page ELSE pages[j]]
Without(pages, gone) == [j \in DOMAIN pages \ gone |-> pages[j]]
SizedTo(page, size) == [page EXCEPT !.data = Resize(@, size)]

-----------------------------------------------------------------------------
(* Fetching.  A range is pending from StartFetch() until its thread has read it. *)
isFetchPending(i) == \E p \in mPendingPages : p.first <= i /\ i < p.first + p.count

(* GetFetchSize(): pages at the server, up to the next page that is there or
   pending, as many as mFetchSize happens to say *)
FetchSizes(i) ==
    {n \in 1 .. MaxFetch :
        /\ mBackendSize > 0 /\ i + n - 1 <= LastPage(mBackendSize)
        /\ i = 0 => n = 1
        /\ \A j \in i .. i + n - 1 : j \notin DOMAIN mPages /\ ~isFetchPending(j)}

StartFetch(i, n) ==
    /\ mPendingPages' = mPendingPages \cup {[first |-> i, count |-> n]}
    /\ mFailedPages' = mFailedPages \ (i .. i + n - 1)
    /\ fetchers' = fetchers \cup {[index |-> i, count |-> n, cur |-> i, locked |-> FALSE]}

(* DoAdvanceRead(): the first page ahead that can be fetched is *)
AdvanceRead(i) ==
    LET ahead == {j \in i + 1 .. i + ReadAhead :
                     i > 0 /\ Start(j) < mFileSize /\ FetchSizes(j) # {}}
    IN  IF ahead = {} THEN UNCHANGED fetchVars
        ELSE \E j \in ahead : /\ \A l \in ahead : j <= l
                              /\ \E n \in FetchSizes(j) : StartFetch(j, n)

(* A reader gets the file's lock, behind a waiting writer, and looks for its page. *)
GetPageRead(r) == \E i \in Indexes :
    /\ pc[r] = "idle" /\ ~writerWaits
    /\ Start(i) < mFileSize
    /\ want' = [want EXCEPT ![r] = i]
    /\ UNCHANGED <<fileVars, writerWaits, changes, aborted>>
    /\ \/ /\ i \in DOMAIN mPages
          /\ AdvanceRead(i)
          /\ pc' = [pc EXCEPT ![r] = "copy"]
          /\ UNCHANGED mPages
       \/ /\ i \notin DOMAIN mPages /\ isFetchPending(i)
          /\ pc' = [pc EXCEPT ![r] = "wait"]
          /\ UNCHANGED <<mPages, fetchVars>>
       \/ \* between the end at the server and a dirty write: an empty page
          /\ i \notin DOMAIN mPages /\ ~isFetchPending(i) /\ FetchSizes(i) = {}
          /\ mPages' = SetPage(mPages, i, [data |-> Resize(<<>>, PageSize), dirty |-> FALSE])
          /\ pc' = [pc EXCEPT ![r] = "copy"]
          /\ UNCHANGED fetchVars
       \/ /\ i \notin DOMAIN mPages /\ ~isFetchPending(i)
          /\ \E n \in FetchSizes(i) : StartFetch(i, n)
          /\ pc' = [pc EXCEPT ![r] = "wait"]
          /\ UNCHANGED mPages

(* the wait on mPagesCV ends when the page is there or its fetch has failed *)
Waited(r) ==
    /\ pc[r] = "wait"
    /\ \/ want[r] \in DOMAIN mPages /\ pc' = [pc EXCEPT ![r] = "copy"]
       \/ /\ want[r] \notin DOMAIN mPages /\ want[r] \in mFailedPages
          /\ pc' = [pc EXCEPT ![r] = "idle"]
    /\ UNCHANGED <<fileVars, mPages, fetchVars, want, writerWaits, changes, aborted>>

(* ReadPage() copies from the page and the reader lets the file go. *)
Copy(r) ==
    /\ pc[r] = "copy"
    /\ pc' = [pc EXCEPT ![r] = "idle"]
    /\ UNCHANGED <<fileVars, mPages, fetchVars, want, writerWaits, changes, aborted>>

(* mutant of FetchStart: the thread queues behind a waiting writer *)
FetchStartInTurn(f) ==
    /\ ~f.locked /\ ~writerWaits
    /\ fetchers' = (fetchers \ {f}) \cup {[f EXCEPT !.locked = TRUE]}
    /\ UNCHANGED <<fileVars, mPages, mPendingPages, mFailedPages, readVars, writerWaits,
                   changes, aborted>>

(* A fetch thread gets the file's lock, ahead of a waiting writer; PageBackend
   asserts that what it is to fetch is there. *)
FetchStart(f) ==
    /\ ~f.locked
    /\ IF mBackendExists /\ Start(f.index + f.count - 1) < mBackendSize
       THEN /\ fetchers' = (fetchers \ {f}) \cup {[f EXCEPT !.locked = TRUE]}
            /\ UNCHANGED aborted
       ELSE aborted' = TRUE /\ UNCHANGED fetchers
    /\ UNCHANGED <<fileVars, mPages, mPendingPages, mFailedPages, readVars, writerWaits, changes>>

(* RemovePendingFetch() *)
PendingAfter(i, idxOnly) ==
    LET mine == {p \in mPendingPages : p.first = i}
    IN  (mPendingPages \ mine) \cup
        {[first |-> i + 1, count |-> p.count - 1] : p \in {q \in mine : idxOnly /\ q.count > 1}}

(* The thread's callback puts in the next page, unless there is one.  A page that
   is shorter at the server grows to the size of the range's first page. *)
FetchNext(f) ==
    LET i == f.cur
        size == Smaller(mBackendSize - Start(i), PageSize)
        realSize == Smaller(mFileSize - Start(f.index), PageSize)
        data == SubSeq(server, Start(i) + 1, Start(i) + size)
    IN  /\ f.locked
        /\ Len(server) >= Start(i) + size
        /\ mPages' = IF i \in DOMAIN mPages THEN mPages
                     ELSE SetPage(mPages, i, [data |-> Resize(data, Larger(size, realSize)),
                                              dirty |-> FALSE])
        /\ mPendingPages' = PendingAfter(i, TRUE)
        /\ fetchers' = (fetchers \ {f}) \cup
               (IF i + 1 < f.index + f.count THEN {[f EXCEPT !.cur = i + 1]} ELSE {})
        /\ UNCHANGED <<fileVars, mFailedPages, readVars, writerWaits, changes, aborted>>

(* mutant of FetchFails: only the page that failed is reported *)
FetchFailsOne(f) ==
    /\ f.locked
    /\ mFailedPages' = mFailedPages \cup {f.cur}
    /\ mPendingPages' = PendingAfter(f.cur, TRUE)
    /\ fetchers' = fetchers \ {f}
    /\ UNCHANGED <<fileVars, mPages, readVars, writerWaits, changes, aborted>>

(* a BackendException: the rest of the range has failed *)
FetchFails(f) ==
    /\ f.locked
    /\ mFailedPages' = mFailedPages \cup (f.cur .. f.index + f.count - 1)
    /\ mPendingPages' = PendingAfter(f.cur, FALSE)
    /\ fetchers' = fetchers \ {f}
    /\ UNCHANGED <<fileVars, mPages, readVars, writerWaits, changes, aborted>>

-----------------------------------------------------------------------------
(* Writing back.  The state a flush changes is a record, so that several flushes
   can follow each other in one step. *)
Cached == [pages |-> mPages, server |-> server, exists |-> mBackendExists, size |-> mBackendSize]

(* GetWriteList(): the dirty pages that follow each other from page i on *)
WriteList(s, i) == {j \in DirtyPages(s.pages) : i .. j \subseteq DirtyPages(s.pages) /\ i <= j}

(* what PageBackend's writeFunc sends of a run: it stops after a page that is not full *)
Sent(s, i) ==
    LET run == WriteList(s, i)
        used == {j \in run : \A k \in i .. j - 1 : Len(s.pages[k].data) = PageSize}
        last == Max(used)
    IN  [k \in 1 .. Start(last) - Start(i) + Len(s.pages[last].data) |->
            LET j == PageOf(Start(i) + k) IN s.pages[j].data[Start(i) + k - Start(j)]]

EndOf(pages, i) == Start(i) + Len(pages[i].data)

(* mutant of FlushCreate: it only makes the file *)
FlushCreateOnly(s) == [s EXCEPT !.exists = TRUE]

(* FlushCreate(): a truncation made before the file existed catches up *)
FlushCreate(s) ==
    IF s.size < mFileSize /\ \A i \in DirtyPages(s.pages) : EndOf(s.pages, i) < mFileSize
    THEN [s EXCEPT !.exists = TRUE, !.server = Resize(@, mFileSize), !.size = mFileSize]
    ELSE [s EXCEPT !.exists = TRUE]

(* the bytes of the pages of a run *)
TotalSize(s, run) ==
    Cardinality({b \in run \X (1 .. PageSize) : b[2] <= Len(s.pages[b[1]].data)})

(* FlushPageList(): uploads or writes the run at page i *)
FlushRun(s, i) ==
    LET run == WriteList(s, i)
        flushed == [pages |-> [j \in DOMAIN s.pages |->
                                 IF j \in run THEN [s.pages[j] EXCEPT !.dirty = FALSE] ELSE s.pages[j]],
                    server |-> WriteAt(s.server, Start(i), Sent(s, i)),
                    exists |-> TRUE,
                    size |-> Larger(s.size, Start(i) + TotalSize(s, run))]
    IN  IF s.exists THEN flushed ELSE FlushCreate(flushed)

(* FlushPages(): one run after another, or the creation of the file by itself *)
FlushAll(s) ==
    LET upTo[i \in Indexes] ==
            LET before == IF i = 0 THEN s ELSE upTo[i - 1]
            IN  IF i \in DirtyPages(before.pages) THEN FlushRun(before, i) ELSE before
    IN  IF DirtyPages(s.pages) # {} THEN upTo[LastPage(MaxSize)]
        ELSE IF s.exists THEN s ELSE FlushCreate(s)

SetCached(s) ==
    /\ mPages' = s.pages
    /\ server' = s.server
    /\ mBackendExists' = s.exists
    /\ mBackendSize' = s.size

-----------------------------------------------------------------------------
(* Exclusive use of the file *)
WriteLocked ==
    /\ \A r \in Readers : pc[r] = "idle"
    /\ \A f \in fetchers : ~f.locked
    /\ writerWaits' = FALSE
    /\ UNCHANGED <<fetchVars, readVars, aborted>>

WriterWaits ==
    /\ ~writerWaits /\ writerWaits' = TRUE
    /\ UNCHANGED <<fileVars, mPages, fetchVars, readVars, changes, aborted>>

(* a write, flush or eviction that fails as a whole *)
WriterFails == writerWaits /\ WriteLocked /\ UNCHANGED <<fileVars, mPages, changes>>

(* GetPageWrite(): the page at i, sized for the write *)
PageForWrite(i, pageSize, partial) ==
    IF i \in DOMAIN mPages THEN SizedTo(mPages[i], pageSize)
    ELSE IF Start(i) >= mBackendSize \/ ~partial
         THEN [data |-> Resize(<<>>, pageSize), dirty |-> FALSE]
    ELSE [data |-> Resize(SubSeq(server, Start(i) + 1, Smaller(mBackendSize, Start(i + 1))), pageSize),
          dirty |-> FALSE]

(* mutant of OldLastExtended: the old last page stays as it is *)
OldLastKept(i) == mPages

(* a write past the end extends the old last page *)
OldLastExtended(i) ==
    LET old == LastPage(mFileSize) IN
    IF i \notin DOMAIN mPages /\ Start(i) >= mBackendSize
       /\ Start(i) > mFileSize /\ mFileSize > 0 /\ old \in DOMAIN mPages
    THEN SetPage(mPages, old, SizedTo(mPages[old], PageSize))
    ELSE mPages

WriteIn(i, offset, data) ==
    LET length == Len(data)
        newFileSize == Larger(mFileSize, Start(i) + offset + length)
        pageSize == Smaller(newFileSize - Start(i), PageSize)
        page == PageForWrite(i, pageSize, offset > 0 \/ length < pageSize)
    IN  /\ newFileSize <= MaxSize
        /\ mPages' = SetPage(OldLastExtended(i), i, [data |-> WriteAt(page.data, offset, data), dirty |-> TRUE])
        /\ mFileSize' = newFileSize

WritePage ==
    /\ WriteLocked
    /\ changes < MaxChanges /\ changes' = changes + 1
    /\ \E i \in Indexes, offset \in 0 .. PageSize - 1 : \E length \in 1 .. PageSize - offset :
         LET data == [k \in 1 .. length |-> changes + 1]
         IN  /\ WriteIn(i, offset, data)
             /\ content' = WriteAt(content, Start(i) + offset, data)
    /\ UNCHANGED <<server, mBackendExists, mBackendSize>>

(* the cache manager has no memory for the new page, which is removed again *)
WriteOutOfMemory ==
    /\ "memory" \in Faults
    /\ WriteLocked
    /\ \E i \in Indexes \ DOMAIN mPages : mPages' = OldLastExtended(i)
    /\ UNCHANGED <<fileVars, changes>>

TruncateTo(newSize) ==
    LET last == LastPage(newSize)
    IN  /\ IF mBackendExists /\ mBackendSize # newSize
           THEN server' = Resize(server, newSize) /\ mBackendSize' = newSize
           ELSE UNCHANGED <<server, mBackendSize>>
        /\ mFileSize' = newSize
        /\ mPages' = [i \in {j \in DOMAIN mPages : newSize > 0 /\ j <= last} |->
               SizedTo(mPages[i], IF i = last THEN newSize - Start(i) ELSE PageSize)]
        /\ UNCHANGED mBackendExists

Truncate ==
    /\ WriteLocked
    /\ changes < MaxChanges /\ changes' = changes + 1
    /\ \E newSize \in 0 .. MaxSize : TruncateTo(newSize) /\ content' = Resize(content, newSize)

(* mutant of EvictPage: a clean page is dropped while the file is being read *)
EvictPageShared ==
    /\ \E i \in DOMAIN mPages : ~mPages[i].dirty /\ mPages' = Without(mPages, {i})
    /\ UNCHANGED <<fileVars, fetchVars, readVars, writerWaits, changes, aborted>>

EvictPage ==
    /\ WriteLocked
    /\ \E i \in DOMAIN mPages :
         LET s == IF mPages[i].dirty THEN FlushRun(Cached, i) ELSE Cached
         IN  SetCached([s EXCEPT !.pages = Without(@, {i})])
    /\ UNCHANGED <<content, mFileSize, changes>>

FlushPage ==
    /\ WriteLocked
    /\ \E i \in DirtyPages(mPages) : SetCached(FlushRun(Cached, i))
    /\ UNCHANGED <<content, mFileSize, changes>>

(* The server stores a run of pages and its answer never comes: a BackendException. *)
FlushLost ==
    /\ "lost" \in Faults
    /\ WriteLocked
    /\ mBackendExists
    /\ \E i \in DirtyPages(mPages) : server' = WriteAt(server, Start(i), Sent(Cached, i))
    /\ UNCHANGED <<content, mBackendExists, mBackendSize, mFileSize, mPages, changes>>

(* A flush that fails after some runs is FlushPage() of these and WriterFails. *)
FlushPages ==
    /\ WriteLocked
    /\ SetCached(FlushAll(Cached))
    /\ UNCHANGED <<content, mFileSize, changes>>

(* Another client rewrites the file and a refresh finds that its size is different:
   RemoteChanged() drops the pages that are not dirty. *)
RemoteChanged ==
    /\ WriteLocked
    /\ mBackendExists
    /\ DirtyPages(mPages) = {} \/ "remote" \in Faults
    /\ changes < MaxChanges /\ changes' = changes + 1
    /\ \E size \in 0 .. MaxSize \ {mBackendSize} :
         LET dirty == DirtyPages(mPages)
             ends == {EndOf(mPages, i) : i \in dirty}
             fileSize == Max(ends \cup {size})
         IN  /\ server' = [k \in 1 .. size |-> changes + 1]
             /\ mBackendSize' = size
             /\ mFileSize' = fileSize
             /\ mPages' = [i \in dirty |-> mPages[i]]
             /\ content' = [k \in 1 .. fileSize |->
                    LET i == PageOf(k)
                    IN  IF i \in dirty /\ k <= EndOf(mPages, i) THEN mPages[i].data[k - Start(i)]
                        ELSE IF k <= size THEN changes + 1 ELSE 0]
    /\ UNCHANGED mBackendExists
-----------------------------------------------------------------------------
Init ==
    /\ \/ mBackendExists = TRUE /\ mBackendSize = InitialSize
       \/ mBackendExists = FALSE /\ mBackendSize = 0
    /\ server = [k \in 1 .. mBackendSize |-> 1]
    /\ content = server /\ mFileSize = mBackendSize
    /\ mPages = <<>>
    /\ mPendingPages = {} /\ mFailedPages = {} /\ fetchers = {}
    /\ pc = [r \in Readers |-> "idle"] /\ want = [r \in Readers |-> 0]
    /\ writerWaits = FALSE /\ changes = 1 /\ aborted = FALSE

Fetch(f) == FetchStart(f) \/ FetchNext(f) \/ FetchFails(f)

Next ==
    /\ ~aborted
    /\ \/ \E r \in Readers : GetPageRead(r) \/ Waited(r) \/ Copy(r)
       \/ \E f \in fetchers : Fetch(f)
       \/ WriterWaits \/ WriterFails
       \/ WritePage \/ WriteOutOfMemory \/ Truncate
       \/ EvictPage \/ FlushPage \/ FlushPages \/ FlushLost
       \/ RemoteChanged

Spec == Init /\ [][Next]_vars

(* Threads run.  A waiting reader needs mPagesMutex once, while whoever takes back the
   failure it is to see has a fetch from the server to wait for: hence strong fairness. *)
FairSpec ==
    /\ Spec
    /\ \A r \in Readers : SF_vars(~aborted /\ Waited(r)) /\ WF_vars(~aborted /\ Copy(r))
    /\ \A i \in Indexes :
          WF_vars(~aborted /\ \E f \in fetchers : f.index = i /\ Fetch(f))
-----------------------------------------------------------------------------
(* the file as its users see it: the page if it is in memory, or else the server's
   data, or else zero; a page that is too short is read past its end *)
PastEnd == MaxChanges + 1
View == [k \in 1 .. mFileSize |->
    LET i == PageOf(k)
    IN  IF i \in DOMAIN mPages
        THEN IF k - Start(i) <= Len(mPages[i].data) THEN mPages[i].data[k - Start(i)] ELSE PastEnd
        ELSE IF k <= mBackendSize THEN server[k] ELSE 0]

(* Whatever was fetched, evicted, flushed or truncated in between, a read returns what
   was written last: pages and server together are the file (ReadPage, GetPageWrite,
   FlushPageList, Truncate). *)
Coherent == View = content

(* The page that GetPageRead() returned a reference to stays while ReadPage() copies
   from it: eviction needs the file's lock exclusively. *)
PageHeld == \A r \in Readers : pc[r] = "copy" => want[r] \in DOMAIN mPages

(* A page is in mPendingPages exactly while a thread is to fetch it: never forgotten by
   a thread that failed (its readers would wait forever), nor twice on its way. *)
PendingServed == \A i \in Indexes :
    isFetchPending(i) <=> \E f \in fetchers : f.cur <= i /\ i < f.index + f.count

(* When no page is dirty and the file exists at the server, the server has all of it:
   flushes, their order, creation and truncation lose and leave behind nothing
   (FlushPages, FlushCreate, Truncate). *)
CleanMeansStored == DirtyPages(mPages) = {} /\ mBackendExists => server = content

(* PageBackend::FetchPages() is never asked for pages the server does not have. *)
FetchInRange == ~aborted

(* A reader that waits for a page gets it or its error, although fetch threads queue
   for the lock it holds and writers wait in between (FetchPages' priority lock). *)
ReadsEnd == \A r \in Readers : pc[r] = "wait" ~> pc[r] # "wait" \/ aborted
=============================================================================
