# A TLA+ verification of the Andromeda desktop client

The client mounts a file server through FUSE. It keeps a tree of items (files
and folders) in memory, caches the files' data in pages, fetches pages and
directory listings from the server over HTTP, and writes dirty pages back in the
background. Three programs use its library: `andromeda-fuse` mounts from a command
line, `andromeda-gui` from windows and keeps sessions in a database, and
`andromeda-cli` sends one request. Paths below are relative to
`src/src/lib/andromeda/` unless they begin with `src/` or name their program's library.

Contents: 1. inventory, 2. plan, 3. the modules, 4. the runs, 5. the proofs,
6. what the models showed about the code, 7. what is left out.

## 1. Inventory

| part | state it keeps | operations | talks to |
|---|---|---|---|
| `SharedMutex` | queue of tickets, number of readers, locked or not | lock, try_lock, lock_shared (plain, priority), unlock, unlock_shared | every item, folder and file has one |
| `Semaphor` | units that are free, queue of tickets | lock, try_lock, unlock | - |
| `ScopeLocked` | a second SharedMutex per item, not waited for by those who look the item up | TryLockScope, GetDeleteLock | Item, PageManager, CacheManager |
| `Item`, `Folder`, `PlainFolder`, `Filesystem`, `SuperRoot` | a folder's map name -> item; an item's name, parent, id | find, list, create, delete, rename, move, refresh from the server | each other, BackendImpl, FUSE |
| `File` | write mode, dates, deferred evictions, PageManager, PageBackend | read, write, truncate, flush, remote change; filling a gap before an append | PageManager |
| `PageManager` | pages by index, ranges being fetched, failed pages, fetch size, file size | ReadPage, WritePage, Truncate, EvictPage, FlushPage(s), RemoteChanged, fetch threads | PageBackend, CacheManager |
| `PageBackend` | whether the file exists at the server, its size there | FetchPages, FlushPageList, FlushCreate, Truncate | BackendImpl |
| `CacheManager` | LRU queue of pages, queue of dirty pages, their sizes, limits, last failures, two threads | InformPage, ResizePage, RemovePage, RemoveDirty, evict thread, flush thread | all PageManagers |
| `CachingAllocator`, `MemoryAllocator`, `Page` | freed ranges in the order of freeing and by size, sums | alloc, free, resize | PageManager, CacheManager |
| `OrderedMap` | a list and a table of places in it | enqueue, pop, erase, find | CacheManager, allocator, database |
| `BandwidthMeasure` | a rolling average | UpdateBandwidth | PageManager, CacheManager |
| `BackendImpl`, `Config` | session, whether it is to be ended, server limits | one call per server action; SendFile, ReadFile; authenticate, store, close | RunnerPool |
| `RunnerPool`, `HTTPRunner`, `CLIRunner` | runners and their locks; whether the last request failed for good; where it was redirected to | get a runner; run a request with repeats and redirects | the server |
| `ObjectDatabase`, `BaseObject`, field types, `SessionStore` | objects loaded, created and modified; the values of fields, temporary ones among them | load, save, insert, delete, SaveObjects | SqliteDatabase |
| `SqliteDatabase`, `QueryBuilder` | the connection, a transaction; conditions and parameters | query, transaction | sqlite3 |
| `TableInstaller`, `VersionEntry`, `SingleInstance` | a version per table; the lock file | install, upgrade; keep a second program out | SqliteDatabase |
| `FuseAdapter` | the FUSE thread, the mount, whether it started and with what error | start, loop, unmount, destruct | libfuse, FuseOperations, CacheManager's threads |
| `FuseOperations` | - | one C callback per file operation; exceptions become errnos | Folder, File |
| `BaseOptions`, each program's `Options`, `CommandLine` | the options' members; the request of andromeda-cli | parse files, arguments, environment | - |
| `AccountsGui`, `MountContext`, `MainWindow` | accounts and mounts of the GUI | log in, store, remove, mount, unmount | BackendImpl, FuseAdapter, SessionStore |
| `StringUtil`, `Crypto`, `SecureBuffer`, `Debug`, `PlatformUtil` | - | parsing, encryption, logging | - |

**Who runs.** FUSE calls come on any number of threads. Besides them: one thread
per fetch (`PageManager::StartFetch`), the cache manager's evict thread and flush
thread, the thread of each mount in the GUI, and the GUI's own. Locks, from the outside in:
an item's scope lock, a folder's lock, an item's or a file's lock, then `mPagesMutex` and the
cache manager's `mMutex`, then the pool's and a runner's lock. The database has two of its
own: the one of ObjectDatabase, then that of SqliteDatabase.

**What is hard**, and the property that makes each part right:

- *SharedMutex*: wake-ups and the order of a queue that some readers jump.
  Exclusion, no lost wake-up, every waiter is served.
- *Item tree*: an item must not be destructed in use, and calls lock scope, item,
  parent and second parent in different orders while a refresh locks everything.
  Nothing is destructed while its scope lock is held; the tree stays a tree;
  calls return.
- *Uploads*: cutting data into requests while requests fail, are repeated, or are
  refused as too large. What is reported as sent is at the server; the call ends.
- *Downloads*: a request that is repeated in the middle of a page, whose bytes are already
  in it. A page handed over has the file's bytes, each once; the first attempt leaves none
  unfinished, and a repeat may (section 6).
- *Calls*: an answer is lost and the request repeated, and the repeat finds it done. What
  the caller is told is true of the server.
- *Sessions*: made, given, stored, ended, with failures in between. A stored or given
  session is never ended; a made one is not left behind silently.
- *PageManager*: pages come and go on several threads while the file grows,
  shrinks, does not exist yet, or changes remotely. A read returns what was last
  written; a page in use stays; whoever waits for a page gets an answer; after a
  flush the server has everything.
- *File's write modes*: a storage that takes data only once, or only at its end, under a
  cache that forgets, flushes and fails in any order. A read returns what was written in
  every mode, and the storage is never asked for what it does not do.
- *CacheManager*: two threads that need the locks of those who wait for them.
  Accounting is exact; waiters get memory, or an error.
- *Memory, pools*: recycling by several threads at once. Nothing has two owners, nothing is
  lost, sums are true; nobody sleeps beside something free.
- *FUSE operations*: many exceptions, some of them derived from others, and files that are
  not at the server yet. A call that fails changed nothing and gives a true reason, one that
  succeeds did what its name says.
- *A mount*: two threads, a fork, and steps that each may fail. Nobody waits in vain, and
  when it is over nothing is mounted and everything is flushed.
- *Database*: modified fields reach it once, in spite of failing queries and crashes;
  two threads get one object for one row; a save is all or nothing; an installation that
  was killed is taken up by whichever program comes next.
- *Arguments*: five places to give an option. The nearest one counts.

PROJECT.json lists the hazards one by one, at their lines.

## 2. Plan

In the order of importance; a module is built, checked and mutated before the next.

| # | module(s) | subject | state |
|---|---|---|---|
| 1 | `FairRWLock`, `SharedMutex`, `SharedMutexProofs` | the lock; the abstract lock it implements; proofs | done |
| 2 | `ItemTree`, `ItemTreeProofs` | items, folders, scope locks | done, two folders deep |
| 3 | `SendFile`, `SendFileProofs` | uploads with repeats and limits; proofs | done |
| 4 | `PageManager`, `NumberLemmas`, `PageManagerProofs` | a file's pages, with PageBackend; proofs | done for WriteMode RANDOM |
| 5 | `CacheManager`, `CacheManagerProofs` | queues, limits, cleanup threads, waiters; proofs | done for WriteMode RANDOM, without its own destruction |
| 6 | `FetchFile`, `BackendCalls`, `BackendSession`, `Requests`, `PartsProofs` | the backend: downloads, calls, sessions, requests and redirects; proofs | done |
| 7 | `FuseOps`, `FileWrite` | FUSE's operations on the tree; the write modes of a file | done, one call at a time |
| 8 | `ObjectDatabase`, `FieldTypes`, `FieldLife`, `QueryBuilder`, `Installer`, `DatabaseProofs` | the database; proofs of all but the queries | done |
| 9 | `OrderedMap`, `Memory`, `RunnerPool`, `Semaphor`, `Waiting`, `FuseMount`, `PartsProofs`, `Strings`, `Arguments` | small machines and algorithms; proofs of the machines but Memory | done |
| 10 | CacheManager composed with PageManager and ItemTree (evicting in the middle of a refresh, `filesystem/Folder.cpp:136`); destruction of a File under its fetch threads; the ends of CacheManager's threads | | open |

Abstract specifications: `FairRWLock`, which `SharedMutex` refines; SendFile's set of
offsets at the server; `content`, the sequence of bytes that PageManager and FileWrite
keep a file to be, where `Coherent` and `WrittenIsRead` are the invariants of the mapping;
OrderedMap's `map`; what a call of FuseOps is to do to the tree, in `Keeps`;
what a line says, in Arguments' `LineSays`. Open: an *LRU cache* for CacheManager.

Theorems: the safety of the lock and that it implements FairRWLock, the safety of the item tree,
of uploads, of a file's pages, of CacheManager's queues, of the database with its fields and its
installation, of the backend's calls, downloads, sessions and requests, of mounts, and of the small
machines are proved (section 5). Open: `FileWrite` and `Memory`.

There is one action per operation, and constants carry named assumptions where a proof needs
them. Only `FuseOps`, `QueryBuilder` and `Strings` declare RECURSIVE operators, and nothing
is proved about them.

## 3. The modules

### SharedMutex, FairRWLock, MCSharedMutex, SharedMutexProofs

`SharedMutex.hpp`. Every operation runs under `mMutex` between its waits, so each
such stretch is one action. `mQueue`, `mReaders` and `mLocked` are the members. A
ticket (`mIndex++`) is unique and belongs to one waiting call, so the queue holds
threads instead of tickets. The condition variable is `pc`: "asleep", and "awake"
from the notification (or a spurious wake-up) until the thread holds `mMutex` again.
`FairRWLock` says what callers rely on: two kinds of waiters, a line served in
order and hurried readers served before the line. It is the meaning of the comment
at `SharedMutex.hpp:12-16`. `SharedMutex` refines it by cutting its queue in two.

### ItemTree, MCItemTree, ItemTreeProofs

`filesystem/Item.cpp`, `Folder.cpp`, `folders/PlainFolder.cpp`, `ScopeLocked.hpp`,
and how `src/src/lib/andromeda-fuse/FuseOperations.cpp` calls them. `mItemMap`,
`mName`, `mParent` are the members; `status` says whether the object exists; `scope`
and `deleting` are the scope locks, `wlock` and `rlock` the items' and folders' own
locks. A call is a walk through `pc`: find the item through its folder (perhaps
refreshing it: LockItems, SubLoadItems, SyncContents), scope-lock it, lock it, use
it. Every lock that may have to be waited for is a step of its own. An item the
listing no longer has is destructed by the refresh after waiting for its users.
`Overwrite` says whether a rename or move may replace an existing item.

The items stand for files and folders alike, and their parents are fixed: what
happens inside a deeper folder is the same code with another parent.

### SendFile, MCSendFile, SendFileProofs

`BackendImpl::SendFile` with `HTTPRunner::DoRequestsAuto`. One call from every state
of the shared limit (`mUploadMaxBytes`) and of the runner (`mFailureState`) that
earlier calls can leave. Data is named by its offset, so what the server has is a
set of offsets. `Lose` is a request without a response, or a 500 or 503, with the
server having handled it or not.

### PageManager, MCPageManager, MCFileData, NumberLemmas, PageManagerProofs

`filesystem/filedata/PageManager.cpp`, `PageBackend.cpp`, and what `File.cpp` does
around them. `mPages`, `mPendingPages`, `mFailedPages`, `mFileSize`,
`mBackendSize`, `mBackendExists` are the members; `content` is a history variable,
the file its users wrote; `server` is the file at the server. Readers hold the file's
lock shared, from GetPageRead to the end of the copy; fetch threads hold it
shared from `FetchStart` on (they take it with priority, so a waiting writer does
not hold them up). Everything that needs the lock exclusively is one step.

A page's data is its bytes, a value naming the change that wrote them. `NumberLemmas` has
what the proofs need of numbers: least and largest elements of a set, induction over an
initial segment, quotients.

### CacheManager, MCCacheManager, MCFileData, CacheManagerProofs

`filesystem/filedata/CacheManager.cpp`, and of `PageManager.cpp` what its callers
do before, while and after it makes them wait. Evicting and flushing are the same
code over different members, so the model has one of everything for each kind:
`queue["evict"]` is `mPageQueue`, `queue["flush"]` is `mDirtyQueue`, `failure` is
`mEvictFailure` and `mFlushFailure`, and so on; `mCurrentTotal` and
`mCurrentDirty` are the sums over the queues, which is what the code asserts in its
debug builds (`filesystem/filedata/CacheManager.cpp:316-331`). `page` has the size (the capacity) of
each page and whether it is dirty; `wlock` and `rlock` are the files' locks, which a
caller keeps while it waits and a cleanup thread needs. A caller's way: `Write`,
`ReadZero`, `Read` or `ResizePage` changes the page, tells the cache manager, and goes on
to "done", "asleep" (on a condition variable), "free" (cleaning the last page
itself) or "failed" (an exception; `Undo` is the catch block). A cleanup thread's
way: `CheckLimit`, `Collect`, then per file `NextFile` (GetPageManagerLock),
`LockManager`, `CleanPage` or `CleanFails`, `FileDone`, `UnlockManager`. What runs
under `mMutex` without a wait is part of one step.

`deleting` and the three `Delete` actions are `~PageManager`. `cacheAborted` becomes true where
the code's behaviour is undefined (section 6), and nothing happens afterwards.

`MCFileData` checks PageManager and CacheManager in one run, one at a time (`part`), as MCParts does
with the small parts: they meet only in the calls that each models for itself. It extends both, so what
is checked is the very definition that is proved.

### FetchFile

`PageBackend::FetchPages`, `BackendImpl::ReadFile` and `HTTPRunner::RunAction_StreamOut`
with `DoRequestsAuto`. `http` is the attempt: its number, whether it may be repeated, its
offset, whether the response is a good one, and how much of the body is left. httplib hands over the body in
pieces (`Receive`), `recvFunc` gives ReadFile what it gets, and `CopyPiece` is one round of
the loop that fills pages (`curIndex`, `curPage`). `handed` has the pages given to
`pageHandler`. A byte of the file is its offset, one of an error's body is `Body`, one that was
never written `Junk`, so that a page shows where its bytes came from. "unfinished" is the state in
which the assertion at the end of FetchPages fails. A body of an error may be shorter than a page, as
long, or longer.

### BackendCalls

The calls of `BackendImpl` on items. `items` is the server, which is external and refuses
what would give two items one place. A call passes its `Guard` (read-only, memory), is
requested, perhaps several times as `Request` and `RequestLost` tell, and ends with an
`outcome`: `GetJSON` turns answers into exceptions, `Told` is what the caller catches and
makes of them (a deletion of what is not there is a success).

### BackendSession

Who ends which session. `ctx` has the BackendImpl objects (`del` is `mDeleteSession`) with
what their programs do: `andromeda-fuse` and `-cli` authenticate and close, the GUI pre-authenticates
with a row of the session table or authenticates and then stores. `stray` collects the
sessions that are left at the server in one of the ways the code cannot help, each at the
action where it happens; every request may fail before or after the server has done it.

### Requests

From a RunnerInput (five forms) to what is sent: for HTTPRunner in URL, headers and body, for
CLIRunner in arguments, environment and standard input. `runner` has what a
redirect leaves there for later calls, `place` what the server said. Values carry the number
of their call.

### FuseOps

All handlers of `FuseOperations` on one tree. `local` is the tree of Folder objects and
`server` the server's: an entry has a kind, a parent, a name, and whether it is `saved`, for a
file that is only created here is uploaded later. A handler is an operator of
the path and of the server's `Answers`; `Catches` is the list of catch clauses, in the order of
the source, and `BaseOf` the exceptions' classes. `Do` makes one step for each outcome that the
answers to a call's requests (none, one or two of them) lead to, and compares it with the specification, which is written on paths (`Seen`): `Done` says what
a call that succeeds has done, `Explained` why one may fail with which errno. `broken` is
the result. `options` are the root (a folder or the virtual one of the filesystems), the cache type
and who is read-only.

### FileWrite

`File` over `PageManager` with one user, in WriteModes UPLOAD, APPEND and RANDOM, with and
without a cache. A write is a `job` of steps (`WriteBytes`, `FixPageAlignment`,
`FillWriteHole`, `WritePages`, one chunk at a time), each of which may fail and leaves what those
before it did. Pages, flushes and truncation are PageManager's operators, by an instance that
has no fetch threads. `mDeferredEvicts` are dirty pages that cannot be written alone.

### ObjectDatabase, FieldTypes, FieldLife, DatabaseProofs

`FieldTypes` has the field types as operators on records (value set for the database, value seen,
`mDelta`). `FieldLife` is one field and its column through an object's life.
`ObjectDatabase` has threads that load, create, change, save and delete objects.
`rows` is the table as the connection sees it and `disk` as a restart finds it; `mObjects`,
`mCreated`, `mModified` are the members. `SaveObject()` takes four steps because it lets go of
the mutex: gather the modified fields, lock, query, register (`SaveGather`, `SaveLock`,
`SaveQuery`, `SaveRegister`). `SaveObjects()` holds both mutexes: `SaveNext` per object,
`Commit`, or `Rollback`. `LoadQuery` reads a row without the mutex, and `ConstructObject`
makes the object, or finds the one another thread made. `Restart` is a crash.
`DatabaseProofs` has the theorems of these modules and of `Installer`.

### QueryBuilder, Strings, Arguments

Algorithms against what they are for. A query is a tree of conditions with placeholders, and `Truth` is
SQL's logic with its third value; `SelectsMeant` compares what it selects with the conditions
that were asked for. `Strings` has `explode`, `split`, sizes, and the patterns of LIKE with
a matcher beside them. `Arguments` is a program's start: `ParseFile` and `ParseArgs` make
settings of what is given, `Sets` is what each option assigns, in the order of the multimap
that the code keeps, and `ArgsAreMeant` what a user is told: a line is stronger than a file,
and the last of several of the same name counts. For andromeda-cli, `input` is the request.

### Installer

Programs of several versions on one database, one at a time, killed at any point. `shape`
and `left` are what a table is: the version it has the columns of, and how many queries of that
version are missing. `version` is what is recorded for it. `CheckVersion`, `RunQuery` and
`SetVersion` are the statements of `TableInstaller`, in the order they run.

### OrderedMap, Memory, RunnerPool, Semaphor, Waiting

`OrderedMap`: `mQueue`, `mLookup` and the nodes the places point to; `map` is the map they are to be.
`Memory`: ranges of the operating system's pages; `mFreeQueue` is the recycling queue, `task` what a
thread is doing between the two critical sections of an allocation. `RunnerPool`: a runner is given back in
two steps (`Unlock`, `SignalWaiters`) without the mutex in between; `poolMutex` is held
through the search. `Semaphor` is built like SharedMutex. `Waiting` is what the two promise together.

### FuseMount

`caller` is the thread of `StartFuse()` and of the destructor, `fuse` where `FuseMain()` is, in modes
THREAD (the GUI), FOREGROUND and DAEMON, and with libfuse 2 and 3, whose steps differ
(`Mount` after `NewContext`, or `MountChannel` before `NewOnChannel`). The kernel's mount, the
struct fuse and `fuse_exit()` are external; anyone may take the mount away. `cleaner` is
whether the cache manager's threads run in this process, which a fork ends. `freed` is set
where the destructor uses a struct fuse that is gone.

### MCParts, MCCallsEnd, PartsProofs

These parts share no state, so nothing is gained by their product: `MCParts` runs one at a
time (`part`), and its states are the sum of the parts' states instead of their product. It extends
the parts whose names do not meet, so that what the run checks of them is the very definition that is
proved; their bounds are in Parts.cfg. The others have an INSTANCE each, with its bounds, and
their properties are stated once more there, under their `part`. `MCCallsEnd` runs ItemTree and
PageManager in the same way for liveness. `PartsProofs` has the theorems of FetchFile,
BackendCalls, BackendSession, Requests, OrderedMap, RunnerPool, Semaphor and FuseMount.

## 4. The runs

`tlc -config <cfg> <module>`; names as in PROJECT.json.

| run | what it shows | bounds |
|---|---|---|
| `shared_mutex` | readers and writers exclude each other, counters are true, no wake-up is lost; the lock implements FairRWLock; every waiter is served unless priority readers keep holding the lock; priority readers are always served | 4 threads: a holder, a waiter at the front, one in the middle and one who overtakes |
| `item_tree` | no item is destructed in use, and the tree stays a tree, for all calls | 2 threads, 2 folders, 2 items, 2 names; Overwrite = FALSE; at most one new item per refresh |
| `item_tree_replace` | *violated*: a rename over an item destructs it in use | |
| `item_tree_deadlock` | *violated*: a rename during which the item vanishes from the listing waits for itself | |
| `send_file` | what is reported as sent is sent (unless several requests were needed and one was repeated); repeats stop; a refused request lowers the limit; the call ends | 1 to 7 bytes, 4 limits, 3 lost requests, 1 repeat, buffer and least size 2 |
| `send_file_retry` | *violated*: a repeat in a file of several requests leaves a hole | |
| `file_data` | what is read is what was written; a page being copied stays; a pending page has a thread that fetches it, and only one; a clean file is whole at the server | 2 readers, pages of 2 bytes, files up to 5 bytes (3 pages, the last one short), 2 changes after the initial state, fetches of up to 2 pages, read-ahead of 1 |
| | the queues of the cache manager, and so their sums, are the pages in memory and the dirty pages, through waiting, cleaning by callers and by threads, failures and their undoing | 2 callers, 3 calls in all, 3 pages of 2 files, sizes 1 and 2, memory for 2, dirty memory for 0 or 2 |
| `page_manager_ahead` | *violated*: a read-ahead thread asks for pages truncated in the meantime | |
| `fetch_repeat` | *violated*: a download that is repeated after its last page was handed over leaves a page begun | |
| `cache_manager_live` | no call waits for memory for ever | 2 callers, 2 pages of 2 files, size 1, memory for 1 and for no dirty page |
| `calls_end` | reads, creations, deletions and refreshes of the tree always return; every waiting reader gets its page or its error | 2 threads, 1 folder, 2 items, 2 names; 2 readers, 1 change after the initial state, all faults |
| `parts` | the other modules, one property or more each, below | Parts.cfg, and the INSTANCEs of MCParts |

What `parts` shows, by property (each is stated in its module, with the code it is about):

| property | module | bounds |
|---|---|---|
| `WaitersAwake` | Waiting, of RunnerPool and Semaphor | 3 threads and 2 runners; 4 threads and 2 units |
| `OneObject`, `NothingLost`, `NoOpenTransaction`, `AllOrNothing` | ObjectDatabase | 2 threads, 2 objects, 2 ids, 2 values of a name, counts to 2; any query may fail, the program may crash |
| `FieldIsStored` | FieldLife | all field types, 2 values, increments of 1 and 2, 2 referenced objects |
| `SelectsMeant` | QueryBuilder | all trees with 2 values, 2 conditions |
| `VersionIsTrue` | Installer | 3 versions, 2 queries for each |
| `TextIsKept` | Strings | all strings of up to 4 of 4 characters, patterns of up to 2 |
| `TableIsList` | OrderedMap | 3 keys, 2 values |
| `PagesAreFile` | FetchFile | pages of 3 bytes, files of 5 and 8, whose last page is short; 2 attempts that fail, 2 repeats; bodies of errors of 0, 1 and 4 bytes (none, less than a page, more than one) |
| `SessionsKept` | BackendSession | 2 contexts, 4 sessions, one of them given |
| `CallTruth` | BackendCalls | 2 items, 2 names, 2 attempts, every answer |
| `RequestIsInput` | Requests | 2 calls, 2 parameters, 2 hosts, 2 paths |
| `MountEnds` | FuseMount | all modes and versions, 2 requests; fuse_new() fails with libfuse 3 only (section 6) |
| `CallsKeepWord`, `SeenIsStored` | FuseOps | 3 items, 2 names, paths of up to 3; 5 answers; no rename over an item when one of the two is not saved (section 6) |
| `WrittenIsRead` | FileWrite | pages of 2 bytes, files up to 5 bytes, 3 changes, all modes; no remote changes while pages are dirty (section 6) |
| `MemoryIsWhole` | Memory | 2 threads, pages of up to 3, 4 allocated at a time, 6 of the system's |
| `ArgsAreMeant` | Arguments | two options on a line with one in each of 2 files, for the three programs; pairs of parameters |

**Why the bounds are enough.** Four threads give the lock every combination of
holder, front waiter and overtaker. Two calls in the tree are enough for every
pair to meet at every lock, and two items let each call meet another's item; names
are re-used after deletion. Three pages are a first, a middle and a last one: a
range of two can end before, at, or after the one that is there already, and a
page size of two tells a short page from a full one. Data sizes on both sides of the
limit, its half and its quarter make SendFile halve twice and reach the least
size. The cache manager's limits are small enough for two pages to exceed each, so
one call meets both limits, both threads and another caller's lock; three calls are
one to fill the memory and two that meet. Two objects and two threads let a save of one
meet each step of the other's; three versions are one that is upgraded twice, one that is
skipped and one that is too new; three threads on two runners make one wait while both
others leave at once; pieces of a download may end before, at and after a page's end.
Three items are two in a place and one that contains it. Where a bound counts something
(MaxLost, MaxChanges, MaxCalls, MaxAttempts, MaxRequests, MaxSession) it is in the guards.

**Fairness.** *SharedMutex*: a notified thread gets `mMutex` in the end (weak),
a holder gives the lock back (weak); nobody must ask for it. *ItemTree*: strong
fairness of each thread's steps, as its locks are SharedMutexes, whose waiters are
served in order (this is what `shared_mutex` shows). *SendFile*: one thread that
runs; httplib's timeouts end a request. *PageManager*: threads run; a reader that
waits needs `mPagesMutex` once, while to take its failure back needs another
fetch from the server, so it is strongly fair. *CacheManager*: every thread runs;
weak fairness is enough for the files' locks because the calls are bounded.
`calls_end` has the conditions of ItemTree and PageManager. `parts` has no fairness, as its
properties are about safety: that nobody waits in vain is stated there as what a state
in which somebody waits must have.

**Deadlock** is checked for SharedMutex and SendFile (whose end is a step that
changes nothing). It is off for ItemTree, where calls may block each other for good
(section 6), for PageManager, where a failed assertion stops the program, for CacheManager,
which may be idle, asleep, with no call left, for downloads, which end, and for the two that are made of parts, where
a download, a mount or the reading of arguments is over at some point.

**Preconditions in the properties.** `SentWhole` excepts what `send_file_retry`
shows. `Ends` and `AdjustShrinks` are for more than one byte: the limit for one
byte, halved, is 0, which means no limit (`backend/BackendImpl.cpp:675`).
`file_data` has Faults = {}, for the reasons in section 6; it still has fetches and
flushes that fail. `calls_end` leaves out rename and move
(`item_tree_deadlock`) and list (section 6).
Its CacheManager has Ahead = FALSE: a reader holds the file's lock while its page is
fetched, and so no page is written before a fetch of it ends; and GrowDirty = FALSE: no write
makes a page larger that is dirty already. Section 6 has what happens otherwise;
`cache_manager_live` has GrowDirty = TRUE. `CallsReturn` of `cache_manager_live` excepts undefined behaviour.
`PagesAreFile` excepts a page filled by an error's body, where one that long may come and requests may be
repeated, and a page that is unfinished after a repeat, which `fetch_repeat` shows (section 6).
`FieldIsStored` excepts a value that is taken for the old one, and an empty string.
The restrictions of `parts` that hide something are in the table and in section 6.

**Mutants.** Each property of a passing run has a mutant in its module (`mutant:` or
`mutant of` in the comments): a dropped guard, a forgotten notification, a missing reset. With it in
place of the definition it mutates, TLC finds the property violated.

## 5. The proofs

`SharedMutexProofs` proves for **every finite set of threads**
(`ThreadsAssumption`):

- `Invariance`: `Spec => []IInv`;
- `TypeCorrectness`: `Spec => []TypeOK`, with it that `mReaders` is never negative;
- `Exclusion`: `Spec => []MutualExclusion`;
- `WakeupsNotLost`: `Spec => []NoLostWakeup`;
- `Refinement`: `Spec => ImplementsFairRWLock`.

`IInv` is `TypeOK /\ MutualExclusion /\ QueueOK /\ NoLostWakeup`. The three safety
properties are not inductive alone: that a thread which takes the lock was waiting
exactly once, and that nobody else's ticket goes with it, needs `QueueOK` (the queue
holds exactly the waiting threads, each once). `NoLostWakeup` needs the counters
of `MutualExclusion`: the lock is free for the front waiter just when somebody
has left, and leaving notifies. The proof has one step per action; the lemmas about
appending, pushing in front and taking the head of a queue without repetitions, and
about counting the readers, are stated once.

The refinement mapping cuts the queue in two: the `n` waiting priority readers are hurried, the
rest of the queue, `FairLine`, is the line. That needs one invariant more, `PriorityFirst`: the
priority readers are the first `n` of the queue (`RInv == IInv /\ PriorityFirst`). Cutting
then commutes with appending, pushing in front and taking the head, which are the three things
that happen to the queue; a notification, and a wake-up that finds the lock taken, are stutters.

`SendFileProofs` proves for **every size of data, limit, buffer and number of repeats**
(`SizesAssumption`, `BoundsAssumption`):

- `AllIsSent`: `Spec => []SentWhole`;
- `RepeatsEnd`: `Spec => GivesUp`, which has both halves of what `mFailureState` is for: after a failure
  requests are tried once, and after an answer they are repeated again;
- `LimitGoesDown`: `Spec => AdjustShrinks`, for `MinSize > 1`.

`SendInv` is `TypeOK /\ ContIsTrue /\ CountIsTrue /\ EndIsTrue /\ SentWhole /\ AttemptsLeft`.
`SentWhole` is about the end of the call only; what carries it there is `CountIsTrue` (as long
as nothing was lost, what was counted is what is stored, and nothing after it) and
`ContIsTrue`, for `streamCont` is a variable that an attempt leaves to the next one.
`LimitInv` adds `Overshoot`: a request stops less than one whole limit past its limit, so that half of
what it had read is less than the limit it was made for; without it a refused request
could raise the limit. The lemma `StreamReads` is the arithmetic of one call of `writeFunc`.

`ItemTreeProofs` proves for **every set of threads, folders, items and names**, as long as
no rename or move replaces an item (`NoReplacing`, which also has that the fixed folders are
none of the items; with `Overwrite` the run item_tree_replace shows that it is not so):

- `TreeInvariance`: `Spec => []ItemInv`;
- `NothingInUseErased`: `Spec => []ScopeProtects`;
- `StaysATree`: `Spec => []OnePlace`.

`ItemInv` is `TypeOK /\ OneSlot /\ MadeHasName /\ DeleteIsAlone /\ ScopeProtects` and, for each
thread, `ThreadOK`. A call finds an item in one step and takes it out in a much later one, so
the invariant says what it may rely on in between: it has the folder's lock (`HoldsFolder`), what it
found is still there and the place it is going to is still free (`FoundIsThere`), the item it
came for is scope-locked (`ItemIsUsed`), or nobody's but its own to delete (`DeleteLocked`,
`DeleteIsAlone`). Refreshes and other calls do not disturb that, which is proved once: `Frame` says what a
step leaves to the others, `OthersKept` that this is enough. An item that is renamed or
moved is never compared with the one found under its name: the invariant does not need it,
and when another call has moved the item in between they may differ.

`PageManagerProofs` proves for **every number of readers, every size of pages, files and
fetches, and any read-ahead** (`SizesAssumption`), with all faults allowed:

- `FetchesServed`: `Spec => []PendingServed`;
- `PagesAreHeld`: `Spec => []PageHeld`;

and for `Faults = {}`, for each of the three faults breaks one of the two properties (section 6):

- `DataInvariance`: `Spec => []DataInv`;
- `FileIsCoherent`: `Spec => []Coherent`;
- `CleanIsStored`: `Spec => []CleanMeansStored`.

`FetchInv` makes `PendingServed` inductive: the pending ranges are what the threads have
still to read, and no two of them meet, so that a thread which reads a page or fails takes out
its own range and nobody else's. `ReadInv` is `PageHeld` with the types of what it speaks of.

`Coherent` compares what a reader would see with `content`, and says nothing of how long a page
or the file at the server is; a write that is short of the last page's end, or a truncation,
would break it in the next step. `DataInv` says, of `content` and of the cached state `Good`:
a page has the file's bytes as far as the file goes, a dirty one no more than those and a
clean one perhaps zeros after them (`PagesOK`); the server has `mBackendSize` bytes, no more than the file,
and wherever no page is dirty they are the file's, with zeros for those it lacks (`ServerOK`);
and as long as it lacks any, the last page is dirty (`EndIsKnown`), which is what makes a flush, whatever
order it sends its runs in, end with the whole file there. `LockedInRange` keeps a fetch thread
that has the file's lock inside the server's file. The proof treats a state of pages and
server as a value: each piece of code that takes one to another (`Sent`, `FlushCreate`,
`FlushRun`, `FlushAll`, `Resize`, truncation, a write in a page) has a lemma that it keeps `Good`.
The loop of `FlushAll` is a recursive function, whose existence is proved by induction
over the number of pages it has done (`UpToLemma`), with a set instead of a predicate
(`SetInduction`).

`CacheManagerProofs` proves for **every set of callers and pages, all sizes and limits**
(`SizesAssumption`, `PagesAssumption`, `ThreadsAssumption`):

- `CacheInvariance`: `Spec => []CacheInv`;
- `MemoryInvariance`: `Spec => []MemoryIsQueued`, the half of `Tracked` that is about memory;

and for Ahead = FALSE and GrowDirty = FALSE, as in the run, for each of them breaks it (section 6):

- `QueuesAreMemory`: `Spec => []Tracked`.

`Tracked` says nothing of a file in use, which is where all the work is. `CacheInv` is
`TypeOK /\ ReadersAlone /\ DeletesAlone`, and for each caller `JobOK` and `UsedOK`: while it
waits, its page's entry in mPageQueue has the new size already, and so has a write's in
mDirtyQueue, while a resize has still to do the second (`UsedFor`); and when it frees memory itself, the page it frees is another one of its
own file (`FreeOK`). For each cleanup thread there is `CleanerOK`, what it may rely on between
collecting pages and cleaning them, and for each page `PageOK`: it is `Exact` unless a
writer has it or its PageManager is being destructed. What is said of the dirty queue is under
`Strict`, for Ahead = FALSE and GrowDirty = FALSE, so that there is one proof for all. `Frame` says
what a step of one thread leaves to the others, and `CombineCaller` and `CombineCleaner` that a
step which keeps its own thread's part, and that of the pages it touches, keeps the invariant.
The queues' operators (`Total`, `Omitting`) are recursive functions, handled with `Recursion` of `NumberLemmas`;
from then on all the proof uses of a queue is each page's entry in it (`SizeOf`), and that
no page has two. The first attempt, without GrowDirty, failed in the step in which a writer frees
memory, and so found the second case in section 6.

`DatabaseProofs` proves, for **every set of threads, objects, ids and values** (`DatabaseOK`), with
queries that fail and crashes anywhere:

- `ObjectsAreUnique`: `DatabaseSpec => []OneObject`;
- `NoChangeIsLost`: `DatabaseSpec => []NothingLost`;
- `TransactionsEnd`: `DatabaseSpec => []NoOpenTransaction`;
- `SavesAreAtomic`: `DatabaseSpec => AllOrNothing`, an action property.

`DatabaseOK` is what section 6 says of UnlockedSave = TRUE and of Deltas = {-1}: a save tests `mAtomicOp`
under the mutex, and counters count up; and that `None`, which stands for no thread and for no object,
is neither. `NothingLost` excepts the objects that a save is at work on, and is
false of them: between the query and `SaveRegister` the row is ahead of the object. `DatabaseInv` says what is true
instead. Its parts: who has the mutex and what does not overlap with SaveObjects() (`Locked`);
an object is used by one thread at a time (`UsedByOne`); mObjects and mCreated share the
objects out (`Indexed`); the fields a save gathered are still those it finds when it has the mutex
(`Gathered`); what is modified is queued (`Queued`); how each object and its row on disk differ
(`OnDisk`, by `Differs`); what a transaction has done and what it has still to do (`InTransaction`); and that
a row read without the mutex is the row still when its object is made, unless another thread has made
that object or is about to register it (`Loading`). The last is where loads and saves meet.
`SavesAreAtomic` is about the step that ends a transaction: for a `Commit`, `InTransaction` at the end of
its list says that the rows are final, and `CommitFacts` and `CommitIndex` what becomes of the objects.

For a **field of each of the five types, for all values, increments and referenced objects** (`FieldOK`):

- `FieldsAreStored`: `FieldSpec => []FieldIsStored`.

`FieldInv` is `Kept` and `PointsTo`. `FieldIsStored` says nothing of a field that is modified; `Kept` says, of it
too, which change its counter stands for, and of a ScalarType that a modified one has a real value, without which
the next comparison with the old value could find equal what is not. `FieldOK`: counters count up, and
neither NULL nor the empty string is an id of an object.

For **every number of versions and of queries** (`SizesOK`):

- `InstalledVersions`: `InstallSpec => []VersionIsTrue`.

`VersionIsTrue` speaks of the tables and is not inductive: while the queries of an upgrade
run, the table is ahead, and by how much depends on the program that runs. `InstallInv`
is `InstallTypeOK /\ Recoverable /\ Upgrading /\ Finished`: what every program may find, what is true
while one upgrades, and which tables it has finished with. A step that ends the program needs
`Recoverable` alone, which is why a crash anywhere is harmless.

`PartsProofs` proves, each for all values of its module's constants under the assumption named:

| theorem | statement | assumption |
|---|---|---|
| `WaitersAreTold` | `PoolSpec => []NobodySleepsIdle` | `PoolOK`: one runner or more |
| `FirstIsServed` | `SemSpec => []FirstIsAwake` | `SemOK`: finitely many threads |
| `WaitersStayAwake` | `PoolSpec /\ SemSpec => []WaitersAwake` | both |
| `ListsAreMaps` | `MapSpec => []TableIsList` | `MapOK`: the bound on the size is a number |
| `PagesAreWhole` | `FetchSpec => []PagesAreFile` | `FetchOK`: sizes are numbers, and a page is not empty |
| `SessionsStay` | `SessionSpec => []SessionsKept` | `SessionOK`: the given session is one |
| `CallsAreTrue` | `CallSpec => []CallTruth` | `CallOK`: no refusal has the code 200 or 404 |
| `RequestsAreInputs` | `RequestSpec => []RequestIsInput` | `RequestOK`: a URL's own parameter is none of a call |
| `MountsEnd` | `MountSpec => []MountEnds` | `MountOK`: fuse_new() does not fail with libfuse 2 (section 6) |

- `PoolInv` is `PoolTypeOK /\ LocksAreTrue /\ UsersAreTrue /\ MutexIsTrue /\ SomebodyBusy`. That
  somebody is on the way whenever someone sleeps is stronger than the property, which asks for it
  only with a runner free: the last thread that looks and finds all runners taken knows, by
  `LocksAreTrue`, that their users will give a signal.
- `SemInv` adds to `FirstIsAwake` that who waits is in the queue (`WaitersQueued`), so that the
  notification of one that leaves reaches the first, however the queue has changed.
- `MapInv` is `ListOK`: the nodes' places in the list, in the table and in the map agree. Every operation is
  an insertion at a place, a removal at one, or both, so the proof has two lemmas, `EntryIn`
  and `EntryOut`, and one per operation that says where.
- `FetchInv` says of the page being filled that it has the bytes of one response, up to where the attempt is
  (`InPlace`): what an attempt that broke off left in a page is overwritten, as the repeat begins at
  the same page again or is ignored. A page is handed over with the file's bytes or, by an attempt that
  may be repeated, with those of an error's body that reaches its end (`Filled`). `FirstTry` is what
  makes a first attempt finish its pages: all its bytes are for the page that is being filled.
  `AllCopied` says that the number of bytes with which ReadFile decides that it has everything is
  reached only when the last page is. `CopyLemma` is one round of the copying loop.
- `SessionInv`: a session that lives has somebody who cares for it (`CaredFor`): a row,
  the user who gave it, the context that will end it, or one of the named losses; and a context
  that will end its session shares it with no other (`Ending`). The second
  is what the property needs and does not say.
- `CallInv`: while a call is under way, the item is as before or as it is to be (`Underway`), so
  that carrying a request out a second time changes nothing (`ChangesTwice`).
- `RequestInv` relates what a redirect left in the runner to where the server is, `MountInv` how
  far FuseMain() is to how far its caller is (`StageOK`, `CallerOK`) and to who cleans the cache.

Parts.cfg's constants satisfy every one of these assumptions.

**Only model-checked.**

- All liveness (`EveryWaiterServed`, `PriorityReaderServed`, `Ends`, `CallsReturn`, `ReadsEnd`), which is
  out of the prover's reach.
- `CallsKeepWord`, `SeenIsStored` (FuseOps), `SelectsMeant` (QueryBuilder) and `TextIsKept` (Strings): what
  they speak of is written with recursive operators, about which nothing can be proved here.
- `MemoryIsWhole`, whose sums run over sets of ranges, and `ArgsAreMeant`, whose settings are
  taken one after the other: facts about folds and recursive functions over data, by induction
  for which the library's theorems cannot be used.
- `WrittenIsRead`: FileWrite is one user and one step at a time, over the operators of PageManager whose lemmas
  are in `PageManagerProofs`; its loops, over the chunks of a write and over the runs of a
  flush, add the deferred evictions to what those lemmas keep. Not attempted.

## 6. What the models showed about the code

The first five are findings in PROJECT.json, each with its run.

- *An item that is replaced by a rename or move is destructed in use*
  (`filesystem/Folder.cpp:293-294, 327-328`): no GetDeleteLock().
- *A rename can wait for itself* (`filesystem/Item.cpp:190`): it keeps the scope lock
  and refreshes the parent, which waits for that scope lock.
- *A repeated request leaves a hole in the file* (`backend/BackendImpl.cpp:756`).
- *A read-ahead can fail an assertion after a truncation* (`filedata/PageManager.cpp:380`).
- *A download that is repeated can fail an assertion* (`filedata/PageBackend.cpp:71, 98`): the next page is
  made before it is known whether the data is for it. After the last page, data that is ignored as
  belonging to a page before, as "can happen on retries" (89), leaves that page begun, and the
  assertion "unfinished read" fails although all pages have been handed over. It takes a
  connection that is lost after the last byte and before the end of the response (of a chunked one, say),
  or a 503 with a body as long as the pages that are wanted.
- Not runs of their own, but reproduced with the modules here:
  - Ops = {"list", "refresh"} in ItemTreeDeadlock.cfg violates CallsReturn: readdir
    holds the scope locks of all items and waits for one's read lock, which a
    refresh holds while it waits for the scope lock of another.
  - Faults = {"memory"} in FileData.cfg violates CleanMeansStored: a write past
    the end extends the old last page (`PageManager.cpp:172-177`), and when the new
    page gets no memory the extension stays and is flushed with the page.
  - Faults = {"remote"} violates Coherent: after another client has made the file
    longer, the dirty last page that is kept (`PageManager.cpp:666`) is too short.
  - Faults = {"lost"} violates CleanMeansStored: Truncate() tells the server nothing
    when `mBackendSize` is the new size already (`PageBackend.cpp:178`), and after a
    write that was stored but not answered it is smaller than what the server has.
    With MaxChanges 5 it violates Coherent: data cut off by the
    truncation that was skipped come back when the file grows again.
  - Ahead = TRUE in FileData.cfg violates Tracked: a read-ahead thread whose page
    has been written meanwhile tells the cache manager that it is clean
    (`PageManager.cpp:411`), and the dirty page leaves the dirty queue.
  - GrowDirty = TRUE with MaxCalls = 4 there violates Tracked as well: a
    write that makes a dirty page larger may evict or flush the last page of its file itself
    (`CacheManager.cpp:159-177`). The dirty pages that follow that one go with it
    (`GetWriteList`, `PageManager.cpp:459-498`), the page being written among them, which leaves the
    dirty queue. WritePage sets it dirty again, and last for this very reason
    (`PageManager.cpp:79-83`), but that restores the flag only: the page is dirty, and neither in
    mDirtyQueue nor counted in mCurrentDirty (`CacheManager.hpp:35` wants dirty pages tracked).
  - `~cacheAborted`, as an invariant of FileData.cfg, is violated in three ways. An entry
    whose TryLockScope() failed stays in the map, and its PageManager, which is being
    destructed, is locked all the same (`CacheManager.cpp:442-446`; the comment at 429
    wants the scope lock for this, `ScopeLocked.hpp` that it is checked). Removing a page
    while walking the queue (432) makes the loop skip one, or run past the
    front. And the entry with its scope lock is erased (470) before `mgrLock` is let go
    at the end of the block, so the file may be gone with its lock.
  - Dirty memory may exceed `mDirtyLimit` with the flush thread asleep: InformPage()
    looks for it only when the page has become larger (`CacheManager.cpp:83`), so
    writing to a clean page in memory does not count. And total memory may exceed its
    limit with the evict thread asleep: a caller whose wait is skipped for the sake
    of the other thread (`ShouldSkipWait`) does not notify its own (180-188). Both last until
    the next call.
- In the modules of `parts`, with the constant named changed in Parts.cfg or in MCParts:
  - *FetchFile*, `handed[p] = FilePage(p)` alone for the pages in PagesAreFile: it is violated. The
    body of a 503 goes to the reader like any other, the status is looked at afterwards
    (`backend/HTTPRunner.cpp:342-343`), and a page that it fills is handed over as file data.
    Shorter bodies are overwritten by the repeat.
  - *ObjectDatabase*, UnlockedSave = TRUE: NothingLost is violated. `SaveObject()` tests
    `mAtomicOp` without the mutex (`database/ObjectDatabase.cpp:101`) and then takes part in another
    thread's transaction: rolled back, its row is gone and its object counts as saved.
  - *ObjectDatabase*, Deltas = {-1}: NothingLost is violated. A counter's `mDelta` is the sum of
    its increments, and `isModified()` asks for a positive one (`database/fieldtypes/BaseField.hpp:47`).
  - *FieldLife*: a nullable field set to v, to NULL, and to v again stays NULL, as the value is compared
    with one that is not there any more (`ScalarType.hpp:81`; `TakenForOld` is the exception in
    the property). An empty string that was stored reads as NULL (`database/MixedValue.cpp:96`).
  - *QueryBuilder*: `Where(nullptr)` takes the conditions away and leaves their values in
    `mParams` (`QueryBuilder.hpp:167`); the meaning is kept, but SqliteDatabase binds every
    value and throws for one without a placeholder (`SqliteDatabase.cpp:149-153`).
  - *FuseMount*: `~freed` as an invariant is violated: the destructor reads `mFuseMount` and calls
    `TriggerUnmount()` (`src/src/lib/andromeda-fuse/FuseAdapter.cpp:416-420`) while the
    thread of the mount, whose mount was taken away, destroys the struct fuse.
  - *FuseMount*, ContextFails = {2, 3}: MountEnds is violated. With libfuse 2 the mount comes
    first (342-343), and when `fuse_new()` fails nothing takes it away: FuseMount's
    `Unmount()`, which its comment wants to be called before the end (86), is not called. It
    would also give `fuse_unmount()` the channel it has just set to nullptr.
  - *FuseOps*, UnsavedReplace = TRUE: CallsKeepWord and SeenIsStored are violated. A file that is not at the server
    and is renamed over one that is there, or moved, takes its name here only
    (`filesystem/File.cpp:153`), and its upload is refused later as a duplicate.
  - *FileWrite*, WriteFaults = {"remote"}: WrittenIsRead is violated by `aborted`. An append that is
    flushed after the file has changed at the server does not start at its end, and
    PageBackend's assertion (`filedata/PageBackend.cpp:120`) fails.
- Read in the code while modelling, and not stated as properties:
  - the free list's limit is an unsigned difference and wraps round as long as less was
    allocated than the baseline (`filedata/CachingAllocator.cpp:117`), which makes the list unlimited then; `mmap()`'s
    MAP_FAILED is not looked for (`filedata/MemoryAllocator.cpp:54`); BandwidthMeasure may divide by a
    time of zero;
  - a redirect to a relative location leaves the runner without a host, so later
    requests fail (`backend/HTTPRunner.cpp:365`); `Clone()` reads the host and path of another runner without its
    lock; `RunnerInput_StreamIn::FromStream` throws when a request that had read its
    stream to the end is repeated from 0, for the stream is not `good()` then
    (`backend/RunnerInput.cpp:46`), where the header (59) says that the offset may reset;
  - the options of a line are applied in the order of their names, flags first
    (`BaseOptions.cpp:77-81`): of `--apiurl` and `-a` the former counts, wherever it stands. A configuration
    file may name itself and is read without end (172). The help says `--config-file` (29), and the code
    takes `config` (170). `--key%=path` gives the path as the file's name too
    (`src/src/bin/andromeda-cli/CommandLine.cpp:110-114, 185`);
  - `FuseOperations.cpp:519` is to keep a folder from being moved into itself and misses a move directly
    into itself; line 276, for macOS, assigns `st_atime` to itself; `src/src/bin/andromeda-fuse/mount.cpp:38`
    passes the URL just when it is "none", where the help (21) says that then none is passed.

## 7. What is left out

- *Failures of a failure*: a ROLLBACK that itself fails, whose exception takes the place of the first
  (`database/SqliteDatabase.cpp:188`); a truncation that fails in ResizePage, after pages have been
  taken out (`filedata/PageManager.cpp:690-695`); an append that bypasses the cache and was stored, but
  whose answer was lost (`filesystem/File.cpp:244, 314`).
- *Item tree*: adoption of folders by another parent; the kernel's own locking above FUSE, which makes some
  of the interleavings rarer. FuseOps has what ItemTree leaves out (ids, nesting, unsaved files, the
  virtual root) for one call at a time.
- *PageManager*: the value of the fetch size (any size up to MaxFetch; `BandwidthMeasure` is
  arithmetic on measured times), the upload limit on runs of pages, File's `CalcPageSize`.
- *CacheManager*: starting and stopping its threads (a destructor that notifies
  between a thread's test and its wait is lost, `filesystem/filedata/CacheManager.cpp:45`), the
  statistics, the order of files by address in one round (any order), deferred evictions.
- *Destruction of a File* while fetch threads use it (`filesystem/File.hpp:167`): planned.
- *Backend*: the lists of storages and the limits, which are only read; CLIRunner's process and
  pipes; settings of TLS, proxy and time-outs.
- *Database*: the text of SQL and of TableBuilder, joins, several classes of objects in one table.
- *FUSE*: statfs; chmod and chown beyond their checks; Windows and the BSDs.
- *Command line*: help texts and exit codes. *GUI*: windows, dialogs, Qt's event loop.
- *Crypto, SecureBuffer, Debug, PlatformUtil*: wrappers of libsodium, of the console and of the operating system.
  Nothing in the programs calls Crypto yet, and none of them has a state that a step could break.
- Of `String functions`: trimming, tests of prefixes, random strings.
