------------------------------ MODULE FuseMount ------------------------------
(* The life of a mount: FuseAdapter's StartFuse(), FuseMain() and destructor, in the GUI's
   MountContext (mode THREAD) and in andromeda-fuse (FOREGROUND, DAEMON).  libfuse and the
   kernel are external: the mount may be taken away by anyone, fuse_exit() is seen only when
   the next request comes, and any call to them may fail. *)
EXTENDS Integers

CONSTANTS
    MaxRequests,          \* bound on the requests served
    ContextFails          \* versions of libfuse, 2 and 3, whose fuse_new() may fail

VARIABLES
    lib,                  \* LIBFUSE2: the version of libfuse
    mode, created,        \* RunMode; MountContext made the directory
    caller,               \* the thread of StartFuse() and of the destructor
    fuse,                 \* where FuseMain() is
    mFuseMount,           \* the pointer is set; with libfuse 2 it is mFuseContext
    mInitialized, mInitError,
    context, mounted, exited,   \* the struct fuse, the kernel's mount, and fuse_exit()
    directory,            \* of the mount path: "none" or "empty"
    cleaner,              \* CacheManager's threads run in this process
    dirty, served,        \* data that was written and not flushed; requests so far
    freed                 \* TriggerUnmount() used a struct fuse that was gone

mountVars == <<lib, mode, created, caller, fuse, mFuseMount, mInitialized, mInitError, context,
               mounted, exited, directory, cleaner, dirty, served, freed>>

Thread == mode = "THREAD"

MountInit ==
    /\ lib \in {2, 3}
    /\ mode \in {"THREAD", "FOREGROUND", "DAEMON"}
    /\ caller = "construct" /\ fuse = "none"
    /\ directory \in {"none", "empty"} /\ created = FALSE
    /\ mFuseMount = FALSE /\ mInitialized = FALSE /\ mInitError = FALSE
    /\ context = FALSE /\ mounted = FALSE /\ exited = FALSE
    /\ cleaner = Thread              \* the GUI's runs already, main() starts its own
    /\ dirty = FALSE /\ served = 0 /\ freed = FALSE

(* MountContext makes the directory, if there is none; andromeda-fuse leaves that to libfuse *)
PrepareMount ==
    /\ caller = "construct"
    /\ caller' = "start"
    /\ IF Thread /\ directory = "none" THEN directory' = "empty" /\ created' = TRUE
       ELSE created' = Thread /\ UNCHANGED directory
    /\ UNCHANGED <<lib, mode, fuse, mFuseMount, mInitialized, mInitError, context, mounted,
                   exited, cleaner, dirty, served, freed>>

(* StartFuse(): a thread of its own and a wait for its first signal, or this thread *)
StartFuse ==
    /\ caller = "start"
    /\ caller' = IF Thread THEN "wait" ELSE "FuseMain"
    /\ fuse' = IF lib = 3 THEN "new" ELSE "mount"
    /\ cleaner' = (cleaner \/ mode = "FOREGROUND")
    /\ UNCHANGED <<lib, mode, created, mFuseMount, mInitialized, mInitError, context, mounted,
                   exited, directory, dirty, served, freed>>

AfterMount == IF mode = "DAEMON" THEN "daemonize" ELSE "loop"

(* FuseArguments, then the FuseContext: fuse_new() *)
NewContext ==
    /\ fuse = "new" /\ lib = 3
    /\ \/ context' = TRUE /\ fuse' = "mount" /\ UNCHANGED mInitError
       \/ 3 \in ContextFails /\ mInitError' = TRUE /\ fuse' = "signal" /\ UNCHANGED context
    /\ UNCHANGED <<lib, mode, created, caller, mFuseMount, mInitialized, mounted, exited,
                   directory, cleaner, dirty, served, freed>>

Mount ==
    /\ fuse = "mount" /\ lib = 3
    /\ \/ /\ directory # "none" /\ mounted' = TRUE /\ mFuseMount' = TRUE
          /\ fuse' = AfterMount
          /\ UNCHANGED mInitError
       \/ mInitError' = TRUE /\ fuse' = "destroy" /\ UNCHANGED <<mounted, mFuseMount>>
    /\ UNCHANGED <<lib, mode, created, caller, mInitialized, context, exited, directory,
                   cleaner, dirty, served, freed>>

(* libfuse 2 mounts first; the FuseMount has no destructor *)
MountChannel ==
    /\ fuse = "mount" /\ lib = 2
    /\ \/ directory # "none" /\ mounted' = TRUE /\ fuse' = "new" /\ UNCHANGED mInitError
       \/ mInitError' = TRUE /\ fuse' = "signal" /\ UNCHANGED mounted
    /\ UNCHANGED <<lib, mode, created, caller, mFuseMount, mInitialized, context, exited,
                   directory, cleaner, dirty, served, freed>>

NewOnChannel ==
    /\ fuse = "new" /\ lib = 2
    /\ \/ /\ context' = TRUE /\ mFuseMount' = TRUE
          /\ fuse' = AfterMount
          /\ UNCHANGED mInitError
       \/ /\ 2 \in ContextFails /\ mInitError' = TRUE /\ fuse' = "signal"
          /\ UNCHANGED <<context, mFuseMount>>
    /\ UNCHANGED <<lib, mode, created, caller, mInitialized, mounted, exited, directory,
                   cleaner, dirty, served, freed>>

(* fuse_daemonize() leaves this thread alone in a new process, then forkFunc *)
Daemonize ==
    /\ fuse = "daemonize"
    /\ \/ cleaner' = TRUE /\ fuse' = "loop" /\ UNCHANGED mInitError
       \/ mInitError' = TRUE /\ fuse' = "unmount" /\ UNCHANGED cleaner
    /\ UNCHANGED <<lib, mode, created, caller, mFuseMount, mInitialized, context, mounted,
                   exited, directory, dirty, served, freed>>

(* the first request: FuseOperations::init() *)
InitRequest ==
    /\ fuse = "loop" /\ mounted /\ ~mInitialized
    /\ mInitialized' = TRUE
    /\ UNCHANGED <<lib, mode, created, caller, fuse, mFuseMount, mInitError, context, mounted,
                   exited, directory, cleaner, dirty, served, freed>>

(* another request, which may write; fuse_exit() is looked at afterwards *)
Serve ==
    /\ fuse = "loop" /\ mounted /\ mInitialized /\ served < MaxRequests
    /\ served' = served + 1
    /\ dirty' \in {dirty, TRUE}
    /\ fuse' = IF exited THEN "unmount" ELSE "loop"
    /\ UNCHANGED <<lib, mode, created, caller, mFuseMount, mInitialized, mInitError, context,
                   mounted, exited, directory, cleaner, freed>>

(* fuse_loop() or fuse_loop_mt() returns, also for a signal when they are registered *)
LoopEnds ==
    /\ fuse = "loop"
    /\ \/ (~mounted \/ ~Thread) /\ UNCHANGED mInitError
       \/ mInitError' = TRUE
    /\ fuse' = "unmount"
    /\ UNCHANGED <<lib, mode, created, caller, mFuseMount, mInitialized, context, mounted,
                   exited, directory, cleaner, dirty, served, freed>>

(* ~FuseMount, or with libfuse 2 the first half of ~FuseContext *)
Unmount ==
    /\ fuse = "unmount"
    /\ mFuseMount' = FALSE /\ mounted' = FALSE /\ fuse' = "destroy"
    /\ UNCHANGED <<lib, mode, created, caller, mInitialized, mInitError, context, exited,
                   directory, cleaner, dirty, served, freed>>

Destroy ==
    /\ fuse = "destroy"
    /\ context' = FALSE /\ fuse' = "signal"
    /\ UNCHANGED <<lib, mode, created, caller, mFuseMount, mInitialized, mInitError, mounted,
                   exited, directory, cleaner, dirty, served, freed>>

(* mutant of FuseMainEnds: only FuseOperations::init() signals *)
FuseMainEndsSilent ==
    /\ fuse = "signal"
    /\ fuse' = "ended"
    /\ UNCHANGED <<lib, mode, created, caller, mFuseMount, mInitialized, mInitError, context,
                   mounted, exited, directory, cleaner, dirty, served, freed>>

(* "just in case fuse fails but doesn't throw" *)
FuseMainEnds ==
    /\ fuse = "signal"
    /\ mInitialized' = TRUE /\ fuse' = "ended"
    /\ UNCHANGED <<lib, mode, created, caller, mFuseMount, mInitError, context, mounted, exited,
                   directory, cleaner, dirty, served, freed>>

(* the rest of StartFuse(): the wait is over; mInitError is read without the mutex, while
   the thread may be about to set it *)
Started ==
    /\ \/ caller = "wait" /\ mInitialized
       \/ caller = "FuseMain" /\ fuse = "ended"
    /\ caller' = IF mInitError THEN "throw" ELSE "mounted"
    /\ UNCHANGED <<lib, mode, created, fuse, mFuseMount, mInitialized, mInitError, context,
                   mounted, exited, directory, cleaner, dirty, served, freed>>

JoinAndThrow ==
    /\ caller = "throw" /\ fuse = "ended"
    /\ caller' = "flushThrown"
    /\ UNCHANGED <<lib, mode, created, fuse, mFuseMount, mInitialized, mInitError, context,
                   mounted, exited, directory, cleaner, dirty, served, freed>>

(* the user, or anyone, unmounts *)
ExternalUnmount ==
    /\ mounted
    /\ mounted' = FALSE
    /\ UNCHANGED <<lib, mode, created, caller, fuse, mFuseMount, mInitialized, mInitError,
                   context, exited, directory, cleaner, dirty, served, freed>>

(* ~FuseAdapter: the pointer is read without a lock *)
Destruct ==
    /\ caller = "mounted"
    /\ caller' = IF mFuseMount THEN "exit" ELSE "join"
    /\ UNCHANGED <<lib, mode, created, fuse, mFuseMount, mInitialized, mInitError, context,
                   mounted, exited, directory, cleaner, dirty, served, freed>>

(* TrySystemUnmount(): the umount command, which may fail *)
TrySystemUnmount == mounted' \in {mounted, FALSE}

(* TriggerUnmount(): fuse_exit(), then the umount command *)
TriggerUnmount ==
    /\ caller = "exit"
    /\ freed' = ~context /\ exited' = TRUE
    /\ TrySystemUnmount
    /\ caller' = "join"
    /\ UNCHANGED <<lib, mode, created, fuse, mFuseMount, mInitialized, mInitError, context,
                   directory, cleaner, dirty, served>>

Join ==
    /\ caller = "join" /\ fuse = "ended"
    /\ caller' = "flush"
    /\ UNCHANGED <<lib, mode, created, fuse, mFuseMount, mInitialized, mInitError, context,
                   mounted, exited, directory, cleaner, dirty, served, freed>>

(* ~MountContext removes the directory it made; one that was never constructed does not *)
DirectoryLeft == IF created /\ caller = "flush" THEN "none" ELSE directory

(* FlushCache(nothrow) *)
Flush ==
    /\ caller \in {"flush", "flushThrown"}
    /\ dirty' = FALSE /\ directory' = DirectoryLeft
    /\ caller' = "gone"
    /\ UNCHANGED <<lib, mode, created, fuse, mFuseMount, mInitialized, mInitError, context,
                   mounted, exited, cleaner, served, freed>>

MountNext ==
    \/ PrepareMount \/ StartFuse \/ NewContext \/ Mount \/ MountChannel \/ NewOnChannel
    \/ Daemonize \/ InitRequest \/ Serve \/ LoopEnds \/ Unmount \/ Destroy \/ FuseMainEnds
    \/ Started \/ JoinAndThrow \/ ExternalUnmount \/ Destruct \/ TriggerUnmount \/ Join \/ Flush

MountSpec == MountInit /\ [][MountNext]_mountVars

(* Nobody waits for FuseMain() in vain, whichever step of it fails; nothing is served without
   the cache's threads, which a fork would have killed; and when the adapter is gone, the
   thread has ended, nothing is mounted and no write was left unflushed (StartFuse, FuseMain,
   SignalInit, ~FuseAdapter). *)
MountEnds ==
    /\ caller = "wait" /\ fuse = "ended" => mInitialized
    /\ caller = "join" /\ fuse = "loop" => exited
    /\ fuse = "loop" => cleaner
    /\ caller = "gone" => fuse = "ended" /\ ~mounted /\ ~context /\ ~dirty
    /\ mFuseMount => context
=============================================================================
