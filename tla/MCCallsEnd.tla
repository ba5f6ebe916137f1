----------------------------- MODULE MCCallsEnd -----------------------------
(* The calls of the item tree and the reads of a file under fair threads: a behaviour runs
   one of the two, `part', and leaves the variables of the other alone. *)
EXTENDS Naturals

CONSTANTS t1, t2, r1, r2, home, x, y, n1, n2, None

VARIABLES part,
    mItemMap, mName, mParent, status, scope, deleting, wlock, rlock, treePc, call,
    content, server, mBackendExists, mBackendSize, mFileSize, mPages, mPendingPages,
    mFailedPages, fetchers, pc, want, writerWaits, changes, aborted

Threads == {t1, t2}
Readers == {r1, r2}

IT == INSTANCE ItemTree WITH Folders <- {home}, Items <- {x, y}, Names <- {n1, n2},
    Ops <- {"read", "create", "delete", "refresh"}, Overwrite <- FALSE, pc <- treePc
PM == INSTANCE PageManager WITH PageSize <- 2, MaxSize <- 5, InitialSize <- 5, MaxFetch <- 2,
    ReadAhead <- 1, MaxChanges <- 2, Faults <- {"remote", "memory", "lost"}

treeVars == <<mItemMap, mName, mParent, status, scope, deleting, wlock, rlock, treePc, call>>
pageVars == <<content, server, mBackendExists, mBackendSize, mFileSize, mPages, mPendingPages,
              mFailedPages, fetchers, pc, want, writerWaits, changes, aborted>>
vars == <<part, treeVars, pageVars>>

AtRest == "at rest"

Init ==
    /\ part \in {"tree", "pages"}
    /\ IF part = "tree" THEN IT!Init
       ELSE /\ mItemMap = AtRest /\ mName = AtRest /\ mParent = AtRest /\ status = AtRest
            /\ scope = AtRest /\ deleting = AtRest /\ wlock = AtRest /\ rlock = AtRest
            /\ call = AtRest /\ treePc = [t \in Threads |-> "idle"]
    /\ IF part = "pages" THEN PM!Init
       ELSE /\ content = AtRest /\ server = AtRest /\ mBackendExists = AtRest
            /\ mBackendSize = AtRest /\ mFileSize = AtRest /\ mPages = AtRest
            /\ mPendingPages = AtRest /\ mFailedPages = AtRest /\ fetchers = AtRest
            /\ want = AtRest /\ writerWaits = AtRest /\ changes = AtRest
            /\ pc = [r \in Readers |-> "idle"] /\ aborted = FALSE

Next ==
    /\ UNCHANGED part
    /\ IF part = "tree" THEN IT!Next ELSE UNCHANGED treeVars
    /\ IF part = "pages" THEN PM!Next ELSE UNCHANGED pageVars

(* the fairness of ItemTree's and of PageManager's FairSpec *)
FairSpec ==
    /\ Init /\ [][Next]_vars
    /\ \A t \in Threads : SF_treeVars(part = "tree" /\ IT!Step(t))
    /\ \A r \in Readers : /\ SF_pageVars(part = "pages" /\ ~aborted /\ PM!Waited(r))
                          /\ WF_pageVars(part = "pages" /\ ~aborted /\ PM!Copy(r))
    /\ \A i \in PM!Indexes :
          WF_pageVars(part = "pages" /\ ~aborted /\ \E g \in fetchers : g.index = i /\ PM!Fetch(g))

(* The properties of each part, as its module states them. *)
CallsReturn == IT!CallsReturn
ReadsEnd == PM!ReadsEnd
=============================================================================
