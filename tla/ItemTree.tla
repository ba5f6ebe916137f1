------------------------------ MODULE ItemTree ------------------------------
(***************************************************************************)
(* The items of the in-memory tree and the three kinds of lock that keep it *)
(* consistent (Item.cpp, Folder.cpp): an item's scope lock is shared by the *)
(* calls that use it and exclusive while it is removed, an item's own lock  *)
(* guards its contents, and a folder's write lock guards its map of items.  *)
(*                                                                          *)
(* Threads are FUSE callers.  Each finds its item through the folder, which *)
(* may first be refreshed from the server, and every lock that may have to  *)
(* be waited for is a step of its own.  Folders are the fixed parents of    *)
(* the items; the items stand for files and for the folders below.          *)
(***************************************************************************)
EXTENDS Naturals, FiniteSets

CONSTANTS
    Threads, Folders, Items, Names,
    Ops,        \* the calls made, and "refresh" when a folder's contents may expire
    Overwrite,  \* whether a rename or a move may replace an item of that name
    None        \* no item, no thread, no name

ASSUME OpsAssumption ==
    Ops \subseteq {"read", "list", "create", "delete", "rename", "move", "refresh"}
ASSUME OverwriteAssumption == Overwrite \in BOOLEAN
ASSUME NoneAssumption == None \notin Threads \cup Folders \cup Items \cup Names

VARIABLES
    mItemMap,   \* mItemMap[f][n]: the item folder f has under name n
    mName,      \* the name an item believes it has
    mParent,    \* the folder an item believes it is in
    status,     \* "fresh" (not made yet), "live", or "erased" (destructed)
    scope,      \* threads that hold an item's scope lock shared
    deleting,   \* the thread that holds it exclusively
    wlock,      \* the thread that holds the write lock of an item or a folder
    rlock,      \* the threads that hold the read lock of an item
    pc,         \* where each thread is
    call        \* its arguments and local variables

treeVars == <<mItemMap, mName, mParent, status>>
lockVars == <<scope, deleting, wlock, rlock>>
vars == <<mItemMap, mName, mParent, status, scope, deleting, wlock, rlock, pc, call>>

Calls == {"read", "list", "create", "delete", "rename", "move"}

Content(f) == {mItemMap[f][n] : n \in Names} \ {None}
NameIn(f, i) == CHOOSE n \in Names : mItemMap[f][n] = i
Fresh == {i \in Items : status[i] = "fresh"}
Unlocked(o) == wlock[o] = None /\ (o \in Items => rlock[o] = {})

(* the state of a thread between calls *)
NoCall == [op |-> "none", folder |-> None, name |-> None, to |-> None,
           item |-> None, sub |-> None, todo |-> {}]

Go(t, step) == pc' = [pc EXCEPT ![t] = step]
Set(t, c) == call' = [call EXCEPT ![t] = c]

(* A call returns, or throws: its locks are released as its scopes unwind. *)
Return(t) ==
    /\ Go(t, "idle") /\ Set(t, NoCall)
    /\ scope' = [i \in Items |-> scope[i] \ {t}]
    /\ deleting' = [i \in Items |-> IF deleting[i] = t THEN None ELSE deleting[i]]
    /\ wlock' = [o \in Folders \cup Items |-> IF wlock[o] = t THEN None ELSE wlock[o]]
    /\ rlock' = [i \in Items |-> rlock[i] \ {t}]

(* a new item is put into its slot, and its constructor gives it its name (Insert) *)
Place(f, n, i) ==
    /\ mItemMap' = [mItemMap EXCEPT ![f][n] = i]
    /\ mParent' = [mParent EXCEPT ![i] = f]
    /\ status' = [status EXCEPT ![i] = "live"]
Insert(f, n, i) == Place(f, n, i) /\ mName' = [mName EXCEPT ![i] = n]

(* Item::Refresh() and the constructor: the names of items with these slots, which are listed *)
ListedNames(slots, listing) ==
    [i \in Items |-> IF \E n \in listing : slots[n] = i
                    THEN CHOOSE n \in listing : slots[n] = i ELSE mName[i]]

(* unique_ptr destruction: the item leaves its slot and is gone *)
Erase(f, i) ==
    /\ mItemMap' = [mItemMap EXCEPT ![f][NameIn(f, i)] = None]
    /\ status' = [status EXCEPT ![i] = "erased"]
    /\ UNCHANGED <<mName, mParent>>

-----------------------------------------------------------------------------
(* Every call begins with GetItemByPath() or GetFolderByPath(). *)
Begin(t) ==
    /\ pc[t] = "idle"
    /\ \E op \in Ops \cap Calls, f \in Folders, n \in Names :
         \E to \in IF op = "rename" THEN Names
                   ELSE IF op = "move" THEN Folders \ {f} ELSE {None} :
           Set(t, [NoCall EXCEPT !.op = op, !.folder = f, !.to = to,
                                 !.name = IF op = "list" THEN None ELSE n])
    /\ Go(t, "folder")
    /\ UNCHANGED <<treeVars, lockVars>>

(* LoadItems() follows at once: the contents are recent, or are refreshed. *)
LockFolder(t) ==
    /\ pc[t] = "folder"
    /\ Unlocked(call[t].folder)
    /\ wlock' = [wlock EXCEPT ![call[t].folder] = t]
    /\ \/ Go(t, "find")
       \/ "refresh" \in Ops /\ Go(t, "lockItems")
    /\ UNCHANGED <<treeVars, scope, deleting, rlock, call>>

(* LockItems() has the write lock of every item.  It tries them all, and when one
   is not free lets go of the others, waits for that one and starts again: it gets
   past that when all of them are free, and never waits for one holding another. *)
LockItems(t) ==
    LET content == Content(call[t].folder) IN
    /\ pc[t] = "lockItems"
    /\ \A i \in content : Unlocked(i)
    /\ wlock' = [o \in DOMAIN wlock |-> IF o \in content THEN t ELSE wlock[o]]
    /\ Go(t, "sync")
    /\ UNCHANGED <<treeVars, scope, deleting, rlock, call>>

(* SubLoadItems() reads the server's listing, which may have any names (those of
   files not yet uploaded count as listed), or fails.  SyncContents() adds what is
   new, at most one item at a time here, refreshes the others that are listed, and
   will remove what is not listed. *)
SubLoadItems(t) ==
    LET f == call[t].folder IN
    /\ pc[t] = "sync"
    /\ \E listing \in SUBSET Names :
         /\ \/ /\ \A n \in listing : mItemMap[f][n] # None
               /\ UNCHANGED <<mItemMap, mParent, status>>
            \/ \E n \in listing, i \in Fresh :
                 /\ {m \in listing : mItemMap[f][m] = None} = {n}
                 /\ Place(f, n, i)
         /\ mName' = ListedNames(mItemMap'[f], listing)
         /\ Set(t, [call[t] EXCEPT !.todo =
                {i \in Content(f) : NameIn(f, i) \notin listing}])
    /\ Go(t, "purge")
    /\ UNCHANGED lockVars

LoadFails(t) == pc[t] = "sync" /\ Return(t) /\ UNCHANGED treeVars

(* The lock of an item that is not listed is given up and its users waited for;
   when there are no more such items the others are unlocked. *)
Purge(t) ==
    /\ pc[t] = "purge"
    /\ IF call[t].todo = {}
       THEN /\ wlock' = [o \in DOMAIN wlock |->
                           IF o \in Items /\ wlock[o] = t THEN None ELSE wlock[o]]
            /\ Go(t, "find") /\ UNCHANGED call
       ELSE \E i \in call[t].todo :
            /\ wlock' = [wlock EXCEPT ![i] = None]
            /\ Set(t, [call[t] EXCEPT !.sub = i])
            /\ Go(t, "purgeWait")
    /\ UNCHANGED <<treeVars, scope, deleting, rlock>>

(* mutant of ScopeFree: the users of an item are not waited for *)
ScopeIgnored(i) == i \in Items
ScopeFree(i) == scope[i] = {} /\ deleting[i] = None

PurgeErase(t) ==
    LET i == call[t].sub IN
    /\ pc[t] = "purgeWait"
    /\ ScopeFree(i)
    /\ Erase(call[t].folder, i)
    /\ Set(t, [call[t] EXCEPT !.todo = @ \ {i}, !.sub = None])
    /\ Go(t, "purge")
    /\ UNCHANGED lockVars

-----------------------------------------------------------------------------
(* The item is in the map and can be scope-locked; the folder is let go. *)
FindItem(t) ==
    LET i == mItemMap[call[t].folder][call[t].name] IN
    /\ pc[t] = "find" /\ call[t].op \in {"read", "delete", "rename", "move"}
    /\ UNCHANGED treeVars
    /\ IF i = None \/ deleting[i] # None THEN Return(t)    \* NotFoundException
       ELSE /\ scope' = [scope EXCEPT ![i] = @ \cup {t}]
            /\ wlock' = [wlock EXCEPT ![call[t].folder] = None]
            /\ Set(t, [call[t] EXCEPT !.item = i, !.folder = None, !.name = None])
            /\ Go(t, "item")
            /\ UNCHANGED <<deleting, rlock>>

(* The caller locks the item: shared to read it, exclusive to change it. *)
LockItem(t) ==
    LET i == call[t].item IN
    /\ pc[t] = "item"
    /\ IF call[t].op = "read"
       THEN /\ wlock[i] = None
            /\ rlock' = [rlock EXCEPT ![i] = @ \cup {t}] /\ UNCHANGED wlock
       ELSE /\ Unlocked(i)
            /\ wlock' = [wlock EXCEPT ![i] = t] /\ UNCHANGED rlock
    /\ Go(t, "using")
    /\ UNCHANGED <<treeVars, scope, deleting, call>>

Read(t) == pc[t] = "using" /\ call[t].op = "read" /\ Return(t) /\ UNCHANGED treeVars

(* readdir: GetItems() scope-locks every item, then reads one after another *)
GetItems(t) ==
    LET f == call[t].folder IN
    /\ pc[t] = "find" /\ call[t].op = "list"
    /\ scope' = [i \in Items |-> IF i \in Content(f) THEN scope[i] \cup {t} ELSE scope[i]]
    /\ wlock' = [wlock EXCEPT ![f] = None]
    /\ Set(t, [call[t] EXCEPT !.todo = Content(f), !.folder = None])
    /\ Go(t, "list")
    /\ UNCHANGED <<treeVars, deleting, rlock>>

ListNext(t) ==
    /\ pc[t] = "list"
    /\ UNCHANGED treeVars
    /\ \/ call[t].todo = {} /\ Return(t)
       \/ \E i \in call[t].todo :
            /\ wlock[i] = None
            /\ rlock' = [rlock EXCEPT ![i] = @ \cup {t}]
            /\ Set(t, [call[t] EXCEPT !.todo = @ \ {i}, !.sub = i])
            /\ Go(t, "listing")
            /\ UNCHANGED <<scope, deleting, wlock>>

ListDone(t) ==
    /\ pc[t] = "listing"
    /\ rlock' = [rlock EXCEPT ![call[t].sub] = @ \ {t}]
    /\ Set(t, [call[t] EXCEPT !.sub = None])
    /\ Go(t, "list")
    /\ UNCHANGED <<treeVars, scope, deleting, wlock>>

(* CreateFile(), CreateFolder(): an item is added unless the name is taken or
   the server refuses. *)
CreateItem(t) ==
    LET c == call[t] IN
    /\ pc[t] = "find" /\ c.op = "create"
    /\ Return(t)
    /\ \/ UNCHANGED treeVars
       \/ \E i \in Fresh : mItemMap[c.folder][c.name] = None /\ Insert(c.folder, c.name, i)

-----------------------------------------------------------------------------
(* mutant of Delete: only the item's lock is given up *)
DeleteInScope(t) ==
    LET i == call[t].item IN
    /\ pc[t] = "using" /\ call[t].op = "delete"
    /\ wlock' = [wlock EXCEPT ![i] = None]
    /\ Set(t, [call[t] EXCEPT !.op = "DeleteItem", !.folder = mParent[i]])
    /\ Go(t, "folder")
    /\ UNCHANGED <<treeVars, scope, deleting, rlock>>

(* Item::Delete() gives up both locks of the item, then goes through the parent. *)
Delete(t) ==
    LET i == call[t].item IN
    /\ pc[t] = "using" /\ call[t].op = "delete"
    /\ wlock' = [wlock EXCEPT ![i] = None]
    /\ scope' = [scope EXCEPT ![i] = @ \ {t}]
    /\ Set(t, [call[t] EXCEPT !.op = "DeleteItem", !.folder = mParent[i]])
    /\ Go(t, "folder")
    /\ UNCHANGED <<treeVars, deleting, rlock>>

(* DeleteItem(mName): the name is read from an item nothing protects any more;
   of a destructed item it may be any name. *)
DeleteItem(t) ==
    LET i == call[t].item IN
    /\ pc[t] = "find" /\ call[t].op = "DeleteItem"
    /\ UNCHANGED treeVars
    /\ \E n \in IF status[i] = "erased" THEN Names ELSE {mName[i]} :
         LET found == mItemMap[call[t].folder][n] IN
         IF found = None THEN Return(t)    \* NotFoundException
         ELSE /\ Set(t, [call[t] EXCEPT !.item = None, !.sub = found])
              /\ Go(t, "deleteWait")
              /\ UNCHANGED lockVars

GetDeleteLock(t) ==
    LET i == call[t].sub IN
    /\ pc[t] = "deleteWait"
    /\ ScopeFree(i)
    /\ deleting' = [deleting EXCEPT ![i] = t]
    /\ Go(t, "subDelete")
    /\ UNCHANGED <<treeVars, scope, wlock, rlock, call>>

(* SubDelete() may throw; File::SubDelete() takes the file's write lock to ask
   whether it exists on the backend *)
SubDelete(t) ==
    LET i == call[t].sub IN
    /\ pc[t] = "subDelete"
    /\ Unlocked(i)
    /\ Return(t)
    /\ UNCHANGED treeVars \/ Erase(call[t].folder, i)

-----------------------------------------------------------------------------
(* Item::Rename() and Move() keep the scope lock, give up the item's write lock
   and wait for the parent, or for both parents. *)
Rename(t) ==
    LET i == call[t].item IN
    /\ pc[t] = "using" /\ call[t].op = "rename"
    /\ UNCHANGED treeVars
    /\ IF mName[i] = call[t].to THEN Return(t)
       ELSE /\ wlock' = [wlock EXCEPT ![i] = None]
            /\ Set(t, [call[t] EXCEPT !.op = "RenameItem", !.folder = mParent[i]])
            /\ Go(t, "folder")
            /\ UNCHANGED <<scope, deleting, rlock>>

Move(t) ==
    LET i == call[t].item IN
    /\ pc[t] = "using" /\ call[t].op = "move"
    /\ UNCHANGED treeVars
    /\ IF mParent[i] = call[t].to THEN Return(t)
       ELSE /\ wlock' = [wlock EXCEPT ![i] = None]
            /\ Set(t, [call[t] EXCEPT !.folder = mParent[i]])
            /\ Go(t, "folders")
            /\ UNCHANGED <<scope, deleting, rlock>>

(* RenameItem() looks in the folder for the name the item has now *)
RenameItem(t) ==
    LET f == call[t].folder
        n == mName[call[t].item]
        to == call[t].to
    IN  /\ pc[t] = "find" /\ call[t].op = "RenameItem"
        /\ UNCHANGED treeVars
        /\ IF mItemMap[f][n] = None THEN Return(t)                 \* NotFoundException
           ELSE IF n = to THEN Go(t, "setName") /\ UNCHANGED <<call, lockVars>>
           ELSE IF mItemMap[f][to] # None /\ ~Overwrite THEN Return(t) \* DuplicateItemException
           ELSE /\ Set(t, [call[t] EXCEPT !.sub = mItemMap[f][n]])
                /\ Go(t, "subItem")
                /\ UNCHANGED lockVars

(* MoveItem() holds both folders (std::lock: both or neither) *)
MoveItem(t) ==
    LET f == call[t].folder
        n == mName[call[t].item]
        to == call[t].to
    IN  /\ pc[t] = "folders"
        /\ Unlocked(f) /\ Unlocked(to)
        /\ UNCHANGED treeVars
        /\ IF mItemMap[f][n] = None \/ (mItemMap[to][n] # None /\ ~Overwrite)
           THEN Return(t)
           ELSE /\ wlock' = [wlock EXCEPT ![f] = t, ![to] = t]
                /\ Set(t, [call[t] EXCEPT !.sub = mItemMap[f][n]])
                /\ Go(t, "subItem")
                /\ UNCHANGED <<scope, deleting, rlock>>

LockSub(t) ==
    /\ pc[t] = "subItem"
    /\ Unlocked(call[t].sub)
    /\ wlock' = [wlock EXCEPT ![call[t].sub] = t]
    /\ Go(t, "subRename")
    /\ UNCHANGED <<treeVars, scope, deleting, rlock, call>>

(* mutant of SubRename: the item stays in its old slot as well *)
SubRenameCopies(t) ==
    LET c == call[t]
        g == IF c.op = "move" THEN c.to ELSE c.folder
        m == IF c.op = "move" THEN NameIn(c.folder, c.sub) ELSE c.to
    IN  /\ pc[t] = "subRename"
        /\ mItemMap' = [mItemMap EXCEPT ![g][m] = c.sub]
        /\ wlock' = [wlock EXCEPT ![c.sub] = None]
        /\ Set(t, [c EXCEPT !.sub = None])
        /\ Go(t, "setName")
        /\ UNCHANGED <<mName, mParent, status, scope, deleting, rlock>>

(* The server renames or moves the item, then the map follows: an item that is
   replaced is destructed, with no regard to its locks. *)
SubRename(t) ==
    LET c == call[t]
        n == NameIn(c.folder, c.sub)
        g == IF c.op = "move" THEN c.to ELSE c.folder
        m == IF c.op = "move" THEN n ELSE c.to
        dup == mItemMap[g][m]
    IN  /\ pc[t] = "subRename"
        /\ mItemMap' = [mItemMap EXCEPT ![c.folder][n] = None, ![g][m] = c.sub]
        /\ status' = [i \in Items |-> IF i = dup THEN "erased" ELSE status[i]]
        /\ wlock' = [wlock EXCEPT ![c.sub] = None]
        /\ Set(t, [c EXCEPT !.sub = None])
        /\ Go(t, "setName")
        /\ UNCHANGED <<mName, mParent, scope, deleting, rlock>>

SubRenameFails(t) == pc[t] = "subRename" /\ Return(t) /\ UNCHANGED treeVars

(* The item's own idea of where it is follows, under the parents' locks only. *)
SetName(t) ==
    LET i == call[t].item IN
    /\ pc[t] = "setName"
    /\ IF call[t].op = "move"
       THEN mParent' = [mParent EXCEPT ![i] = call[t].to] /\ UNCHANGED mName
       ELSE mName' = [mName EXCEPT ![i] = call[t].to] /\ UNCHANGED mParent
    /\ Go(t, "relock")
    /\ UNCHANGED <<mItemMap, status, lockVars, call>>

(* the item's lock is taken again for the caller, who then returns *)
Relock(t) ==
    /\ pc[t] = "relock" /\ Unlocked(call[t].item)
    /\ Return(t) /\ UNCHANGED treeVars
-----------------------------------------------------------------------------
(* some items in one folder, the others still to be made *)
Init ==
    /\ \E f \in Folders, n \in [Items -> Names \cup {None}] :
         LET made == {i \in Items : n[i] # None} IN
         /\ made # {}
         /\ \A i, j \in made : n[i] = n[j] => i = j
         /\ mItemMap = [g \in Folders |-> [k \in Names |->
                IF g = f /\ \E i \in made : n[i] = k
                THEN CHOOSE i \in made : n[i] = k ELSE None]]
         /\ mName = n
         /\ mParent = [i \in Items |-> IF i \in made THEN f ELSE None]
         /\ status = [i \in Items |-> IF i \in made THEN "live" ELSE "fresh"]
    /\ scope = [i \in Items |-> {}]
    /\ deleting = [i \in Items |-> None]
    /\ wlock = [o \in Folders \cup Items |-> None]
    /\ rlock = [i \in Items |-> {}]
    /\ pc = [t \in Threads |-> "idle"]
    /\ call = [t \in Threads |-> NoCall]

(* the steps of a call that has begun *)
Step(t) ==
    \/ LockFolder(t) \/ LockItems(t)
    \/ SubLoadItems(t) \/ LoadFails(t) \/ Purge(t) \/ PurgeErase(t)
    \/ FindItem(t) \/ LockItem(t) \/ Read(t)
    \/ GetItems(t) \/ ListNext(t) \/ ListDone(t)
    \/ CreateItem(t)
    \/ Delete(t) \/ DeleteItem(t) \/ GetDeleteLock(t) \/ SubDelete(t)
    \/ Rename(t) \/ RenameItem(t) \/ Move(t) \/ MoveItem(t) \/ LockSub(t)
    \/ SubRename(t) \/ SubRenameFails(t) \/ SetName(t) \/ Relock(t)

Next == \E t \in Threads : Begin(t) \/ Step(t)

Spec == Init /\ [][Next]_vars

(* Every thread runs, and whoever waits for a lock that keeps coming free gets
   it: SharedMutex serves waiters in order. *)
FairSpec == Spec /\ \A t \in Threads : SF_vars(Step(t))
-----------------------------------------------------------------------------
(* An item is not destructed while a call holds its scope lock
   (Item.hpp:61-66). *)
ScopeProtects == \A i \in Items : scope[i] # {} => status[i] = "live"

(* The tree is a tree: a live item is in exactly one place, and no other item is
   anywhere.  Rename, move, refresh and delete all re-arrange it. *)
OnePlace == \A i \in Items :
    LET places == {p \in Folders \X Names : mItemMap[p[1]][p[2]] = i}
    IN  IF status[i] = "live" THEN Cardinality(places) = 1 ELSE places = {}

(* Every call returns: no set of calls waits for one another's folder, item and scope
   locks for ever (LockItems, SyncContents, Item::Delete, Item::Rename). *)
CallsReturn == \A t \in Threads : pc[t] # "idle" ~> pc[t] = "idle"
=============================================================================
