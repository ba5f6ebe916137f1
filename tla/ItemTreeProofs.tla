---------------------------- MODULE ItemTreeProofs ----------------------------
(* The item tree stays a tree and no item is destructed in use, for any threads, folders,
   items and names, as long as no rename or move replaces an item. *)
EXTENDS ItemTree, FiniteSetTheorems, TLAPS

(* no rename or move replaces an item; the fixed folders are none of the items *)
NoReplacing == Overwrite = FALSE /\ Folders \cap Items = {}

Labels == {"idle", "folder", "find", "lockItems", "sync", "purge", "purgeWait", "item", "using",
           "list", "listing", "deleteWait", "subDelete", "folders", "subItem", "subRename",
           "setName", "relock"}

CallRecords == [op : {"none", "DeleteItem", "RenameItem"} \cup Calls,
                folder : Folders \cup {None}, name : Names \cup {None},
                to : Names \cup Folders \cup {None}, item : Items \cup {None},
                sub : Items \cup {None}, todo : SUBSET Items]

TypeOK ==
    /\ mItemMap \in [Folders -> [Names -> Items \cup {None}]]
    /\ mName \in [Items -> Names \cup {None}] /\ mParent \in [Items -> Folders \cup {None}]
    /\ status \in [Items -> {"fresh", "live", "erased"}]
    /\ scope \in [Items -> SUBSET Threads] /\ deleting \in [Items -> Threads \cup {None}]
    /\ wlock \in [Folders \cup Items -> Threads \cup {None}]
    /\ rlock \in [Items -> SUBSET Threads]
    /\ pc \in [Threads -> Labels] /\ call \in [Threads -> CallRecords]

(* an item has one slot, and it is the items with a slot that are live *)
OneSlot ==
    /\ \A f, g \in Folders, n, m \in Names :
         mItemMap[f][n] # None /\ mItemMap[f][n] = mItemMap[g][m] => f = g /\ n = m
    /\ \A i \in Items : status[i] = "live" <=> \E f \in Folders, n \in Names : mItemMap[f][n] = i

(* an item that was made has a name and a parent, true or not *)
MadeHasName ==
    \A i \in Items : status[i] # "fresh" => mName[i] \in Names /\ mParent[i] \in Folders

(* what a thread's own variables are at each place *)
Refreshing == {"folder", "lockItems", "sync", "purge", "purgeWait"}
Holding == {"find", "lockItems", "sync", "purge", "purgeWait", "deleteWait", "subDelete",
            "subItem", "subRename"}
ByItem == {"read", "delete", "rename", "move"}

LocalOK(t) ==
    LET c == call[t] IN
    /\ pc[t] \in Holding \cup {"folder", "folders"} => c.folder \in Folders
    /\ c.op \in ByItem \cup {"create"} /\ pc[t] \in Refreshing \cup {"find"} => c.name \in Names
    /\ c.op = "move" => c.to \in Folders
    /\ c.op \in {"rename", "RenameItem"} => c.to \in Names
    /\ pc[t] \in {"item", "using", "folders", "subItem", "subRename", "setName", "relock"}
       \/ c.op = "RenameItem"
         => c.item \in Items
    /\ c.op = "DeleteItem" /\ pc[t] \in Refreshing \cup {"find"} => c.item \in Items
    /\ pc[t] \in {"item", "using"} => c.op \in ByItem
    /\ pc[t] = "folders" => c.op = "move" /\ c.folder # c.to
    /\ pc[t] \in {"subItem", "subRename", "setName", "relock"} => c.op \in {"RenameItem", "move"}
    /\ pc[t] \in {"deleteWait", "subDelete"} => c.op = "DeleteItem"

(* the map of a folder changes under its write lock only *)
HoldsFolder(t) ==
    LET c == call[t] IN
    /\ pc[t] \in Holding => wlock[c.folder] = t
    /\ pc[t] \in {"subItem", "subRename"} /\ c.op = "move" => wlock[c.to] = t /\ c.folder # c.to

(* what was found in the map is still there *)
FoundIsThere(t) ==
    LET c == call[t] IN
    /\ pc[t] \in {"purge", "purgeWait"} => c.todo \subseteq Content(c.folder)
    /\ pc[t] = "purgeWait" => c.sub \in c.todo
    /\ pc[t] \in {"deleteWait", "subDelete"} => c.sub \in Content(c.folder)
    /\ pc[t] \in {"subItem", "subRename"} =>
         \E n \in Names : /\ mItemMap[c.folder][n] = c.sub /\ c.sub # None
                          /\ IF c.op = "move" THEN mItemMap[c.to][n] = None
                             ELSE mItemMap[c.folder][c.to] = None

(* the item of a call is scope-locked, but for a deletion's, which was once there *)
ItemIsUsed(t) ==
    LET c == call[t] IN
    c.item # None => IF c.op = "DeleteItem" THEN status[c.item] # "fresh" ELSE t \in scope[c.item]

(* an item that is being deleted has no users *)
DeleteIsAlone ==
    \A i \in Items : deleting[i] # None =>
        /\ scope[i] = {}
        /\ pc[deleting[i]] = "subDelete" /\ call[deleting[i]].sub = i
DeleteLocked(t) == pc[t] = "subDelete" => deleting[call[t].sub] = t

ThreadOK(t) == LocalOK(t) /\ HoldsFolder(t) /\ FoundIsThere(t) /\ ItemIsUsed(t) /\ DeleteLocked(t)

ItemInv == /\ TypeOK /\ OneSlot /\ MadeHasName /\ DeleteIsAlone /\ ScopeProtects
           /\ \A t \in Threads : ThreadOK(t)

-----------------------------------------------------------------------------
(* what a step of t leaves to the other threads: their variables, the folders and scopes
   they have locked, and the items they are deleting *)
Frame(t) ==
    /\ \A s \in Threads \ {t} : pc'[s] = pc[s] /\ call'[s] = call[s]
    /\ \A f \in Folders : wlock[f] \notin {None, t} =>
         wlock'[f] = wlock[f] /\ mItemMap'[f] = mItemMap[f]
    /\ \A i \in Items, s \in Threads \ {t} : s \in scope[i] => s \in scope'[i]
    /\ \A i \in Items, s \in Threads \ {t} : deleting[i] = s => deleting'[i] = s
    /\ \A i \in Items : status[i] # "fresh" => status'[i] # "fresh"

LEMMA OthersKept ==
  ASSUME ItemInv, NEW t \in Threads, Frame(t), NEW s \in Threads \ {t}
  PROVE  ThreadOK(s)'
<1> DEFINE c == call[s]
<1>1. s \in Threads /\ pc'[s] = pc[s] /\ call'[s] = c /\ c \in CallRecords /\ s # None
  BY NoneAssumption DEF Frame, ItemInv, TypeOK
<1>2. ThreadOK(s)
  BY <1>1 DEF ItemInv
<1>3. \A f \in Folders : wlock[f] = s => wlock'[f] = s /\ mItemMap'[f] = mItemMap[f]
  BY <1>1 DEF Frame
<1>4. LocalOK(s)'
  BY <1>1, <1>2 DEF ThreadOK, LocalOK
<1>5. HoldsFolder(s)'
  BY <1>1, <1>2, <1>3 DEF ThreadOK, LocalOK, HoldsFolder, Holding
<1>6. FoundIsThere(s)'
  <2>1. pc[s] \in Holding => c.folder \in Folders /\ mItemMap'[c.folder] = mItemMap[c.folder]
    BY <1>2, <1>3 DEF ThreadOK, LocalOK, HoldsFolder
  <2>2. pc[s] \in {"subItem", "subRename"} /\ c.op = "move" => mItemMap'[c.to] = mItemMap[c.to]
    BY <1>2, <1>3 DEF ThreadOK, LocalOK, HoldsFolder
  <2> QED BY <1>1, <1>2, <2>1, <2>2 DEF ThreadOK, FoundIsThere, Content, Holding
<1>7. ItemIsUsed(s)'
  BY <1>1, <1>2 DEF ThreadOK, ItemIsUsed, Frame, CallRecords
<1>8. DeleteLocked(s)'
  <2>1. pc[s] = "subDelete" => c.sub \in Items
    BY <1>2, <1>1 DEF ThreadOK, FoundIsThere, LocalOK, Content, ItemInv, TypeOK, CallRecords, Holding
  <2> QED BY <1>1, <1>2, <2>1 DEF ThreadOK, DeleteLocked, Frame
<1> QED BY <1>4, <1>5, <1>6, <1>7, <1>8 DEF ThreadOK

LEMMA Assemble ==
  ASSUME ItemInv, NEW t \in Threads, Frame(t), ThreadOK(t)',
         TypeOK', OneSlot', MadeHasName', DeleteIsAlone', ScopeProtects'
  PROVE  ItemInv'
<1>1. \A s \in Threads : ThreadOK(s)'
  BY OthersKept
<1> QED BY <1>1 DEF ItemInv

-----------------------------------------------------------------------------
(* a call that returns *)
LEMMA ReturnLocks ==
  ASSUME ItemInv, NEW t \in Threads, Return(t)
  PROVE  /\ scope' \in [Items -> SUBSET Threads] /\ deleting' \in [Items -> Threads \cup {None}]
         /\ wlock' \in [Folders \cup Items -> Threads \cup {None}]
         /\ rlock' \in [Items -> SUBSET Threads]
         /\ pc' \in [Threads -> Labels] /\ call' \in [Threads -> CallRecords]
         /\ pc'[t] = "idle" /\ call'[t] = NoCall
         /\ \A s \in Threads \ {t} : pc'[s] = pc[s] /\ call'[s] = call[s]
         /\ \A f \in Folders : wlock[f] \notin {None, t} => wlock'[f] = wlock[f]
         /\ \A i \in Items : scope'[i] = scope[i] \ {t}
         /\ \A i \in Items : deleting'[i] = IF deleting[i] = t THEN None ELSE deleting[i]
         /\ DeleteIsAlone'
<1>1. NoCall \in CallRecords
  BY DEF NoCall, CallRecords
<1>2. /\ scope' \in [Items -> SUBSET Threads] /\ deleting' \in [Items -> Threads \cup {None}]
      /\ wlock' \in [Folders \cup Items -> Threads \cup {None}]
      /\ rlock' \in [Items -> SUBSET Threads]
  BY DEF Return, ItemInv, TypeOK
<1>3. /\ pc' \in [Threads -> Labels] /\ call' \in [Threads -> CallRecords]
      /\ pc'[t] = "idle" /\ call'[t] = NoCall
      /\ \A s \in Threads \ {t} : pc'[s] = pc[s] /\ call'[s] = call[s]
  BY <1>1 DEF Return, Go, Set, ItemInv, TypeOK, Labels
<1>4. /\ \A f \in Folders : wlock[f] \notin {None, t} => wlock'[f] = wlock[f]
      /\ \A i \in Items : scope'[i] = scope[i] \ {t}
      /\ \A i \in Items : deleting'[i] = IF deleting[i] = t THEN None ELSE deleting[i]
  BY DEF Return, ItemInv, TypeOK
<1>5. DeleteIsAlone'
  <2> SUFFICES ASSUME NEW i \in Items, deleting'[i] # None
               PROVE  scope'[i] = {} /\ pc'[deleting'[i]] = "subDelete" /\ call'[deleting'[i]].sub = i
    BY DEF DeleteIsAlone
  <2>1. deleting'[i] = deleting[i] /\ deleting[i] # None /\ deleting[i] \in Threads \ {t}
    BY <1>4 DEF ItemInv, TypeOK
  <2>2. scope[i] = {} /\ pc[deleting[i]] = "subDelete" /\ call[deleting[i]].sub = i
    BY <2>1 DEF ItemInv, DeleteIsAlone
  <2> QED BY <2>1, <2>2, <1>3, <1>4
<1> QED BY <1>2, <1>3, <1>4, <1>5

LEMMA IdleOK ==
  ASSUME NEW t \in Threads, pc'[t] = "idle", call'[t] = NoCall
  PROVE  ThreadOK(t)'
BY DEF ThreadOK, LocalOK, HoldsFolder, FoundIsThere, ItemIsUsed, DeleteLocked, NoCall, Holding,
       Refreshing, ByItem

LEMMA ReturnOK ==
  ASSUME ItemInv, NEW t \in Threads, Return(t), UNCHANGED treeVars
  PROVE  ItemInv'
<1> USE ReturnLocks
<1>1. Frame(t)
  BY DEF Frame, treeVars
<1>2. ThreadOK(t)'
  BY IdleOK
<1>3. TypeOK' /\ OneSlot' /\ MadeHasName' /\ ScopeProtects'
  BY DEF ItemInv, TypeOK, OneSlot, MadeHasName, ScopeProtects, treeVars
<1> QED BY <1>1, <1>2, <1>3, Assemble

-----------------------------------------------------------------------------
(* steps that leave the tree, the scopes and the deletions alone *)
LEMMA LocalStep ==
  ASSUME ItemInv, NEW t \in Threads, UNCHANGED <<treeVars, scope, deleting>>,
         NEW label \in Labels, NEW c \in CallRecords,
         pc[t] # "subDelete", pc' = [pc EXCEPT ![t] = label], call' = [call EXCEPT ![t] = c],
         wlock' \in [Folders \cup Items -> Threads \cup {None}],
         rlock' \in [Items -> SUBSET Threads],
         \A f \in Folders : wlock[f] \notin {None, t} => wlock'[f] = wlock[f],
         ThreadOK(t)'
  PROVE  ItemInv'
<1>1. Frame(t)
  BY DEF Frame, treeVars, ItemInv, TypeOK
<1>2. TypeOK' /\ OneSlot' /\ MadeHasName' /\ ScopeProtects'
  BY DEF ItemInv, TypeOK, OneSlot, MadeHasName, ScopeProtects, treeVars
<1>3. DeleteIsAlone'
  BY DEF ItemInv, TypeOK, DeleteIsAlone
<1> QED BY <1>1, <1>2, <1>3, Assemble

LEMMA OwnState ==
  ASSUME ItemInv, NEW t \in Threads
  PROVE  /\ ThreadOK(t) /\ t # None /\ t \in DOMAIN pc /\ t \in DOMAIN call
         /\ pc[t] \in Labels /\ call[t] \in CallRecords
BY NoneAssumption DEF ItemInv, TypeOK

LEMMA BeginOK ==
  ASSUME ItemInv, NEW t \in Threads, Begin(t)
  PROVE  ItemInv'
<1>1. PICK op \in Ops \cap Calls, f \in Folders, n \in Names :
        \E to \in IF op = "rename" THEN Names
                  ELSE IF op = "move" THEN Folders \ {f} ELSE {None} :
          Set(t, [NoCall EXCEPT !.op = op, !.folder = f, !.to = to,
                                !.name = IF op = "list" THEN None ELSE n])
  BY DEF Begin
<1>2. PICK to \in IF op = "rename" THEN Names
                  ELSE IF op = "move" THEN Folders \ {f} ELSE {None} :
        Set(t, [NoCall EXCEPT !.op = op, !.folder = f, !.to = to,
                              !.name = IF op = "list" THEN None ELSE n])
  BY <1>1
<1> DEFINE c == [NoCall EXCEPT !.op = op, !.folder = f, !.to = to,
                               !.name = IF op = "list" THEN None ELSE n]
<1>3. c \in CallRecords /\ c.item = None
  BY DEF NoCall, CallRecords, Calls
<1>4. pc'[t] = "folder" /\ call'[t] = c
  BY <1>2, OwnState DEF Begin, Go, Set
<1>5. ThreadOK(t)'
  BY <1>3, <1>4 DEF ThreadOK, LocalOK, HoldsFolder, FoundIsThere, ItemIsUsed, DeleteLocked, NoCall,
                    Holding, Refreshing, ByItem, Calls
<1> QED BY <1>2, <1>3, <1>5, LocalStep, OwnState DEF Begin, Go, Set, lockVars, ItemInv, TypeOK, Labels

LEMMA LockFolderOK ==
  ASSUME ItemInv, NEW t \in Threads, LockFolder(t)
  PROVE  ItemInv'
<1> DEFINE c == call[t]
<1>1. c \in CallRecords /\ c.folder \in Folders /\ wlock[c.folder] = None
  BY OwnState DEF LockFolder, Unlocked, ThreadOK, LocalOK
<1>2. PICK label \in {"find", "lockItems"} : pc' = [pc EXCEPT ![t] = label]
  BY DEF LockFolder, Go
<1>3. pc'[t] = label /\ call'[t] = c /\ wlock'[c.folder] = t
  BY <1>1, <1>2, OwnState DEF LockFolder, ItemInv, TypeOK
<1>4. ThreadOK(t)'
  BY <1>1, <1>2, <1>3, OwnState
     DEF LockFolder, treeVars, ThreadOK, LocalOK, HoldsFolder, FoundIsThere, ItemIsUsed, DeleteLocked,
         Holding, Refreshing, ByItem
<1>5. call' = [call EXCEPT ![t] = c]
  BY DEF LockFolder, ItemInv, TypeOK
<1> QED BY <1>1, <1>2, <1>4, <1>5, LocalStep DEF LockFolder, Labels, ItemInv, TypeOK

LEMMA LockItemsOK ==
  ASSUME ItemInv, NoReplacing, NEW t \in Threads, LockItems(t)
  PROVE  ItemInv'
<1> DEFINE c == call[t]
<1>1. c \in CallRecords /\ c.folder \in Folders /\ wlock[c.folder] = t
  BY OwnState DEF LockItems, ThreadOK, LocalOK, HoldsFolder, Holding
<1>2. Content(c.folder) \subseteq Items
  BY <1>1 DEF Content, ItemInv, TypeOK
<1>3. \A f \in Folders : wlock'[f] = wlock[f]
  BY <1>2 DEF LockItems, NoReplacing, ItemInv, TypeOK
<1>4. pc'[t] = "sync" /\ call' = [call EXCEPT ![t] = c] /\ call'[t] = c
  BY OwnState DEF LockItems, Go, ItemInv, TypeOK
<1>5. ThreadOK(t)'
  BY <1>1, <1>3, <1>4, OwnState
     DEF LockItems, treeVars, ThreadOK, LocalOK, HoldsFolder, FoundIsThere, ItemIsUsed, DeleteLocked,
         Holding, Refreshing, ByItem
<1>6. wlock' \in [Folders \cup Items -> Threads \cup {None}]
  BY DEF LockItems, ItemInv, TypeOK
<1> QED BY <1>1, <1>3, <1>4, <1>5, <1>6, LocalStep DEF LockItems, Go, Labels, ItemInv, TypeOK

LEMMA PurgeOK ==
  ASSUME ItemInv, NoReplacing, NEW t \in Threads, Purge(t)
  PROVE  ItemInv'
<1> DEFINE c == call[t]
<1>1. /\ c \in CallRecords /\ c.folder \in Folders /\ wlock[c.folder] = t
      /\ c.todo \subseteq Content(c.folder) /\ Content(c.folder) \subseteq Items
  BY OwnState DEF Purge, ThreadOK, LocalOK, HoldsFolder, FoundIsThere, Holding, Content, ItemInv, TypeOK
<1>2. CASE c.todo = {}
  <2>1. /\ wlock' = [o \in DOMAIN wlock |-> IF o \in Items /\ wlock[o] = t THEN None ELSE wlock[o]]
        /\ pc' = [pc EXCEPT ![t] = "find"] /\ call' = [call EXCEPT ![t] = c]
    BY <1>2 DEF Purge, Go, ItemInv, TypeOK
  <2>2. pc'[t] = "find" /\ call'[t] = c
    BY <2>1, OwnState
  <2>3. wlock' \in [Folders \cup Items -> Threads \cup {None}] /\ \A f \in Folders : wlock'[f] = wlock[f]
    BY <2>1 DEF NoReplacing, ItemInv, TypeOK
  <2>4. ThreadOK(t)'
    BY <1>1, <2>2, <2>3, OwnState
       DEF Purge, treeVars, ThreadOK, LocalOK, HoldsFolder, FoundIsThere, ItemIsUsed, DeleteLocked,
           Holding, Refreshing, ByItem
  <2> QED BY <1>1, <2>1, <2>3, <2>4, LocalStep DEF Purge, Labels, ItemInv, TypeOK
<1>3. CASE c.todo # {}
  <2>1. PICK i \in c.todo : /\ wlock' = [wlock EXCEPT ![i] = None]
                            /\ call' = [call EXCEPT ![t] = [c EXCEPT !.sub = i]]
                            /\ pc' = [pc EXCEPT ![t] = "purgeWait"]
    BY <1>3 DEF Purge, Go, Set
  <2> DEFINE d == [c EXCEPT !.sub = i]
  <2>2. i \in Items /\ d \in CallRecords /\ pc'[t] = "purgeWait" /\ call'[t] = d
    BY <1>1, <2>1, OwnState DEF CallRecords
  <2>3. wlock' \in [Folders \cup Items -> Threads \cup {None}] /\ \A f \in Folders : wlock'[f] = wlock[f]
    BY <2>1, <2>2 DEF NoReplacing, ItemInv, TypeOK
  <2>4. ThreadOK(t)'
    BY <1>1, <2>1, <2>2, <2>3, OwnState
       DEF Purge, treeVars, ThreadOK, LocalOK, HoldsFolder, FoundIsThere, ItemIsUsed, DeleteLocked,
           Holding, Refreshing, ByItem, CallRecords, Content
  <2> QED BY <1>1, <2>1, <2>2, <2>3, <2>4, LocalStep DEF Purge, Labels, ItemInv, TypeOK
<1> QED BY <1>2, <1>3

LEMMA LockItemOK ==
  ASSUME ItemInv, NoReplacing, NEW t \in Threads, LockItem(t)
  PROVE  ItemInv'
<1> DEFINE c == call[t]
<1>1. c \in CallRecords /\ c.item \in Items
  BY OwnState DEF LockItem, ThreadOK, LocalOK
<1>2. /\ pc'[t] = "using" /\ pc' = [pc EXCEPT ![t] = "using"]
      /\ call' = [call EXCEPT ![t] = c] /\ call'[t] = c
  BY OwnState DEF LockItem, Go, ItemInv, TypeOK
<1>3. /\ wlock' \in [Folders \cup Items -> Threads \cup {None}]
      /\ rlock' \in [Items -> SUBSET Threads] /\ \A f \in Folders : wlock'[f] = wlock[f]
  BY <1>1 DEF LockItem, NoReplacing, ItemInv, TypeOK
<1>4. ThreadOK(t)'
  BY <1>1, <1>2, OwnState
     DEF LockItem, treeVars, ThreadOK, LocalOK, HoldsFolder, FoundIsThere, ItemIsUsed, DeleteLocked,
         Holding, Refreshing, ByItem
<1> QED BY <1>1, <1>2, <1>3, <1>4, LocalStep DEF LockItem, Labels

LEMMA ListNextOK ==
  ASSUME ItemInv, NoReplacing, NEW t \in Threads, ListNext(t)
  PROVE  ItemInv'
<1> DEFINE c == call[t]
<1>1. CASE Return(t)
  BY <1>1, ReturnOK DEF ListNext
<1>2. CASE \E i \in c.todo : /\ wlock[i] = None
                             /\ rlock' = [rlock EXCEPT ![i] = @ \cup {t}]
                             /\ Set(t, [c EXCEPT !.todo = @ \ {i}, !.sub = i])
                             /\ Go(t, "listing")
                             /\ UNCHANGED <<scope, deleting, wlock>>
  <2>1. PICK i \in c.todo : /\ rlock' = [rlock EXCEPT ![i] = @ \cup {t}]
                            /\ call' = [call EXCEPT ![t] = [c EXCEPT !.todo = @ \ {i}, !.sub = i]]
                            /\ pc' = [pc EXCEPT ![t] = "listing"]
                            /\ UNCHANGED <<scope, deleting, wlock>>
    BY <1>2 DEF Go, Set
  <2> DEFINE d == [c EXCEPT !.todo = @ \ {i}, !.sub = i]
  <2>2. c \in CallRecords /\ i \in Items /\ d \in CallRecords /\ pc'[t] = "listing" /\ call'[t] = d
    BY <2>1, OwnState DEF CallRecords
  <2>3. ThreadOK(t)'
    BY <2>1, <2>2, OwnState
       DEF ListNext, treeVars, ThreadOK, LocalOK, HoldsFolder, FoundIsThere, ItemIsUsed, DeleteLocked,
           Holding, Refreshing, ByItem, CallRecords
  <2>4. rlock' \in [Items -> SUBSET Threads]
    BY <2>1, <2>2 DEF ItemInv, TypeOK
  <2> QED BY <2>1, <2>2, <2>3, <2>4, LocalStep DEF ListNext, Labels, ItemInv, TypeOK
<1> QED BY <1>1, <1>2 DEF ListNext

LEMMA ListDoneOK ==
  ASSUME ItemInv, NEW t \in Threads, ListDone(t)
  PROVE  ItemInv'
<1> DEFINE d == [call[t] EXCEPT !.sub = None]
<1>1. call[t] \in CallRecords /\ d \in CallRecords
  BY OwnState DEF CallRecords
<1>2. pc'[t] = "list" /\ call'[t] = d
  BY OwnState DEF ListDone, Go, Set
<1>3. ThreadOK(t)'
  BY <1>1, <1>2, OwnState
     DEF ListDone, treeVars, ThreadOK, LocalOK, HoldsFolder, FoundIsThere, ItemIsUsed, DeleteLocked,
         Holding, Refreshing, ByItem, CallRecords
<1> QED BY <1>1, <1>3, LocalStep DEF ListDone, Go, Set, Labels, ItemInv, TypeOK

-----------------------------------------------------------------------------
(* steps that take or give up a scope lock, or take a deletion's *)
LEMMA ScopeStep ==
  ASSUME ItemInv, NEW t \in Threads, UNCHANGED treeVars, UNCHANGED deleting,
         NEW label \in Labels, NEW c \in CallRecords,
         pc[t] # "subDelete", pc' = [pc EXCEPT ![t] = label], call' = [call EXCEPT ![t] = c],
         wlock' \in [Folders \cup Items -> Threads \cup {None}], UNCHANGED rlock,
         \A f \in Folders : wlock[f] \notin {None, t} => wlock'[f] = wlock[f],
         scope' \in [Items -> SUBSET Threads],
         \A i \in Items : scope[i] \ {t} \subseteq scope'[i] /\ scope'[i] \subseteq scope[i] \cup {t},
         \A i \in Items : t \in scope'[i] => status[i] = "live" /\ deleting[i] = None,
         ThreadOK(t)'
  PROVE  ItemInv'
<1>1. Frame(t)
  BY DEF Frame, treeVars, ItemInv, TypeOK
<1>2. TypeOK' /\ OneSlot' /\ MadeHasName'
  BY DEF ItemInv, TypeOK, OneSlot, MadeHasName, treeVars
<1>3. ScopeProtects'
  BY DEF ItemInv, TypeOK, ScopeProtects, treeVars
<1>4. DeleteIsAlone'
  <2> SUFFICES ASSUME NEW i \in Items, deleting[i] # None
               PROVE  scope'[i] = {} /\ pc'[deleting[i]] = "subDelete" /\ call'[deleting[i]].sub = i
    BY DEF DeleteIsAlone
  <2>1. /\ scope[i] = {} /\ pc[deleting[i]] = "subDelete" /\ call[deleting[i]].sub = i
        /\ deleting[i] \in Threads
    BY DEF ItemInv, TypeOK, DeleteIsAlone
  <2>2. scope'[i] = {}
    BY <2>1
  <2> QED BY <2>1, <2>2 DEF ItemInv, TypeOK
<1> QED BY <1>1, <1>2, <1>3, <1>4, Assemble

(* an item in a folder is live, and is deleted only by who has locked the folder *)
LEMMA SlotIsLive ==
  ASSUME ItemInv, NEW f \in Folders, NEW i \in Content(f)
  PROVE  /\ i \in Items /\ status[i] = "live" /\ NameIn(f, i) \in Names
         /\ mItemMap[f][NameIn(f, i)] = i
         /\ deleting[i] # None => wlock[f] = deleting[i]
<1>1. PICK n \in Names : mItemMap[f][n] = i /\ i # None
  BY DEF Content
<1>2. i \in Items /\ status[i] = "live"
  BY <1>1 DEF ItemInv, TypeOK, OneSlot
<1>3. ASSUME deleting[i] # None PROVE wlock[f] = deleting[i]
  <2> DEFINE d == deleting[i]
  <2>1. d \in Threads /\ pc[d] = "subDelete" /\ call[d].sub = i
    BY <1>2, <1>3 DEF ItemInv, TypeOK, DeleteIsAlone
  <2>2. /\ call[d].folder \in Folders /\ wlock[call[d].folder] = d /\ i \in Content(call[d].folder)
    BY <2>1 DEF ItemInv, ThreadOK, LocalOK, HoldsFolder, FoundIsThere, Holding
  <2>3. call[d].folder = f
    BY <1>1, <2>2 DEF Content, ItemInv, OneSlot
  <2> QED BY <2>2, <2>3
<1>4. NameIn(f, i) \in Names /\ mItemMap[f][NameIn(f, i)] = i
  BY <1>1 DEF NameIn
<1> QED BY <1>2, <1>3, <1>4

LEMMA FindItemOK ==
  ASSUME ItemInv, NEW t \in Threads, FindItem(t)
  PROVE  ItemInv'
<1> DEFINE c == call[t]
           i == mItemMap[c.folder][c.name]
           d == [c EXCEPT !.item = i, !.folder = None, !.name = None]
<1>1. /\ c \in CallRecords /\ c.folder \in Folders /\ c.name \in Names
      /\ i \in Items \cup {None} /\ wlock[c.folder] = t
  BY OwnState DEF FindItem, ThreadOK, LocalOK, HoldsFolder, ByItem, Holding, ItemInv, TypeOK
<1>2. CASE i = None \/ deleting[i] # None
  BY <1>2, ReturnOK DEF FindItem
<1>3. CASE ~(i = None \/ deleting[i] # None)
  <2>1. i \in Content(c.folder)
    BY <1>1, <1>3 DEF Content
  <2>2. i \in Items /\ status[i] = "live" /\ deleting[i] = None
    BY <1>1, <1>3, <2>1, SlotIsLive
  <2>3. /\ scope' = [scope EXCEPT ![i] = @ \cup {t}]
        /\ wlock' = [wlock EXCEPT ![c.folder] = None]
        /\ pc' = [pc EXCEPT ![t] = "item"] /\ call' = [call EXCEPT ![t] = d]
        /\ UNCHANGED <<treeVars, deleting, rlock>>
    BY <1>3 DEF FindItem, Go, Set
  <2>4. /\ d \in CallRecords /\ d.op = c.op /\ d.item = i /\ d.to = c.to
        /\ pc'[t] = "item" /\ call'[t] = d /\ t \in scope'[i]
    <3>1. d \in CallRecords /\ d.op = c.op /\ d.item = i /\ d.to = c.to
      BY <1>1, <2>2 DEF CallRecords
    <3>2. t \in scope'[i]
      BY <2>2, <2>3 DEF ItemInv, TypeOK
    <3> QED BY <2>3, <3>1, <3>2, OwnState
  <2>5. ThreadOK(t)'
    <3>1. LocalOK(t)
      BY OwnState DEF ThreadOK
    <3>2. LocalOK(t)'
      BY <2>2, <2>4, <3>1 DEF FindItem, LocalOK, Holding, Refreshing, ByItem
    <3>3. HoldsFolder(t)' /\ FoundIsThere(t)' /\ DeleteLocked(t)'
      BY <2>4 DEF HoldsFolder, FoundIsThere, DeleteLocked, Holding
    <3>4. ItemIsUsed(t)'
      BY <2>4 DEF FindItem, ItemIsUsed, ByItem
    <3> QED BY <3>2, <3>3, <3>4 DEF ThreadOK
  <2>6. /\ scope' \in [Items -> SUBSET Threads]
        /\ wlock' \in [Folders \cup Items -> Threads \cup {None}]
        /\ \A f \in Folders : wlock[f] \notin {None, t} => wlock'[f] = wlock[f]
    BY <1>1, <2>2, <2>3 DEF ItemInv, TypeOK
  <2>7. /\ \A j \in Items : scope[j] \ {t} \subseteq scope'[j] /\ scope'[j] \subseteq scope[j] \cup {t}
        /\ \A j \in Items : t \in scope'[j] => status[j] = "live" /\ deleting[j] = None
    BY <2>2, <2>3 DEF ItemInv, TypeOK, ScopeProtects, DeleteIsAlone
  <2> QED BY <2>3, <2>4, <2>5, <2>6, <2>7, ScopeStep DEF FindItem, Labels
<1> QED BY <1>2, <1>3

LEMMA GetItemsOK ==
  ASSUME ItemInv, NEW t \in Threads, GetItems(t)
  PROVE  ItemInv'
<1> DEFINE c == call[t]
           d == [c EXCEPT !.todo = Content(c.folder), !.folder = None]
<1>1. /\ c \in CallRecords /\ c.folder \in Folders /\ wlock[c.folder] = t
      /\ Content(c.folder) \subseteq Items
  BY OwnState DEF GetItems, ThreadOK, LocalOK, HoldsFolder, Holding, Content, ItemInv, TypeOK
<1>2. \A i \in Content(c.folder) : status[i] = "live" /\ deleting[i] \in {None, t}
  BY <1>1, SlotIsLive
<1>3. \A i \in Items : deleting[i] # t
  BY OwnState DEF GetItems, ItemInv, DeleteIsAlone
<1>4. /\ scope' = [i \in Items |-> IF i \in Content(c.folder) THEN scope[i] \cup {t} ELSE scope[i]]
      /\ wlock' = [wlock EXCEPT ![c.folder] = None]
      /\ pc' = [pc EXCEPT ![t] = "list"] /\ call' = [call EXCEPT ![t] = d]
      /\ UNCHANGED <<treeVars, deleting, rlock>>
  BY DEF GetItems, Go, Set
<1>5. d \in CallRecords /\ pc'[t] = "list" /\ call'[t] = d
  BY <1>1, <1>4, OwnState DEF CallRecords
<1>6. /\ scope' \in [Items -> SUBSET Threads]
      /\ wlock' \in [Folders \cup Items -> Threads \cup {None}]
      /\ \A f \in Folders : wlock[f] \notin {None, t} => wlock'[f] = wlock[f]
  BY <1>1, <1>4 DEF ItemInv, TypeOK
<1>7. /\ \A j \in Items : scope[j] \ {t} \subseteq scope'[j] /\ scope'[j] \subseteq scope[j] \cup {t}
      /\ \A j \in Items : t \in scope'[j] => status[j] = "live" /\ deleting[j] = None
  BY <1>1, <1>2, <1>3, <1>4 DEF ItemInv, TypeOK, ScopeProtects, DeleteIsAlone
<1>8. ThreadOK(t)'
  <2>1. ThreadOK(t) /\ d.op = c.op /\ d.item = c.item /\ d.to = c.to /\ c.op = "list"
    BY <1>1, OwnState DEF GetItems, CallRecords
  <2>2. LocalOK(t)' /\ HoldsFolder(t)' /\ FoundIsThere(t)' /\ DeleteLocked(t)'
    BY <1>5, <2>1 DEF LocalOK, HoldsFolder, FoundIsThere, DeleteLocked, Holding, Refreshing, ByItem
  <2>3. c.item # None => t \in scope'[c.item]
    <3>1. c.item # None => c.item \in Items /\ t \in scope[c.item]
      BY <1>1, <2>1 DEF ThreadOK, ItemIsUsed, CallRecords
    <3> QED BY <1>4, <3>1
  <2>4. ItemIsUsed(t)'
    BY <1>5, <2>1, <2>3 DEF ItemIsUsed
  <2> QED BY <2>2, <2>4 DEF ThreadOK
<1> QED BY <1>4, <1>5, <1>6, <1>7, <1>8, ScopeStep DEF GetItems, Labels

(* an item that a call uses was made, and is live *)
LEMMA UsedIsLive ==
  ASSUME ItemInv, NEW t \in Threads, pc[t] \in {"using", "folders"}
  PROVE  LET i == call[t].item
         IN  /\ i \in Items /\ t \in scope[i] /\ status[i] = "live" /\ deleting[i] = None
             /\ mName[i] \in Names /\ mParent[i] \in Folders
<1> DEFINE i == call[t].item
<1>1. i \in Items /\ i # None /\ call[t].op # "DeleteItem"
  BY NoneAssumption, OwnState DEF ThreadOK, LocalOK, ByItem
<1>2. t \in scope[i]
  BY <1>1, OwnState DEF ThreadOK, ItemIsUsed
<1> QED BY <1>1, <1>2 DEF ItemInv, ScopeProtects, DeleteIsAlone, MadeHasName

LEMMA DeleteOK ==
  ASSUME ItemInv, NoReplacing, NEW t \in Threads, Delete(t)
  PROVE  ItemInv'
<1> DEFINE c == call[t]
           i == c.item
           d == [c EXCEPT !.op = "DeleteItem", !.folder = mParent[i]]
<1>1. c \in CallRecords /\ i \in Items /\ status[i] = "live" /\ mParent[i] \in Folders
  BY OwnState, UsedIsLive DEF Delete
<1>2. /\ wlock' = [wlock EXCEPT ![i] = None] /\ scope' = [scope EXCEPT ![i] = @ \ {t}]
      /\ pc' = [pc EXCEPT ![t] = "folder"] /\ call' = [call EXCEPT ![t] = d]
      /\ UNCHANGED <<treeVars, deleting, rlock>>
  BY DEF Delete, Go, Set
<1>3. d \in CallRecords /\ pc'[t] = "folder" /\ call'[t] = d
  BY <1>1, <1>2, OwnState DEF CallRecords
<1>4. ThreadOK(t)'
  BY <1>1, <1>2, <1>3, OwnState
     DEF Delete, treeVars, ThreadOK, LocalOK, HoldsFolder, FoundIsThere, ItemIsUsed, DeleteLocked,
         Holding, Refreshing, ByItem, CallRecords
<1>5. /\ scope' \in [Items -> SUBSET Threads]
      /\ wlock' \in [Folders \cup Items -> Threads \cup {None}]
      /\ \A f \in Folders : wlock[f] \notin {None, t} => wlock'[f] = wlock[f]
  BY <1>1, <1>2 DEF NoReplacing, ItemInv, TypeOK
<1>6. /\ \A j \in Items : scope[j] \ {t} \subseteq scope'[j] /\ scope'[j] \subseteq scope[j] \cup {t}
      /\ \A j \in Items : t \in scope'[j] => status[j] = "live" /\ deleting[j] = None
  BY <1>1, <1>2 DEF ItemInv, TypeOK, ScopeProtects, DeleteIsAlone
<1> QED BY <1>2, <1>3, <1>4, <1>5, <1>6, ScopeStep DEF Delete, Labels

LEMMA DeleteItemOK ==
  ASSUME ItemInv, NEW t \in Threads, DeleteItem(t)
  PROVE  ItemInv'
<1> DEFINE c == call[t]
           i == c.item
<1>1. /\ c \in CallRecords /\ i \in Items /\ c.folder \in Folders /\ wlock[c.folder] = t
      /\ status[i] # "fresh"
  BY OwnState, NoneAssumption
     DEF DeleteItem, ThreadOK, LocalOK, HoldsFolder, ItemIsUsed, Holding
<1>2. PICK n \in IF status[i] = "erased" THEN Names ELSE {mName[i]} :
        LET found == mItemMap[c.folder][n] IN
        IF found = None THEN Return(t)
        ELSE /\ Set(t, [c EXCEPT !.item = None, !.sub = found])
             /\ Go(t, "deleteWait") /\ UNCHANGED lockVars
  BY DEF DeleteItem
<1>3. n \in Names
  BY <1>1, <1>2 DEF ItemInv, MadeHasName
<1> DEFINE found == mItemMap[c.folder][n]
           d == [c EXCEPT !.item = None, !.sub = found]
<1>4. CASE found = None
  BY <1>2, <1>4, ReturnOK DEF DeleteItem
<1>5. CASE found # None
  <2>1. call' = [call EXCEPT ![t] = d] /\ pc' = [pc EXCEPT ![t] = "deleteWait"] /\ UNCHANGED lockVars
    BY <1>2, <1>5 DEF Go, Set
  <2>2. found \in Items /\ found \in Content(c.folder)
    BY <1>1, <1>3, <1>5 DEF Content, ItemInv, TypeOK
  <2>3. d \in CallRecords /\ pc'[t] = "deleteWait" /\ call'[t] = d
    BY <1>1, <2>1, <2>2, OwnState DEF CallRecords
  <2>4. ThreadOK(t)'
    <3>1. /\ d.op = "DeleteItem" /\ d.folder = c.folder /\ d.sub = found /\ d.item = None
          /\ mItemMap' = mItemMap /\ wlock' = wlock
      BY <1>1, <2>1 DEF DeleteItem, treeVars, lockVars, CallRecords
    <3>2. LocalOK(t)' /\ HoldsFolder(t)' /\ DeleteLocked(t)' /\ ItemIsUsed(t)'
      BY <1>1, <2>3, <3>1
         DEF LocalOK, HoldsFolder, DeleteLocked, ItemIsUsed, Holding, Refreshing, ByItem
    <3>3. found \in {mItemMap'[call'[t].folder][m] : m \in Names} \ {None}
      BY <1>3, <1>5, <2>3, <3>1
    <3>4. FoundIsThere(t)'
      BY <2>3, <3>1, <3>3 DEF FoundIsThere, Content
    <3> QED BY <3>2, <3>4 DEF ThreadOK
  <2> QED BY <2>1, <2>3, <2>4, LocalStep DEF DeleteItem, lockVars, Labels, ItemInv, TypeOK
<1> QED BY <1>4, <1>5

LEMMA GetDeleteLockOK ==
  ASSUME ItemInv, NEW t \in Threads, GetDeleteLock(t)
  PROVE  ItemInv'
<1> DEFINE c == call[t]
           i == c.sub
<1>1. /\ c \in CallRecords /\ c.folder \in Folders /\ wlock[c.folder] = t /\ i \in Content(c.folder)
      /\ i \in Items /\ scope[i] = {} /\ deleting[i] = None
  BY OwnState, SlotIsLive
     DEF GetDeleteLock, ScopeFree, ThreadOK, LocalOK, HoldsFolder, FoundIsThere, Holding
<1>2. /\ pc' = [pc EXCEPT ![t] = "subDelete"] /\ pc'[t] = "subDelete"
      /\ call' = call /\ deleting' = [deleting EXCEPT ![i] = t] /\ deleting'[i] = t
      /\ UNCHANGED <<treeVars, scope, wlock, rlock>>
  BY <1>1, OwnState DEF GetDeleteLock, Go, ItemInv, TypeOK
<1>3. Frame(t)
  BY <1>1, <1>2, NoneAssumption DEF Frame, treeVars, ItemInv, TypeOK
<1>4. ThreadOK(t)'
  <2>1. LocalOK(t)' /\ HoldsFolder(t)'
    BY <1>1, <1>2, OwnState
       DEF GetDeleteLock, ThreadOK, LocalOK, HoldsFolder, Holding, Refreshing, ByItem
  <2>2. FoundIsThere(t)'
    BY <1>1, <1>2 DEF treeVars, FoundIsThere, Content
  <2>3. ItemIsUsed(t)'
    BY <1>2, OwnState DEF treeVars, ThreadOK, ItemIsUsed
  <2>4. DeleteLocked(t)'
    BY <1>1, <1>2 DEF DeleteLocked
  <2> QED BY <2>1, <2>2, <2>3, <2>4 DEF ThreadOK
<1>5. TypeOK' /\ OneSlot' /\ MadeHasName' /\ ScopeProtects'
  BY <1>1, <1>2 DEF ItemInv, TypeOK, OneSlot, MadeHasName, ScopeProtects, treeVars, Labels
<1>6. DeleteIsAlone'
  <2> SUFFICES ASSUME NEW j \in Items, deleting'[j] # None
               PROVE  scope[j] = {} /\ pc'[deleting'[j]] = "subDelete" /\ call[deleting'[j]].sub = j
    BY <1>2 DEF DeleteIsAlone
  <2>1. CASE j = i
    BY <2>1, <1>1, <1>2
  <2>2. CASE j # i
    <3>1. deleting'[j] = deleting[j] /\ deleting[j] \in Threads /\ pc[deleting[j]] = "subDelete"
          /\ scope[j] = {} /\ call[deleting[j]].sub = j
      BY <2>2, <1>2 DEF ItemInv, TypeOK, DeleteIsAlone
    <3> QED BY <3>1, <1>2, OwnState DEF GetDeleteLock
  <2> QED BY <2>1, <2>2
<1> QED BY <1>3, <1>4, <1>5, <1>6, Assemble

-----------------------------------------------------------------------------
(* the way of a rename and of a move to the parents' locks *)
LEMMA RenameOK ==
  ASSUME ItemInv, NoReplacing, NEW t \in Threads, Rename(t)
  PROVE  ItemInv'
<1> DEFINE c == call[t]
           i == c.item
           d == [c EXCEPT !.op = "RenameItem", !.folder = mParent[i]]
<1>1. /\ c \in CallRecords /\ i \in Items /\ t \in scope[i] /\ mParent[i] \in Folders /\ c.to \in Names
  BY OwnState, UsedIsLive DEF Rename, ThreadOK, LocalOK
<1>2. CASE mName[i] = c.to
  BY <1>2, ReturnOK DEF Rename
<1>3. CASE mName[i] # c.to
  <2>1. /\ wlock' = [wlock EXCEPT ![i] = None] /\ pc' = [pc EXCEPT ![t] = "folder"]
        /\ call' = [call EXCEPT ![t] = d] /\ UNCHANGED <<treeVars, scope, deleting, rlock>>
    BY <1>3 DEF Rename, Go, Set
  <2>2. d \in CallRecords /\ pc'[t] = "folder" /\ call'[t] = d
    BY <1>1, <2>1, OwnState DEF CallRecords
  <2>3. ThreadOK(t)'
    BY <1>1, <2>1, <2>2, OwnState
       DEF Rename, ThreadOK, LocalOK, HoldsFolder, FoundIsThere, ItemIsUsed, DeleteLocked,
           Holding, Refreshing, ByItem, CallRecords
  <2>4. /\ wlock' \in [Folders \cup Items -> Threads \cup {None}]
        /\ \A f \in Folders : wlock'[f] = wlock[f]
    BY <1>1, <2>1 DEF NoReplacing, ItemInv, TypeOK
  <2> QED BY <2>1, <2>2, <2>3, <2>4, LocalStep DEF Rename, Labels, ItemInv, TypeOK
<1> QED BY <1>2, <1>3

LEMMA MoveOK ==
  ASSUME ItemInv, NoReplacing, NEW t \in Threads, Move(t)
  PROVE  ItemInv'
<1> DEFINE c == call[t]
           i == c.item
           d == [c EXCEPT !.folder = mParent[i]]
<1>1. /\ c \in CallRecords /\ i \in Items /\ t \in scope[i] /\ mParent[i] \in Folders
      /\ c.to \in Folders /\ c.op = "move"
  BY OwnState, UsedIsLive DEF Move, ThreadOK, LocalOK
<1>2. CASE mParent[i] = c.to
  BY <1>2, ReturnOK DEF Move
<1>3. CASE mParent[i] # c.to
  <2>1. /\ wlock' = [wlock EXCEPT ![i] = None] /\ pc' = [pc EXCEPT ![t] = "folders"]
        /\ call' = [call EXCEPT ![t] = d] /\ UNCHANGED <<treeVars, scope, deleting, rlock>>
    BY <1>3 DEF Move, Go, Set
  <2>2. d \in CallRecords /\ pc'[t] = "folders" /\ call'[t] = d
    BY <1>1, <2>1, OwnState DEF CallRecords
  <2>3. ThreadOK(t)'
    BY <1>1, <1>3, <2>1, <2>2, OwnState
       DEF Move, ThreadOK, LocalOK, HoldsFolder, FoundIsThere, ItemIsUsed, DeleteLocked,
           Holding, Refreshing, ByItem, CallRecords
  <2>4. /\ wlock' \in [Folders \cup Items -> Threads \cup {None}]
        /\ \A f \in Folders : wlock'[f] = wlock[f]
    BY <1>1, <2>1 DEF NoReplacing, ItemInv, TypeOK
  <2> QED BY <2>1, <2>2, <2>3, <2>4, LocalStep DEF Move, Labels, ItemInv, TypeOK
<1> QED BY <1>2, <1>3

(* the item of a call that renames or moves is live: its name is one *)
LEMMA RenamedIsLive ==
  ASSUME ItemInv, NEW t \in Threads, call[t].op \in {"RenameItem", "move"}, call[t].item \in Items
  PROVE  mName[call[t].item] \in Names /\ t \in scope[call[t].item]
<1>1. call[t].item # None
  BY NoneAssumption
<1>2. t \in scope[call[t].item]
  BY <1>1, OwnState DEF ThreadOK, ItemIsUsed
<1> QED BY <1>2 DEF ItemInv, ScopeProtects, MadeHasName

LEMMA RenameItemOK ==
  ASSUME ItemInv, NoReplacing, NEW t \in Threads, RenameItem(t)
  PROVE  ItemInv'
<1> DEFINE c == call[t]
           f == c.folder
           n == mName[c.item]
           d == [c EXCEPT !.sub = mItemMap[f][n]]
<1>1. /\ c \in CallRecords /\ c.op = "RenameItem" /\ c.item \in Items /\ f \in Folders
      /\ wlock[f] = t /\ c.to \in Names /\ pc[t] = "find"
  BY OwnState DEF RenameItem, ThreadOK, LocalOK, HoldsFolder, Holding
<1>2. n \in Names /\ t \in scope[c.item]
  BY <1>1, RenamedIsLive
<1>3. CASE Return(t)
  BY <1>3, ReturnOK DEF RenameItem
<1>4. CASE Go(t, "setName") /\ UNCHANGED <<call, lockVars>>
  <2>1. /\ pc' = [pc EXCEPT ![t] = "setName"] /\ pc'[t] = "setName"
        /\ call' = [call EXCEPT ![t] = c] /\ call'[t] = c
    BY <1>4, OwnState DEF Go, ItemInv, TypeOK
  <2>2. ThreadOK(t)'
    BY <1>1, <1>2, <1>4, <2>1, OwnState
       DEF RenameItem, lockVars, ThreadOK, LocalOK, HoldsFolder, FoundIsThere, ItemIsUsed,
           DeleteLocked, Holding, Refreshing, ByItem
  <2> QED BY <1>1, <1>4, <2>1, <2>2, LocalStep DEF RenameItem, lockVars, Labels, ItemInv, TypeOK
<1>5. CASE /\ mItemMap[f][n] # None /\ n # c.to /\ mItemMap[f][c.to] = None
           /\ Set(t, d) /\ Go(t, "subItem") /\ UNCHANGED lockVars
  <2>1. /\ pc' = [pc EXCEPT ![t] = "subItem"] /\ pc'[t] = "subItem"
        /\ call' = [call EXCEPT ![t] = d] /\ call'[t] = d
    BY <1>5, OwnState DEF Go, Set
  <2>2. mItemMap[f][n] \in Items
    BY <1>1, <1>2, <1>5 DEF ItemInv, TypeOK
  <2>3. d \in CallRecords
    BY <1>1, <2>2 DEF CallRecords
  <2>4. LocalOK(t)' /\ HoldsFolder(t)' /\ ItemIsUsed(t)' /\ DeleteLocked(t)'
    BY <1>1, <1>2, <1>5, <2>1, <2>3, OwnState
       DEF RenameItem, treeVars, lockVars, ThreadOK, LocalOK, HoldsFolder, ItemIsUsed,
           DeleteLocked, Holding, Refreshing, ByItem, CallRecords
  <2>5. FoundIsThere(t)'
    <3>1. UNCHANGED mItemMap /\ d.folder = f /\ d.sub = mItemMap[f][n] /\ d.to = c.to /\ d.op = c.op
      BY <1>1 DEF RenameItem, treeVars, CallRecords
    <3>2. mItemMap'[d.folder][n] = d.sub /\ d.sub # None /\ d.op # "move" /\ mItemMap'[d.folder][d.to] = None
      BY <1>1, <1>5, <3>1
    <3> QED BY <1>2, <2>1, <3>2 DEF FoundIsThere
  <2> QED BY <1>1, <1>5, <2>1, <2>3, <2>4, <2>5, LocalStep
          DEF RenameItem, lockVars, Labels, ThreadOK, ItemInv, TypeOK
<1> QED BY <1>3, <1>4, <1>5 DEF RenameItem, NoReplacing

LEMMA MoveItemOK ==
  ASSUME ItemInv, NoReplacing, NEW t \in Threads, MoveItem(t)
  PROVE  ItemInv'
<1> DEFINE c == call[t]
           f == c.folder
           n == mName[c.item]
           d == [c EXCEPT !.sub = mItemMap[f][n]]
<1>1. /\ c \in CallRecords /\ c.op = "move" /\ c.item \in Items /\ f \in Folders /\ c.to \in Folders
      /\ f # c.to /\ wlock[f] = None /\ wlock[c.to] = None
  BY OwnState DEF MoveItem, Unlocked, ThreadOK, LocalOK
<1>2. n \in Names /\ t \in scope[c.item]
  BY <1>1, RenamedIsLive
<1>3. CASE Return(t)
  BY <1>3, ReturnOK DEF MoveItem
<1>4. CASE /\ mItemMap[f][n] # None /\ mItemMap[c.to][n] = None
           /\ wlock' = [wlock EXCEPT ![f] = t, ![c.to] = t]
           /\ Set(t, d) /\ Go(t, "subItem") /\ UNCHANGED <<scope, deleting, rlock>>
  <2>1. /\ pc' = [pc EXCEPT ![t] = "subItem"] /\ pc'[t] = "subItem"
        /\ call' = [call EXCEPT ![t] = d] /\ call'[t] = d
    BY <1>4, OwnState DEF Go, Set
  <2>2. mItemMap[f][n] \in Items
    BY <1>1, <1>2, <1>4 DEF ItemInv, TypeOK
  <2>3. d \in CallRecords /\ d.folder = f /\ d.sub = mItemMap[f][n] /\ d.to = c.to /\ d.op = c.op
        /\ d.item = c.item
    BY <1>1, <2>2 DEF CallRecords
  <2>4. /\ wlock' \in [Folders \cup Items -> Threads \cup {None}] /\ wlock'[f] = t /\ wlock'[c.to] = t
        /\ \A g \in Folders : wlock[g] \notin {None, t} => wlock'[g] = wlock[g]
    BY <1>1, <1>4 DEF ItemInv, TypeOK
  <2>5. LocalOK(t)' /\ HoldsFolder(t)' /\ ItemIsUsed(t)' /\ DeleteLocked(t)'
    BY <1>1, <1>2, <1>4, <2>1, <2>3, <2>4, OwnState
       DEF LocalOK, HoldsFolder, ItemIsUsed, DeleteLocked, Holding, Refreshing, ByItem
  <2>6. FoundIsThere(t)'
    <3>1. mItemMap' = mItemMap
      BY DEF MoveItem, treeVars
    <3>2. c.op = "move" /\ n \in Names
      BY <1>1, <1>2
    <3>3. mItemMap'[d.folder][n] = d.sub /\ d.sub # None /\ d.op = "move" /\ mItemMap'[d.to][n] = None
      BY <1>4, <2>3, <3>1, <3>2
    <3> QED BY <2>1, <3>2, <3>3 DEF FoundIsThere
  <2> QED BY <1>4, <2>1, <2>3, <2>4, <2>5, <2>6, LocalStep
          DEF MoveItem, Labels, ThreadOK, ItemInv, TypeOK
<1> QED BY <1>3, <1>4 DEF MoveItem, NoReplacing

LEMMA LockSubOK ==
  ASSUME ItemInv, NoReplacing, NEW t \in Threads, LockSub(t)
  PROVE  ItemInv'
<1> DEFINE c == call[t]
<1>1. c \in CallRecords /\ c.sub \in Items
  BY OwnState DEF LockSub, ThreadOK, FoundIsThere, CallRecords
<1>2. /\ pc' = [pc EXCEPT ![t] = "subRename"] /\ pc'[t] = "subRename"
      /\ call' = [call EXCEPT ![t] = c] /\ call'[t] = c
  BY OwnState DEF LockSub, Go, ItemInv, TypeOK
<1>3. /\ wlock' \in [Folders \cup Items -> Threads \cup {None}]
      /\ \A f \in Folders : wlock'[f] = wlock[f]
  BY <1>1 DEF LockSub, NoReplacing, ItemInv, TypeOK
<1>4. LocalOK(t)' /\ HoldsFolder(t)' /\ ItemIsUsed(t)' /\ DeleteLocked(t)'
  BY <1>1, <1>2, <1>3, OwnState
     DEF LockSub, treeVars, ThreadOK, LocalOK, HoldsFolder, ItemIsUsed, DeleteLocked,
         Holding, Refreshing, ByItem
<1>5. FoundIsThere(t)'
  BY <1>2, OwnState DEF LockSub, treeVars, ThreadOK, FoundIsThere
<1> QED BY <1>1, <1>2, <1>3, <1>4, <1>5, LocalStep DEF LockSub, Labels, ThreadOK, ItemInv, TypeOK

-----------------------------------------------------------------------------
(* what adding an item to a folder, and taking one out of it, do to the tree *)
LEMMA PlaceOK ==
  ASSUME ItemInv, NEW f \in Folders, NEW n \in Names, NEW i \in Fresh,
         mItemMap[f][n] = None, Place(f, n, i),
         mName' \in [Items -> Names \cup {None}],
         \A j \in Items : j = i \/ mName[j] \in Names => mName'[j] \in Names
  PROVE  /\ mItemMap' \in [Folders -> [Names -> Items \cup {None}]]
         /\ mParent' \in [Items -> Folders \cup {None}]
         /\ status' \in [Items -> {"fresh", "live", "erased"}]
         /\ OneSlot' /\ MadeHasName'
         /\ \A g \in Folders \ {f} : mItemMap'[g] = mItemMap[g]
         /\ \A j \in Items : status[j] # "fresh" => status'[j] = status[j]
         /\ Content(f) \subseteq Content(f)'
<1>1. i \in Items /\ status[i] = "fresh" /\ i # None
  BY NoneAssumption DEF Fresh
<1>2. /\ mItemMap' = [mItemMap EXCEPT ![f][n] = i]
      /\ mParent' = [mParent EXCEPT ![i] = f] /\ status' = [status EXCEPT ![i] = "live"]
  BY DEF Place
<1>3. /\ mItemMap' \in [Folders -> [Names -> Items \cup {None}]]
      /\ mParent' \in [Items -> Folders \cup {None}]
      /\ status' \in [Items -> {"fresh", "live", "erased"}]
  BY <1>1, <1>2 DEF ItemInv, TypeOK
<1>4. \A g \in Folders, m \in Names :
        mItemMap'[g][m] = IF g = f /\ m = n THEN i ELSE mItemMap[g][m]
  BY <1>2 DEF ItemInv, TypeOK
<1>5. \A g \in Folders, m \in Names : mItemMap[g][m] # i
  BY <1>1 DEF ItemInv, OneSlot
<1>6. \A j \in Items : status'[j] = IF j = i THEN "live" ELSE status[j]
  BY <1>1, <1>2 DEF ItemInv, TypeOK
<1>7. OneSlot'
  <2>1. \A g, h \in Folders, m, k \in Names :
          mItemMap'[g][m] # None /\ mItemMap'[g][m] = mItemMap'[h][k] => g = h /\ m = k
    BY <1>4, <1>5 DEF ItemInv, OneSlot
  <2>2. ASSUME NEW j \in Items
        PROVE  status'[j] = "live" <=> \E g \in Folders, m \in Names : mItemMap'[g][m] = j
    <3>1. CASE j = i
      BY <3>1, <1>4, <1>6
    <3>2. CASE j # i
      <4>1. \A g \in Folders, m \in Names : mItemMap'[g][m] = j <=> mItemMap[g][m] = j
        BY <3>2, <1>4, NoneAssumption
      <4> QED BY <3>2, <4>1, <1>6 DEF ItemInv, OneSlot
    <3> QED BY <3>1, <3>2
  <2> QED BY <2>1, <2>2 DEF OneSlot
<1>8. MadeHasName'
  BY <1>1, <1>2, <1>6 DEF ItemInv, TypeOK, MadeHasName
<1>9. \A g \in Folders \ {f} : mItemMap'[g] = mItemMap[g]
  BY <1>2 DEF ItemInv, TypeOK
<1>10. Content(f) \subseteq Content(f)'
  BY <1>4 DEF Content
<1> QED BY <1>1, <1>3, <1>6, <1>7, <1>8, <1>9, <1>10

LEMMA InsertOK ==
  ASSUME ItemInv, NEW f \in Folders, NEW n \in Names, NEW i \in Fresh,
         mItemMap[f][n] = None, Insert(f, n, i)
  PROVE  /\ mItemMap' \in [Folders -> [Names -> Items \cup {None}]]
         /\ mName' \in [Items -> Names \cup {None}] /\ mParent' \in [Items -> Folders \cup {None}]
         /\ status' \in [Items -> {"fresh", "live", "erased"}]
         /\ OneSlot' /\ MadeHasName'
         /\ \A g \in Folders \ {f} : mItemMap'[g] = mItemMap[g]
         /\ \A j \in Items : status[j] # "fresh" => status'[j] = status[j]
<1>1. /\ mName' \in [Items -> Names \cup {None}]
      /\ \A j \in Items : j = i \/ mName[j] \in Names => mName'[j] \in Names
  BY DEF Insert, ItemInv, TypeOK
<1> QED BY <1>1, PlaceOK DEF Insert

(* what a listing does to the names: an item that is listed has one *)
LEMMA ListedNamesOK ==
  ASSUME ItemInv, NEW slots, NEW listing \in SUBSET Names
  PROVE  /\ ListedNames(slots, listing) \in [Items -> Names \cup {None}]
         /\ \A j \in Items :
              mName[j] \in Names \/ (\E n \in listing : slots[n] = j)
                => ListedNames(slots, listing)[j] \in Names
<1>1. ASSUME NEW j \in Items, \E n \in listing : slots[n] = j
      PROVE  (CHOOSE n \in listing : slots[n] = j) \in Names
  BY <1>1
<1> QED BY <1>1 DEF ListedNames, ItemInv, TypeOK

(* what a listing does to the tree: its items are renamed, and one may be added *)
LEMMA ListingOK ==
  ASSUME ItemInv, NEW f \in Folders, NEW listing \in SUBSET Names,
         \/ UNCHANGED <<mItemMap, mParent, status>>
         \/ \E n \in listing, i \in Fresh :
              /\ {m \in listing : mItemMap[f][m] = None} = {n} /\ Place(f, n, i),
         mName' = ListedNames(mItemMap'[f], listing)
  PROVE  /\ mItemMap' \in [Folders -> [Names -> Items \cup {None}]]
         /\ mName' \in [Items -> Names \cup {None}] /\ mParent' \in [Items -> Folders \cup {None}]
         /\ status' \in [Items -> {"fresh", "live", "erased"}]
         /\ OneSlot' /\ MadeHasName' /\ Content(f) \subseteq Content(f)'
         /\ \A g \in Folders \ {f} : mItemMap'[g] = mItemMap[g]
         /\ \A j \in Items : status[j] # "fresh" => status'[j] = status[j]
<1>1. mName' \in [Items -> Names \cup {None}]
  BY ListedNamesOK
<1>2. \A j \in Items :
        mName[j] \in Names \/ (\E n \in listing : mItemMap'[f][n] = j) => mName'[j] \in Names
  BY ListedNamesOK
<1>3. CASE UNCHANGED <<mItemMap, mParent, status>>
  <2>1. OneSlot' /\ Content(f)' = Content(f)
    BY <1>3 DEF ItemInv, OneSlot, Content
  <2>2. MadeHasName'
    BY <1>2, <1>3 DEF ItemInv, MadeHasName
  <2> QED BY <1>1, <1>3, <2>1, <2>2 DEF ItemInv, TypeOK
<1>4. CASE \E n \in listing, i \in Fresh :
             /\ {m \in listing : mItemMap[f][m] = None} = {n} /\ Place(f, n, i)
  <2>1. PICK n \in listing, i \in Fresh : mItemMap[f][n] = None /\ Place(f, n, i)
    BY <1>4
  <2>2. n \in Names /\ i \in Items /\ mItemMap'[f][n] = i
    BY <2>1 DEF Place, Fresh, ItemInv, TypeOK
  <2>3. \A j \in Items : j = i \/ mName[j] \in Names => mName'[j] \in Names
    BY <1>2, <2>2
  <2> QED BY <1>1, <2>1, <2>2, <2>3, PlaceOK
<1> QED BY <1>3, <1>4

LEMMA EraseOK ==
  ASSUME ItemInv, NEW f \in Folders, NEW i \in Content(f), Erase(f, i)
  PROVE  /\ mItemMap' \in [Folders -> [Names -> Items \cup {None}]]
         /\ status' \in [Items -> {"fresh", "live", "erased"}]
         /\ OneSlot' /\ MadeHasName'
         /\ \A g \in Folders \ {f} : mItemMap'[g] = mItemMap[g]
         /\ \A j \in Items : status'[j] = IF j = i THEN "erased" ELSE status[j]
         /\ Content(f) \ {i} \subseteq Content(f)'
<1> DEFINE n == NameIn(f, i)
<1>1. i \in Items /\ i # None /\ status[i] = "live" /\ n \in Names /\ mItemMap[f][n] = i
  BY SlotIsLive, NoneAssumption
<1>2. /\ mItemMap' = [mItemMap EXCEPT ![f][n] = None] /\ status' = [status EXCEPT ![i] = "erased"]
      /\ UNCHANGED <<mName, mParent>>
  BY DEF Erase
<1>3. /\ mItemMap' \in [Folders -> [Names -> Items \cup {None}]]
      /\ status' \in [Items -> {"fresh", "live", "erased"}]
  BY <1>1, <1>2 DEF ItemInv, TypeOK
<1>4. \A g \in Folders, m \in Names :
        mItemMap'[g][m] = IF g = f /\ m = n THEN None ELSE mItemMap[g][m]
  BY <1>1, <1>2 DEF ItemInv, TypeOK
<1>5. \A j \in Items : status'[j] = IF j = i THEN "erased" ELSE status[j]
  BY <1>1, <1>2 DEF ItemInv, TypeOK
<1>6. \A g \in Folders, m \in Names : mItemMap[g][m] = i => g = f /\ m = n
  BY <1>1 DEF ItemInv, OneSlot
<1>7. OneSlot'
  <2>1. \A g, h \in Folders, m, k \in Names :
          mItemMap'[g][m] # None /\ mItemMap'[g][m] = mItemMap'[h][k] => g = h /\ m = k
    BY <1>4 DEF ItemInv, OneSlot
  <2>2. ASSUME NEW j \in Items
        PROVE  status'[j] = "live" <=> \E g \in Folders, m \in Names : mItemMap'[g][m] = j
    <3>1. CASE j = i
      BY <3>1, <1>1, <1>4, <1>5, <1>6
    <3>2. CASE j # i
      <4>1. \A g \in Folders, m \in Names : mItemMap'[g][m] = j <=> mItemMap[g][m] = j
        BY <3>2, <1>1, <1>4, NoneAssumption
      <4> QED BY <3>2, <4>1, <1>5 DEF ItemInv, OneSlot
    <3> QED BY <3>1, <3>2
  <2> QED BY <2>1, <2>2 DEF OneSlot
<1>8. MadeHasName'
  BY <1>1, <1>2, <1>5 DEF ItemInv, MadeHasName
<1>9. \A g \in Folders \ {f} : mItemMap'[g] = mItemMap[g]
  BY <1>2 DEF ItemInv, TypeOK
<1>10. Content(f) \ {i} \subseteq Content(f)'
  BY <1>1, <1>4 DEF Content
<1> QED BY <1>3, <1>5, <1>7, <1>8, <1>9, <1>10

-----------------------------------------------------------------------------
(* the steps that change the tree *)
LEMMA SubLoadItemsOK ==
  ASSUME ItemInv, NEW t \in Threads, SubLoadItems(t)
  PROVE  ItemInv'
<1> DEFINE c == call[t]
           f == c.folder
<1>1. c \in CallRecords /\ f \in Folders /\ wlock[f] = t /\ Content(f) \subseteq Items
  BY OwnState DEF SubLoadItems, ThreadOK, LocalOK, HoldsFolder, Holding, Content, ItemInv, TypeOK
<1>2. PICK listing \in SUBSET Names :
        /\ \/ UNCHANGED <<mItemMap, mParent, status>>
           \/ \E n \in listing, i \in Fresh :
                /\ {m \in listing : mItemMap[f][m] = None} = {n} /\ Place(f, n, i)
        /\ mName' = ListedNames(mItemMap'[f], listing)
        /\ Set(t, [c EXCEPT !.todo = {i \in Content(f) : NameIn(f, i) \notin listing}])
  BY DEF SubLoadItems
<1> DEFINE gone == {i \in Content(f) : NameIn(f, i) \notin listing}
           d == [c EXCEPT !.todo = gone]
<1> HIDE DEF gone
<1>3. gone \subseteq Content(f) /\ d \in CallRecords
  BY <1>1 DEF gone, CallRecords
<1>4. /\ pc' = [pc EXCEPT ![t] = "purge"] /\ pc'[t] = "purge"
      /\ call' = [call EXCEPT ![t] = d] /\ call'[t] = d /\ UNCHANGED lockVars
  BY <1>2, OwnState DEF SubLoadItems, Go, Set, gone
<1>5. d.folder = f /\ d.todo = gone
  BY <1>1 DEF CallRecords
<1>6. LocalOK(t)' /\ HoldsFolder(t)' /\ DeleteLocked(t)'
  BY <1>1, <1>4, OwnState
     DEF SubLoadItems, lockVars, ThreadOK, LocalOK, HoldsFolder, DeleteLocked, Holding, Refreshing,
         ByItem, CallRecords
<1>7. /\ TypeOK' /\ OneSlot' /\ MadeHasName' /\ Content(f) \subseteq Content(f)'
      /\ \A g \in Folders \ {f} : mItemMap'[g] = mItemMap[g]
      /\ \A j \in Items : status[j] # "fresh" => status'[j] = status[j]
  <2>1. /\ mItemMap' \in [Folders -> [Names -> Items \cup {None}]]
        /\ mName' \in [Items -> Names \cup {None}] /\ mParent' \in [Items -> Folders \cup {None}]
        /\ status' \in [Items -> {"fresh", "live", "erased"}]
        /\ OneSlot' /\ MadeHasName'
        /\ Content(f) \subseteq {mItemMap'[f][n] : n \in Names} \ {None}
        /\ \A g \in Folders \ {f} : mItemMap'[g] = mItemMap[g]
        /\ \A j \in Items : status[j] # "fresh" => status'[j] = status[j]
    BY <1>1, <1>2, ListingOK DEF Content
  <2>2. TypeOK'
    BY <1>3, <1>4, <2>1 DEF lockVars, Labels, ItemInv, TypeOK
  <2>3. Content(f) \subseteq Content(f)'
    <3>1. call'[t].folder = f
      BY <1>4, <1>5
    <3>2. Content(f) \subseteq {mItemMap'[call'[t].folder][n] : n \in Names} \ {None}
      BY <2>1, <3>1
    <3> QED BY <3>2 DEF Content
  <2> QED BY <2>1, <2>2, <2>3
<1>8. Frame(t)
  BY <1>1, <1>4, <1>7 DEF Frame, lockVars, ItemInv, TypeOK
<1>9. ScopeProtects'
  BY <1>4, <1>7 DEF lockVars, ItemInv, ScopeProtects
<1>10. DeleteIsAlone'
  BY <1>4 DEF SubLoadItems, lockVars, ItemInv, TypeOK, DeleteIsAlone
<1>11. FoundIsThere(t)'
  BY <1>3, <1>4, <1>5, <1>7 DEF FoundIsThere
<1>12. ItemIsUsed(t)'
  BY <1>1, <1>4, <1>7, OwnState DEF lockVars, ThreadOK, ItemIsUsed, CallRecords
<1> QED BY <1>6, <1>7, <1>8, <1>9, <1>10, <1>11, <1>12, Assemble DEF ThreadOK

LEMMA PurgeEraseOK ==
  ASSUME ItemInv, NEW t \in Threads, PurgeErase(t)
  PROVE  ItemInv'
<1> DEFINE c == call[t]
           f == c.folder
           i == c.sub
           d == [c EXCEPT !.todo = @ \ {i}, !.sub = None]
<1>1. /\ c \in CallRecords /\ f \in Folders /\ wlock[f] = t /\ i \in Content(f) /\ i \in Items
      /\ c.todo \subseteq Content(f) /\ scope[i] = {}
  BY OwnState, SlotIsLive
     DEF PurgeErase, ScopeFree, ThreadOK, LocalOK, HoldsFolder, FoundIsThere, Holding
<1>2. /\ pc' = [pc EXCEPT ![t] = "purge"] /\ pc'[t] = "purge"
      /\ call' = [call EXCEPT ![t] = d] /\ call'[t] = d /\ UNCHANGED lockVars
      /\ Erase(f, i)
  BY OwnState DEF PurgeErase, Go, Set
<1>3. /\ d \in CallRecords /\ d.folder = f /\ d.todo = c.todo \ {i}
      /\ d.op = c.op /\ d.item = c.item /\ d.name = c.name /\ d.to = c.to
  BY <1>1 DEF CallRecords
<1>4. /\ TypeOK' /\ OneSlot' /\ MadeHasName' /\ Content(f) \ {i} \subseteq Content(f)'
      /\ \A g \in Folders \ {f} : mItemMap'[g] = mItemMap[g]
      /\ \A j \in Items : status'[j] = IF j = i THEN "erased" ELSE status[j]
  BY <1>1, <1>2, <1>3, EraseOK DEF Erase, lockVars, Labels, ItemInv, TypeOK
<1>5. Frame(t)
  BY <1>1, <1>2, <1>4 DEF Frame, lockVars, ItemInv, TypeOK
<1>6. ScopeProtects'
  BY <1>1, <1>2, <1>4 DEF lockVars, ItemInv, ScopeProtects
<1>7. DeleteIsAlone'
  BY <1>2 DEF PurgeErase, lockVars, ItemInv, TypeOK, DeleteIsAlone
<1>8. ThreadOK(t)'
  <2>1. LocalOK(t)' /\ HoldsFolder(t)' /\ DeleteLocked(t)'
    BY <1>1, <1>2, <1>3, OwnState
       DEF PurgeErase, lockVars, ThreadOK, LocalOK, HoldsFolder, DeleteLocked, Holding, Refreshing,
           ByItem
  <2>2. FoundIsThere(t)'
    BY <1>1, <1>2, <1>3, <1>4 DEF FoundIsThere
  <2>3. ItemIsUsed(t)'
    BY <1>1, <1>2, <1>3, <1>4, OwnState DEF lockVars, ThreadOK, ItemIsUsed, CallRecords
  <2> QED BY <2>1, <2>2, <2>3 DEF ThreadOK
<1> QED BY <1>4, <1>5, <1>6, <1>7, <1>8, Assemble

LEMMA CreateItemOK ==
  ASSUME ItemInv, NEW t \in Threads, CreateItem(t)
  PROVE  ItemInv'
<1> DEFINE c == call[t]
           f == c.folder
<1>1. f \in Folders /\ wlock[f] = t /\ c.name \in Names /\ Return(t)
  BY OwnState DEF CreateItem, ThreadOK, LocalOK, HoldsFolder, Holding
<1>2. CASE UNCHANGED treeVars
  BY <1>1, <1>2, ReturnOK
<1>3. CASE \E i \in Fresh : mItemMap[f][c.name] = None /\ Insert(f, c.name, i)
  <2>1. PICK i \in Fresh : mItemMap[f][c.name] = None /\ Insert(f, c.name, i)
    BY <1>3
  <2>2. /\ TypeOK' /\ OneSlot' /\ MadeHasName'
        /\ \A g \in Folders \ {f} : mItemMap'[g] = mItemMap[g]
        /\ \A j \in Items : status[j] # "fresh" => status'[j] = status[j]
    BY <1>1, <2>1, InsertOK, ReturnLocks DEF TypeOK
  <2>3. Frame(t)
    BY <1>1, <2>2, ReturnLocks DEF Frame
  <2>4. ScopeProtects' /\ DeleteIsAlone'
    BY <1>1, <2>2, ReturnLocks DEF ItemInv, TypeOK, ScopeProtects
  <2> QED BY <1>1, <2>2, <2>3, <2>4, ReturnLocks, IdleOK, Assemble
<1> QED BY <1>2, <1>3 DEF CreateItem

LEMMA SubDeleteOK ==
  ASSUME ItemInv, NEW t \in Threads, SubDelete(t)
  PROVE  ItemInv'
<1> DEFINE c == call[t]
           f == c.folder
           i == c.sub
<1>1. /\ f \in Folders /\ wlock[f] = t /\ i \in Content(f) /\ i \in Items /\ deleting[i] = t
      /\ Return(t)
  BY OwnState, SlotIsLive
     DEF SubDelete, ThreadOK, LocalOK, HoldsFolder, FoundIsThere, DeleteLocked, Holding
<1>2. scope[i] = {}
  BY <1>1, OwnState DEF ItemInv, DeleteIsAlone
<1>3. CASE UNCHANGED treeVars
  BY <1>1, <1>3, ReturnOK
<1>4. CASE Erase(f, i)
  <2>1. /\ TypeOK' /\ OneSlot' /\ MadeHasName'
        /\ \A g \in Folders \ {f} : mItemMap'[g] = mItemMap[g]
        /\ \A j \in Items : status'[j] = IF j = i THEN "erased" ELSE status[j]
    <3>1. /\ mItemMap' \in [Folders -> [Names -> Items \cup {None}]]
          /\ status' \in [Items -> {"fresh", "live", "erased"}]
          /\ OneSlot' /\ MadeHasName'
          /\ \A g \in Folders \ {f} : mItemMap'[g] = mItemMap[g]
          /\ \A j \in Items : status'[j] = IF j = i THEN "erased" ELSE status[j]
      BY <1>1, <1>4, EraseOK
    <3>2. UNCHANGED <<mName, mParent>>
      BY <1>4 DEF Erase
    <3>3. TypeOK'
      BY <1>1, <3>1, <3>2, ReturnLocks DEF ItemInv, TypeOK
    <3> QED BY <3>1, <3>3
  <2>2. Frame(t)
    BY <1>1, <2>1, ReturnLocks DEF Frame
  <2>3. ScopeProtects' /\ DeleteIsAlone'
    BY <1>1, <1>2, <2>1, ReturnLocks DEF ItemInv, TypeOK, ScopeProtects
  <2> QED BY <1>1, <2>1, <2>2, <2>3, ReturnLocks, IdleOK, Assemble
<1> QED BY <1>3, <1>4 DEF SubDelete

LEMMA SubRenameOK ==
  ASSUME ItemInv, NoReplacing, NEW t \in Threads, SubRename(t)
  PROVE  ItemInv'
<1> DEFINE c == call[t]
           f == c.folder
           n == NameIn(f, c.sub)
           g == IF c.op = "move" THEN c.to ELSE f
           m == IF c.op = "move" THEN n ELSE c.to
           d == [c EXCEPT !.sub = None]
<1>1. /\ c \in CallRecords /\ f \in Folders /\ wlock[f] = t /\ c.op \in {"RenameItem", "move"}
      /\ g \in Folders /\ wlock[g] = t /\ c.item \in Items
      /\ c.op = "move" => f # g
      /\ c.op = "RenameItem" => c.to \in Names
  <2>1. pc[t] = "subRename" /\ ThreadOK(t) /\ c \in CallRecords
    BY OwnState DEF SubRename
  <2> QED BY <2>1 DEF ThreadOK, LocalOK, HoldsFolder, Holding, ItemIsUsed, CallRecords
<1>2. PICK k \in Names : /\ mItemMap[f][k] = c.sub /\ c.sub # None
                         /\ IF c.op = "move" THEN mItemMap[c.to][k] = None
                            ELSE mItemMap[f][c.to] = None
  BY OwnState DEF SubRename, ThreadOK, FoundIsThere
<1>3. /\ c.sub \in Content(f) /\ c.sub \in Items /\ status[c.sub] = "live" /\ n = k
  <2>1. c.sub \in Content(f)
    BY <1>2 DEF Content
  <2>2. n \in Names /\ mItemMap[f][n] = c.sub /\ c.sub \in Items /\ status[c.sub] = "live"
    BY <1>1, <2>1, SlotIsLive
  <2> QED BY <1>1, <1>2, <2>1, <2>2 DEF ItemInv, OneSlot
<1>4. m \in Names /\ mItemMap[g][m] = None
  BY <1>1, <1>2, <1>3
<1>5. mItemMap' = [mItemMap EXCEPT ![f][n] = None, ![g][m] = c.sub]
  BY DEF SubRename
<1>6. \A h \in Folders, l \in Names :
        mItemMap'[h][l] = IF h = g /\ l = m THEN c.sub
                          ELSE IF h = f /\ l = n THEN None ELSE mItemMap[h][l]
  BY <1>1, <1>3, <1>4, <1>5 DEF ItemInv, TypeOK
<1>7. /\ mItemMap' \in [Folders -> [Names -> Items \cup {None}]]
      /\ \A h \in Folders \ {f, g} : mItemMap'[h] = mItemMap[h]
  <2> DEFINE gone == [mItemMap EXCEPT ![f][n] = None]
  <2>1. gone \in [Folders -> [Names -> Items \cup {None}]]
    BY <1>1, <1>3 DEF ItemInv, TypeOK
  <2>2. \A h \in Folders \ {f} : gone[h] = mItemMap[h]
    BY DEF ItemInv, TypeOK
  <2>3. mItemMap' = [gone EXCEPT ![g][m] = c.sub]
    BY <1>5
  <2> HIDE DEF gone
  <2> QED BY <1>1, <1>3, <1>4, <2>1, <2>2, <2>3
<1>8. /\ status' = status /\ UNCHANGED <<mName, mParent, scope, deleting, rlock>>
      /\ wlock' = [wlock EXCEPT ![c.sub] = None]
      /\ pc' = [pc EXCEPT ![t] = "setName"] /\ pc'[t] = "setName"
      /\ call' = [call EXCEPT ![t] = d] /\ call'[t] = d
  BY <1>4, OwnState, NoneAssumption DEF SubRename, Go, Set, ItemInv, TypeOK
<1>9. /\ d \in CallRecords /\ d.op = c.op /\ d.item = c.item /\ d.to = c.to
  BY <1>1 DEF CallRecords
<1>10. \A h \in Folders : wlock'[h] = wlock[h]
  BY <1>3, <1>8 DEF NoReplacing, ItemInv, TypeOK
<1>11. OneSlot'
  <2>1. \A h \in Folders, l \in Names : mItemMap[h][l] = c.sub => h = f /\ l = n
    BY <1>1, <1>2, <1>3 DEF ItemInv, OneSlot
  <2>2. \A h, k2 \in Folders, l, l2 \in Names :
          mItemMap'[h][l] # None /\ mItemMap'[h][l] = mItemMap'[k2][l2] => h = k2 /\ l = l2
    BY <1>6, <2>1 DEF ItemInv, OneSlot
  <2>3. ASSUME NEW j \in Items
        PROVE  status'[j] = "live" <=> \E h \in Folders, l \in Names : mItemMap'[h][l] = j
    <3>1. CASE j = c.sub
      BY <3>1, <1>1, <1>3, <1>4, <1>6, <1>8
    <3>2. CASE j # c.sub
      <4>1. \A h \in Folders, l \in Names : mItemMap'[h][l] = j <=> mItemMap[h][l] = j
        BY <3>2, <1>2, <1>3, <1>4, <1>6, NoneAssumption
      <4> QED BY <4>1, <1>8 DEF ItemInv, OneSlot
    <3> QED BY <3>1, <3>2
  <2> QED BY <2>2, <2>3 DEF OneSlot
<1>12. TypeOK' /\ MadeHasName' /\ ScopeProtects'
  BY <1>3, <1>7, <1>8, <1>9 DEF ItemInv, TypeOK, MadeHasName, ScopeProtects, Labels
<1>13. DeleteIsAlone'
  BY <1>8 DEF SubRename, ItemInv, TypeOK, DeleteIsAlone
<1>14. Frame(t)
  BY <1>1, <1>7, <1>8, <1>10 DEF Frame, ItemInv, TypeOK
<1>15. ThreadOK(t)'
  BY <1>1, <1>8, <1>9, OwnState
     DEF SubRename, ThreadOK, LocalOK, HoldsFolder, FoundIsThere, ItemIsUsed, DeleteLocked, Holding,
         Refreshing, ByItem
<1> QED BY <1>11, <1>12, <1>13, <1>14, <1>15, Assemble

LEMMA SetNameOK ==
  ASSUME ItemInv, NEW t \in Threads, SetName(t)
  PROVE  ItemInv'
<1> DEFINE c == call[t]
<1>1. /\ c \in CallRecords /\ c.item \in Items /\ c.op \in {"RenameItem", "move"}
      /\ c.op = "move" => c.to \in Folders
      /\ c.op = "RenameItem" => c.to \in Names
  BY OwnState DEF SetName, ThreadOK, LocalOK
<1>2. /\ pc' = [pc EXCEPT ![t] = "relock"] /\ pc'[t] = "relock"
      /\ UNCHANGED <<mItemMap, status, lockVars, call>>
  BY OwnState DEF SetName, Go
<1>3. TypeOK' /\ MadeHasName'
  <2>1. CASE c.op = "move"
    BY <2>1, <1>1, <1>2 DEF SetName, lockVars, ItemInv, TypeOK, MadeHasName, Labels
  <2>2. CASE c.op = "RenameItem"
    BY <2>2, <1>1, <1>2 DEF SetName, lockVars, ItemInv, TypeOK, MadeHasName, Labels
  <2> QED BY <1>1, <2>1, <2>2
<1>4. OneSlot' /\ ScopeProtects'
  BY <1>2 DEF lockVars, ItemInv, OneSlot, ScopeProtects
<1>5. DeleteIsAlone'
  BY <1>2 DEF SetName, lockVars, ItemInv, TypeOK, DeleteIsAlone
<1>6. Frame(t)
  BY <1>2 DEF Frame, lockVars, ItemInv, TypeOK
<1>7. ThreadOK(t)'
  BY <1>1, <1>2, OwnState
     DEF SetName, lockVars, ThreadOK, LocalOK, HoldsFolder, FoundIsThere, ItemIsUsed, DeleteLocked,
         Holding, Refreshing, ByItem
<1> QED BY <1>3, <1>4, <1>5, <1>6, <1>7, Assemble

-----------------------------------------------------------------------------
LEMMA InitItemInv ==
  ASSUME Init
  PROVE  ItemInv
<1>1. PICK f \in Folders, name \in [Items -> Names \cup {None}] :
        LET made == {i \in Items : name[i] # None} IN
        /\ \A i, j \in made : name[i] = name[j] => i = j
        /\ mItemMap = [g \in Folders |-> [k \in Names |->
               IF g = f /\ \E i \in made : name[i] = k
               THEN CHOOSE i \in made : name[i] = k ELSE None]]
        /\ mName = name
        /\ mParent = [i \in Items |-> IF i \in made THEN f ELSE None]
        /\ status = [i \in Items |-> IF i \in made THEN "live" ELSE "fresh"]
  BY DEF Init
<1> DEFINE made == {i \in Items : name[i] # None}
           Item(k) == CHOOSE i \in made : name[i] = k
<1>2. \A k \in Names : (\E i \in made : name[i] = k) => Item(k) \in made /\ name[Item(k)] = k
  OBVIOUS
<1> HIDE DEF Item
<1>3. \A g \in Folders, k \in Names :
        mItemMap[g][k] = IF g = f /\ \E i \in made : name[i] = k THEN Item(k) ELSE None
  BY <1>1 DEF Item
<1>4. mItemMap \in [Folders -> [Names -> Items \cup {None}]]
  <2>1. ASSUME NEW k \in Names
        PROVE  (IF \E i \in made : name[i] = k THEN Item(k) ELSE None) \in Items \cup {None}
    BY <1>2
  <2>2. mItemMap = [g \in Folders |-> [k \in Names |->
                     IF g = f /\ \E i \in made : name[i] = k THEN Item(k) ELSE None]]
    BY <1>1 DEF Item
  <2> QED BY <2>1, <2>2
<1>5. \A i \in made : name[i] \in Names /\ Item(name[i]) = i /\ mItemMap[f][name[i]] = i
  BY <1>1, <1>2, <1>3
<1>6. \A i \in Items : status[i] = "live" <=> i \in made
  BY <1>1
<1>7. OneSlot
  <2>1. \A g \in Folders, k \in Names :
          mItemMap[g][k] # None => g = f /\ mItemMap[g][k] \in made /\ name[mItemMap[g][k]] = k
    BY <1>2, <1>3
  <2> QED BY <1>5, <1>6, <2>1, NoneAssumption DEF OneSlot
<1>8. MadeHasName /\ DeleteIsAlone /\ ScopeProtects
  BY <1>1, <1>5 DEF Init, MadeHasName, DeleteIsAlone, ScopeProtects
<1>9. TypeOK
  <2>1. NoCall \in CallRecords
    BY DEF NoCall, CallRecords
  <2> QED BY <1>1, <1>4, <2>1 DEF Init, TypeOK, Labels
<1>10. \A t \in Threads : ThreadOK(t)
  BY DEF Init, ThreadOK, LocalOK, HoldsFolder, FoundIsThere, ItemIsUsed, DeleteLocked, NoCall,
         Holding, Refreshing, ByItem
<1> QED BY <1>7, <1>8, <1>9, <1>10 DEF ItemInv

LEMMA StepItemInv ==
  ASSUME NoReplacing, ItemInv, [Next]_vars
  PROVE  ItemInv'
<1>1. CASE UNCHANGED vars
  BY <1>1 DEF vars, ItemInv, TypeOK, OneSlot, MadeHasName, DeleteIsAlone, ScopeProtects, ThreadOK,
              LocalOK, HoldsFolder, FoundIsThere, ItemIsUsed, DeleteLocked, Content
<1>2. ASSUME NEW t \in Threads, Begin(t) PROVE ItemInv'
  BY <1>2, BeginOK
<1>3. ASSUME NEW t \in Threads, Step(t) PROVE ItemInv'
  <2>1. CASE LockFolder(t) \/ LockItems(t) \/ SubLoadItems(t) \/ Purge(t) \/ PurgeErase(t)
    BY <2>1, LockFolderOK, LockItemsOK, SubLoadItemsOK, PurgeOK, PurgeEraseOK
  <2>2. CASE LoadFails(t) \/ Read(t) \/ SubRenameFails(t) \/ Relock(t)
    BY <2>2, ReturnOK DEF LoadFails, Read, SubRenameFails, Relock
  <2>3. CASE FindItem(t) \/ LockItem(t) \/ GetItems(t) \/ ListNext(t) \/ ListDone(t) \/ CreateItem(t)
    BY <2>3, FindItemOK, LockItemOK, GetItemsOK, ListNextOK, ListDoneOK, CreateItemOK
  <2>4. CASE Delete(t) \/ DeleteItem(t) \/ GetDeleteLock(t) \/ SubDelete(t)
    BY <2>4, DeleteOK, DeleteItemOK, GetDeleteLockOK, SubDeleteOK
  <2>5. CASE Rename(t) \/ RenameItem(t) \/ Move(t) \/ MoveItem(t) \/ LockSub(t)
    BY <2>5, RenameOK, RenameItemOK, MoveOK, MoveItemOK, LockSubOK
  <2>6. CASE SubRename(t) \/ SetName(t)
    BY <2>6, SubRenameOK, SetNameOK
  <2> QED BY <1>3, <2>1, <2>2, <2>3, <2>4, <2>5, <2>6 DEF Step
<1> QED BY <1>1, <1>2, <1>3 DEF Next

(* In every state of any calls that run at once, each item has one slot in one folder, what
   a call has found in a folder stays there while it holds the folder's lock, and an item
   is live while it is scope-locked (Item.hpp:61-66, Folder.cpp). *)
THEOREM TreeInvariance ==
  ASSUME NoReplacing
  PROVE  Spec => []ItemInv
<1>1. Init => ItemInv
  BY InitItemInv
<1>2. ItemInv /\ [Next]_vars => ItemInv'
  BY StepItemInv
<1> QED BY <1>1, <1>2, PTL DEF Spec

(* No call reaches an item that a refresh or a deletion has destructed: whoever holds its
   scope lock keeps it alive (Item.hpp:61-66, Folder.cpp SyncContents and DeleteItem). *)
THEOREM NothingInUseErased ==
  ASSUME NoReplacing
  PROVE  Spec => []ScopeProtects
<1>1. ItemInv => ScopeProtects
  BY DEF ItemInv
<1> QED BY <1>1, TreeInvariance, PTL

(* Creations, deletions, renames, moves and refreshes, however they interleave, keep the
   items a tree: a live item is in exactly one place, and no other is anywhere
   (Folder.cpp, the changes to mItemMap). *)
THEOREM StaysATree ==
  ASSUME NoReplacing
  PROVE  Spec => []OnePlace
<1>1. ASSUME ItemInv PROVE OnePlace
  <2> SUFFICES ASSUME NEW i \in Items
               PROVE  LET places == {p \in Folders \X Names : mItemMap[p[1]][p[2]] = i}
                      IN  IF status[i] = "live" THEN Cardinality(places) = 1 ELSE places = {}
    BY DEF OnePlace
  <2> DEFINE places == {p \in Folders \X Names : mItemMap[p[1]][p[2]] = i}
  <2>1. CASE status[i] = "live"
    <3>1. PICK f \in Folders, n \in Names : mItemMap[f][n] = i
      BY <1>1, <2>1 DEF ItemInv, OneSlot
    <3>2. \A p \in places : p = <<f, n>>
      BY <1>1, <3>1, NoneAssumption DEF ItemInv, OneSlot
    <3>3. places = {<<f, n>>}
      BY <3>1, <3>2
    <3> QED BY <2>1, <3>3, FS_Singleton
  <2>2. CASE status[i] # "live"
    BY <1>1, <2>2 DEF ItemInv, OneSlot
  <2> QED BY <2>1, <2>2
<1>2. ItemInv => OnePlace
  BY <1>1
<1> QED BY <1>2, TreeInvariance, PTL
=============================================================================
