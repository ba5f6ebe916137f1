------------------------------- MODULE FuseOps -------------------------------
(* The handlers of FuseOperations, from the lookup of a path to the errno: folders, files
   that are not yet at the server, and the virtual folder that the filesystems are in.  One
   call at a time; ItemTree has the locks and PageManager the data.  The kernel sends no
   rename of a folder into itself or of one kind of item over the other; the server is
   external, refuses to put an item over one of the other kind or over a folder that has
   items, and may answer any request with an error. *)
EXTENDS Integers, SequencesExt

CONSTANTS
    FuseNames, FuseIds, Root, NoItem,
    MaxDepth,          \* bound on the length of a path
    Answers,           \* what a request may end with: "ok" or an exception
    UnsavedReplace     \* renames over an item when one of the two, or what is in it, is not saved

VARIABLES
    local,       \* mItemMap of all folders: per id NoItem or a kind, a parent, a name and saved
    server,      \* the same at the server
    options,     \* the root is virtual, cacheType NONE, who is read-only, and fakeChmod
    broken       \* a call did not do what it told: see Keeps

fuseVars == <<local, server, options, broken>>

-----------------------------------------------------------------------------
(* exceptions: a catch clause takes its class and the ones derived from it *)
BaseOf(e) ==
    IF e \in {"ReadOnlyFS", "AuthenticationFailed", "TwoFactorRequired"} THEN "Denied"
    ELSE IF e = "Connection" THEN "Library" ELSE "Base"

(* mutant of Catches: the base class is caught first *)
CatchesDeniedFirst ==
    << <<"NotFile", "EISDIR">>, <<"NotFolder", "ENOTDIR">>, <<"NotFound", "ENOENT">>,
       <<"DuplicateItem", "EEXIST">>, <<"Modify", "ENOTSUP">>, <<"WriteType", "ENOTSUP">>,
       <<"ItemReadOnlyFS", "EROFS">>, <<"NullParent", "ENOTSUP">>, <<"Memory", "ENOMEM">>,
       <<"Denied", "EACCES">>, <<"ReadOnlyFS", "EROFS">>, <<"Connection", "EHOSTDOWN">>, <<"Base", "EIO">> >>

Catches ==
    << <<"NotFile", "EISDIR">>, <<"NotFolder", "ENOTDIR">>, <<"NotFound", "ENOENT">>,
       <<"DuplicateItem", "EEXIST">>, <<"Modify", "ENOTSUP">>, <<"WriteType", "ENOTSUP">>,
       <<"ItemReadOnlyFS", "EROFS">>, <<"NullParent", "ENOTSUP">>, <<"Memory", "ENOMEM">>,
       <<"Unsupported", "ENOTSUP">>, <<"ReadOnlyFS", "EROFS">>, <<"Denied", "EACCES">>,
       <<"NotAtServer", "ENOENT">>, <<"WriteSize", "ENOTSUP">>, <<"Connection", "EHOSTDOWN">>,
       <<"Base", "EIO">> >>

CatchAsErrno(e) ==
    Catches[SelectInSeq(Catches, LAMBDA c : c[1] \in {e, BaseOf(e), "Base"})][2]

Fail(errno) == [errno |-> errno, local |-> local, server |-> server]
Throw(e) == Fail(CatchAsErrno(e))
Succeed(l, s) == [errno |-> "OK", local |-> l, server |-> s]

-----------------------------------------------------------------------------
(* trees *)
Entry(kind, parent, name, saved) == [kind |-> kind, parent |-> parent, name |-> name, saved |-> saved]
Present(tree) == {i \in FuseIds : tree[i] # NoItem}
Children(tree, p) == {i \in Present(tree) : tree[i].parent = p}
InPlace(tree, p, name) == {i \in Children(tree, p) : tree[i].name = name}

RECURSIVE Inside(_, _)
Inside(tree, i) == {i} \cup UNION {Inside(tree, j) : j \in Children(tree, i)}

Without(tree, items) == [i \in FuseIds |-> IF i \in items THEN NoItem ELSE tree[i]]
Put(tree, i, entry) ==
    LET replaced == UNION {Inside(tree, j) : j \in InPlace(tree, entry.parent, entry.name) \ {i}}
    IN  [Without(tree, replaced) EXCEPT ![i] = entry]

Virtual(i) == options.super /\ i = Root
IsFolder(i) == i = Root \/ local[i].kind # "file"
isReadOnlyFS(i) == options.readOnly = "backend" \/ (options.readOnly = "fs" /\ ~Virtual(i))

(* Folder::GetItemByPath, GetFileByPath, GetFolderByPath: an id or an exception *)
LookupErrors == {"NotFound", "NotFolder", "NotFile"}

GetItemByPath(path) ==
    FoldLeft(LAMBDA at, name :
                 IF at \in LookupErrors THEN at
                 ELSE IF ~IsFolder(at) THEN "NotFolder"
                 ELSE IF InPlace(local, at, name) = {} THEN "NotFound"
                 ELSE CHOOSE i \in InPlace(local, at, name) : TRUE,
             Root, path)

GetFileByPath(path) ==
    LET i == GetItemByPath(path)
    IN  IF i \notin LookupErrors /\ IsFolder(i) THEN "NotFile" ELSE i

GetFolderByPath(path) ==
    LET i == GetItemByPath(path)
    IN  IF i \notin LookupErrors /\ ~IsFolder(i) THEN "NotFolder" ELSE i

OnItem(i, Do(_)) == IF i \in LookupErrors THEN Throw(i) ELSE Do(i)

-----------------------------------------------------------------------------
(* requests: the server's tree after one that it carries out, or Refused *)
Refused == NoItem

ServerPut(tree, i, entry) ==
    LET others == InPlace(tree, entry.parent, entry.name) \ {i}
    IN  IF \E o \in others : tree[o].kind # entry.kind \/ Children(tree, o) # {} THEN Refused
        ELSE Put(tree, i, entry)
ServerNew(tree, i, entry) ==
    IF InPlace(tree, entry.parent, entry.name) # {} THEN Refused ELSE Put(tree, i, entry)

Request(answer, s, l) ==
    IF answer # "ok" THEN Throw(answer)
    ELSE IF s = Refused THEN Throw("Base")
    ELSE Succeed(l, s)

Saved(i) == [local[i] EXCEPT !.saved = TRUE]

(* Folder::CreateFile, CreateFolder, and PlainFolder's and the virtual folder's part *)
Create(path, kind, answer) ==
    LET name == Last(path)
        i == CHOOSE i \in FuseIds : local[i] = NoItem /\ server[i] = NoItem
        In(p) ==
            IF InPlace(local, p, name) # {} THEN Throw("DuplicateItem")
            ELSE IF Virtual(p) THEN Throw("Modify")
            ELSE IF isReadOnlyFS(p) THEN Throw("ItemReadOnlyFS")
            ELSE IF kind = "file" /\ ~options.cacheNone
                 THEN Succeed(Put(local, i, Entry(kind, p, name, FALSE)), server)
            ELSE LET new == Entry(kind, p, name, TRUE)
                 IN  Request(answer, ServerNew(server, i, new), Put(local, i, new))
    IN  OnItem(GetFolderByPath(Front(path)), In)

(* Item::Delete, Folder::DeleteItem, and the SubDelete of the item's class *)
Delete(i, answer) ==
    IF i = Root THEN Throw("NullParent")
    ELSE IF isReadOnlyFS(local[i].parent) THEN Throw("ItemReadOnlyFS")
    ELSE IF local[i].kind = "filesystem" THEN Throw("Modify")
    ELSE IF ~local[i].saved THEN Succeed(Without(local, {i}), server)
    ELSE Request(answer, Without(server, Inside(server, i)), Without(local, Inside(local, i)))

(* Item::Rename, Folder::RenameItem, and SubRename; a filesystem's root has no name *)
Rename(i, newName, answer) ==
    LET new == [local[i] EXCEPT !.name = newName]
    IN  IF isReadOnlyFS(local[i].parent) \/ isReadOnlyFS(i) THEN Throw("ItemReadOnlyFS")
        ELSE IF ~new.saved THEN Succeed(Put(local, i, new), server)
        ELSE IF new.kind = "filesystem" THEN Throw("Base")
        ELSE Request(answer, ServerPut(server, i, new), Put(local, i, new))

(* mutant of SubMove: a file that is not at the server is only moved here *)
SubMoveUnsaved(i, new, flushAnswer, answer) ==
    IF ~local[i].saved THEN Succeed(Put(local, i, new), server)
    ELSE Request(answer, ServerPut(server, i, new), Put(local, i, new))

(* a file is flushed first, and may stay saved where it was *)
SubMove(i, new, flushAnswer, answer) ==
    LET moved == [new EXCEPT !.saved = TRUE]
        flushed == IF local[i].saved THEN server ELSE ServerNew(server, i, Saved(i))
    IN  IF ~local[i].saved /\ (flushAnswer # "ok" \/ flushed = Refused)
        THEN Request(flushAnswer, Refused, local)
        ELSE LET move == Request(answer, ServerPut(flushed, i, moved), Put(local, i, moved))
             IN  IF move.errno = "OK" THEN move
                 ELSE [move EXCEPT !.local = Put(local, i, Saved(i)), !.server = flushed]

(* Item::Move, Folder::MoveItem, and SubMove *)
Move(i, newParent, flushAnswer, answer) ==
    IF isReadOnlyFS(local[i].parent) \/ isReadOnlyFS(newParent) THEN Throw("ItemReadOnlyFS")
    ELSE IF Virtual(newParent) \/ local[i].kind = "filesystem" THEN Throw("Modify")
    ELSE IF isReadOnlyFS(i) THEN Throw("ItemReadOnlyFS")
    ELSE SubMove(i, [local[i] EXCEPT !.parent = newParent], flushAnswer, answer)

(* Folder::FlushCache, File::FlushCache, up to the first file that fails *)
FlushCache(items, flushAnswer, answer) ==
    LET unsaved == {i \in items : ~local[i].saved}
        first == CHOOSE i \in unsaved : TRUE
        Flushed(tree, set) == [i \in FuseIds |-> IF i \in set THEN Saved(i) ELSE tree[i]]
    IN  IF unsaved = {} \/ flushAnswer # "ok" THEN Request(flushAnswer, server, local)
        ELSE IF InPlace(server, local[first].parent, local[first].name) # {} THEN Throw("Base")
        ELSE LET done == IF answer = "ok" THEN unsaved ELSE {first}
             IN  [errno |-> IF unsaved = done THEN "OK" ELSE CatchAsErrno(answer),
                  local |-> Flushed(local, done), server |-> Flushed(server, done)]

-----------------------------------------------------------------------------
(* what a call promises, on the paths that a user sees and whether each is a folder *)
RECURSIVE PathOf(_, _)
PathOf(tree, i) == IF i = Root THEN <<>> ELSE Append(PathOf(tree, tree[i].parent), tree[i].name)

Seen(tree) == {<<PathOf(tree, i), tree[i].kind # "file">> : i \in Present(tree)}

There(seen, path) == \E x \in seen : x[1] = path
Folders(seen) == {<<>>} \cup {x[1] : x \in {x \in seen : x[2]}}
Beneath(seen, path) == {x \in seen : IsStrictPrefix(path, x[1])}

Renamed(seen, old, new) ==
    {x \in seen : ~IsPrefix(old, x[1]) /\ ~IsPrefix(new, x[1])}
    \cup {<<new \o SubSeq(x[1], Len(old) + 1, Len(x[1])), x[2]>> : x \in {x \in seen : IsPrefix(old, x[1])}}

Done(c, seen, after) ==
    CASE c.op = "create" -> ~There(seen, c.path) /\ after = seen \cup {<<c.path, FALSE>>}
      [] c.op = "mkdir" -> ~There(seen, c.path) /\ after = seen \cup {<<c.path, TRUE>>}
      [] c.op = "unlink" -> <<c.path, FALSE>> \in seen /\ after = seen \ {<<c.path, FALSE>>}
      [] c.op = "rmdir" -> /\ c.path \in Folders(seen) /\ Beneath(seen, c.path) = {}
                           /\ after = seen \ {<<c.path, TRUE>>}
      [] c.op = "rename" -> /\ There(seen, c.path) /\ Beneath(seen, c.new) = {}
                            /\ after = Renamed(seen, c.path, c.new)
      [] c.op \in {"opendir", "readdir", "fsyncdir"} -> c.path \in Folders(seen) /\ after = seen
      [] c.op \in {"getattr", "chmod", "chown"} -> (c.path = <<>> \/ There(seen, c.path)) /\ after = seen
      [] OTHER -> <<c.path, FALSE>> \in seen /\ after = seen

Along(c) == (Prefixes(c.path) \cup IF c.op = "rename" THEN Prefixes(c.new) ELSE {}) \ {<<>>}

Explained(c, errno, seen, answers) ==
    CASE errno = "ENOENT" -> \/ \E p \in Along(c) : ~There(seen, p)
                             \/ "NotAtServer" \in answers
      [] errno = "ENOTDIR" -> \E p \in Along(c) : <<p, FALSE>> \in seen
      [] errno = "EISDIR" -> c.path \in Folders(seen)
      [] errno = "EEXIST" -> There(seen, c.path)
      [] errno = "ENOTEMPTY" -> Beneath(seen, c.path) # {}
      [] errno = "EROFS" -> options.readOnly # "none" \/ "ReadOnlyFS" \in answers
      [] errno = "EACCES" -> "AuthenticationFailed" \in answers
      [] errno = "EHOSTDOWN" -> "Connection" \in answers
      [] OTHER -> TRUE

Keeps(c, outcome, answers) ==
    LET seen == Seen(local)
        after == Seen(outcome.local)
    IN  IF outcome.errno = "OK"
        THEN Done(c, seen, after) /\ (options.readOnly = "backend" => after = seen)
        ELSE after = seen /\ Explained(c, outcome.errno, seen, answers)

-----------------------------------------------------------------------------
(* the handlers *)
Asked ==
    LET paths == {<<>>} \cup {PathOf(local, i) : i \in Present(local)}
    IN  {p \in paths \cup {Append(q, n) : q \in paths, n \in FuseNames} : Len(p) <= MaxDepth}

(* a call, with each of the sequences of answers that its requests may have *)
Do(c, Outcome(_), answers) ==
    LET ended(a) == LET o == Outcome(a) IN <<o.local, o.server, ~Keeps(c, o, ToSet(a))>>
    IN  /\ \E end \in {ended(a) : a \in answers} :
               local' = end[1] /\ server' = end[2] /\ broken' = end[3]
        /\ UNCHANGED options

Call(op, path) == [op |-> op, path |-> path]
NoRequest == {<<>>}
OneRequest(may) == {<<a>> : a \in may}

getattr == \E path \in Asked :
    Do(Call("getattr", path),
       LAMBDA a : OnItem(GetItemByPath(path), LAMBDA i : Succeed(local, server)), NoRequest)

(* the listing may be refreshed, and fail *)
readdir == \E path \in Asked :
    Do(Call("readdir", path),
       LAMBDA a : OnItem(GetFolderByPath(path), LAMBDA i : Request(a[1], server, local)),
       OneRequest(Answers))

opendir == \E path \in Asked, write \in BOOLEAN :
    Do(Call("opendir", path),
       LAMBDA a : OnItem(GetFolderByPath(path),
              LAMBDA i : IF write /\ isReadOnlyFS(i) THEN Fail("EROFS") ELSE Succeed(local, server)),
       NoRequest)

Truncate(i, answer) ==
    IF isReadOnlyFS(i) THEN Throw("ItemReadOnlyFS") ELSE Request(answer, server, local)

open == \E path \in Asked, write, trunc \in BOOLEAN :
    Do(Call("open", path),
       LAMBDA a : OnItem(GetFileByPath(path),
              LAMBDA i : IF write /\ isReadOnlyFS(i) THEN Fail("EROFS")
                         ELSE IF trunc THEN Truncate(i, a[1]) ELSE Succeed(local, server)),
       OneRequest(Answers \cup {"WriteType"}))

truncate == \E path \in Asked :
    Do(Call("truncate", path), LAMBDA a : OnItem(GetFileByPath(path), LAMBDA i : Truncate(i, a[1])),
       OneRequest(Answers \cup {"WriteType"}))

create == \E path \in Asked \ {<<>>} :
    /\ \E i \in FuseIds : local[i] = NoItem /\ server[i] = NoItem
    /\ Do(Call("create", path), LAMBDA a : Create(path, "file", a[1]), OneRequest(Answers))

mkdir == \E path \in Asked \ {<<>>} :
    /\ \E i \in FuseIds : local[i] = NoItem /\ server[i] = NoItem
    /\ Do(Call("mkdir", path), LAMBDA a : Create(path, "folder", a[1]), OneRequest(Answers))

unlink == \E path \in Asked :
    Do(Call("unlink", path), LAMBDA a : OnItem(GetFileByPath(path), LAMBDA i : Delete(i, a[1])),
       OneRequest(Answers))

rmdirItem(i, answer) == IF Children(local, i) # {} THEN Fail("ENOTEMPTY") ELSE Delete(i, answer)

rmdir == \E path \in Asked :
    Do(Call("rmdir", path), LAMBDA a : OnItem(GetFolderByPath(path), LAMBDA i : rmdirItem(i, a[1])),
       OneRequest(Answers))

(* what the kernel sends *)
Sent(old, new) ==
    LET i == GetItemByPath(old)
        j == GetItemByPath(new)
        safe == /\ (local[i].saved \/ ~local[j].saved \/ Front(old) # Front(new))
                /\ \A k \in Inside(local, j) \ {j} : local[k].saved
    IN  /\ old # <<>> /\ new # <<>> /\ ~IsPrefix(old, new)
        /\ i \notin LookupErrors /\ j \notin LookupErrors =>
             /\ IsFolder(i) = IsFolder(j) /\ ~IsPrefix(new, old)
             /\ safe \/ UnsavedReplace

(* only a file that is not saved is flushed before it is moved *)
FlushAnswers(i) == IF i \in Present(local) /\ ~local[i].saved THEN Answers ELSE {"ok"}

(* a new name and a new parent are not done at once *)
RenameTo(old, new, flushAnswer, answer) ==
    IF Front(old) # Front(new) /\ Last(old) # Last(new) THEN Fail("EIO")
    ELSE IF Front(old) # Front(new)
    THEN OnItem(GetFolderByPath(Front(new)),
                LAMBDA p : OnItem(GetItemByPath(old), LAMBDA i : Move(i, p, flushAnswer, answer)))
    ELSE OnItem(GetItemByPath(old), LAMBDA i : Rename(i, Last(new), answer))

rename == \E old, new \in Asked :
    /\ Sent(old, new)
    /\ Do([op |-> "rename", path |-> old, new |-> new],
          LAMBDA a : RenameTo(old, new, a[1], a[2]), FlushAnswers(GetItemByPath(old)) \X Answers)

(* the data of the file may be read from the server *)
read == \E path \in Asked :
    Do(Call("read", path),
       LAMBDA a : OnItem(GetFileByPath(path), LAMBDA i : Request(a[1], server, local)),
       OneRequest(Answers \cup {"Memory"}))

write == \E path \in Asked :
    Do(Call("write", path), LAMBDA a : OnItem(GetFileByPath(path), LAMBDA i : Truncate(i, a[1])),
       OneRequest(Answers \cup {"Memory", "WriteType", "WriteSize"}))

(* flush, fsync and release *)
flush == \E path \in Asked :
    Do(Call("flush", path),
       LAMBDA a : OnItem(GetFileByPath(path), LAMBDA i : FlushCache({i}, a[1], a[1])),
       OneRequest(Answers))

fsyncdir == \E path \in Asked :
    Do(Call("fsyncdir", path),
       LAMBDA a : OnItem(GetFolderByPath(path),
                         LAMBDA i : FlushCache(Inside(local, i) \ {i}, a[1], a[2])),
       Answers \X Answers)

(* chmod and chown *)
chmod == \E path \in Asked :
    Do(Call("chmod", path),
       LAMBDA a : IF ~options.fake THEN Fail("ENOTSUP")
                  ELSE OnItem(GetItemByPath(path), LAMBDA i : Succeed(local, server)), NoRequest)

FuseInit ==
    /\ options \in [super : BOOLEAN, cacheNone : BOOLEAN, fake : {TRUE}, readOnly : {"none", "fs", "backend"}]
    /\ LET f == CHOOSE i \in FuseIds : TRUE
           a == CHOOSE i \in FuseIds : i # f
           n == CHOOSE n \in FuseNames : TRUE
       IN  local = [i \in FuseIds |->
                     IF i = f THEN Entry(IF options.super THEN "filesystem" ELSE "folder", Root, n, TRUE)
                     ELSE IF i = a /\ options.readOnly # "none" THEN Entry("file", f, n, TRUE)
                     ELSE NoItem]
    /\ server = local /\ broken = FALSE

FuseNext ==
    \/ getattr \/ readdir \/ opendir \/ open \/ truncate \/ create \/ mkdir \/ unlink \/ rmdir
    \/ rename \/ read \/ write \/ flush \/ fsyncdir \/ chmod

(* A call that succeeds has done what its name says and nothing else, one that fails has
   left the tree alone, and the errno is a true reason, the one of the nearest class that
   was thrown (FuseOperations, CatchAsErrno). *)
CallsKeepWord == ~broken

(* The tree that the user sees is the server's, but for files that are not saved, whose
   places there are free, so that they can be saved (File::SubDelete, SubRename, SubMove). *)
SeenIsStored ==
    \A i \in FuseIds :
        /\ (local[i] # NoItem /\ local[i].saved) \/ server[i] # NoItem => server[i] = local[i]
        /\ local[i] # NoItem /\ ~local[i].saved => InPlace(server, local[i].parent, local[i].name) = {}
=============================================================================
