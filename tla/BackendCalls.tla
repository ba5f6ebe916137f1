---------------------------- MODULE BackendCalls -----------------------------
(* BackendImpl's calls on files and folders: the guards, the request with its repeats, and
   what the caller is told.  The server keeps items in the root folder or in the folders
   there and refuses what would give two items one place; it is external. *)
EXTENDS Integers, FiniteSets

CONSTANTS
    CallNames,      \* names of items
    CallIds,        \* ids of items; Root is none of them
    Root, NoItem,
    MaxAttempts,    \* RunnerOptions::maxRetries + 1
    Refusals        \* answers [code, message] by which the server refuses a request

VARIABLES
    items,          \* the server: per id its kind, parent and name, or NoItem
    before,         \* items when the call was made
    callMode,           \* the options readOnly and cacheType=MEMORY, and the server's read_only
    call, attempt, outcome

callVars == <<items, before, callMode, call, attempt, outcome>>

Kinds == {"file", "folder"}
Item(kind, parent, name) == [kind |-> kind, parent |-> parent, name |-> name]
NoCall == [op |-> "none"]

Present(i) == items[i] # NoItem
Folder(p) == p = Root \/ (Present(p) /\ items[p].kind = "folder")
Occupant(p, name) == {i \in CallIds : Present(i) /\ items[i].parent = p /\ items[i].name = name}

CallInit ==
    /\ items \in [CallIds -> {NoItem} \cup {Item(k, Root, n) : k \in Kinds, n \in CallNames}]
    /\ \A i, j \in CallIds : items[i] = items[j] => i = j \/ items[i] = NoItem
    /\ callMode \in [option : BOOLEAN, server : BOOLEAN, memory : BOOLEAN]
    /\ before = items /\ call = NoCall /\ attempt = 0 /\ outcome = "none"

Create == [op : {"create"}, kind : Kinds, parent : CallIds \cup {Root}, name : CallNames,
           overwrite : BOOLEAN]
Delete == [op : {"delete"}, kind : Kinds, id : CallIds]
Rename == [op : {"rename"}, kind : Kinds, id : CallIds, name : CallNames, overwrite : BOOLEAN]
Move == [op : {"move"}, kind : Kinds, id : CallIds, parent : CallIds \cup {Root},
         overwrite : BOOLEAN]
Truncate == [op : {"truncate"}, kind : {"file"}, id : CallIds]
Read == [op : {"getfolder"}, kind : {"folder"}, id : CallIds \cup {Root}]

isReadOnly == callMode.option \/ callMode.server
isMemory == callMode.memory
Writes(c) == c.op # "getfolder"

Guard(c) ==
    IF Writes(c) /\ isReadOnly THEN "ReadOnlyException" ELSE IF isMemory THEN "ok" ELSE "none"

(* a call of the API; a folder is never created over another one *)
Begin ==
    /\ call = NoCall
    /\ \E c \in Create \cup Delete \cup Rename \cup Move \cup Truncate \cup Read :
        /\ c.op = "create" /\ c.kind = "folder" => ~c.overwrite
        /\ call' = c /\ outcome' = Guard(c)
    /\ attempt' = 0 /\ before' = items
    /\ UNCHANGED <<items, callMode>>

(* the server: what it does, and its answer *)
Reply(code, message) == [code |-> code, message |-> message]
Done == Reply(200, "")
Unknown == Reply(404, "UNKNOWN_ITEM")
Duplicate == Reply(400, "DUPLICATE")
Garbled == Reply(0, "")                     \* not JSON, or not what is expected of it

Put(id, item, overwrite) ==
    LET others == Occupant(item.parent, item.name) \ {id}
    IN  IF item.parent = id \/ ~Folder(item.parent) THEN <<items, Unknown>>
        ELSE IF others = {} THEN <<[items EXCEPT ![id] = item], Done>>
        ELSE IF ~overwrite \/ \E o \in others : items[o].kind # item.kind THEN <<items, Duplicate>>
        ELSE <<[i \in CallIds |-> IF i = id THEN item
                                  ELSE IF i \in others THEN NoItem ELSE items[i]], Done>>

Has(c) == c.id \in CallIds /\ Present(c.id) /\ items[c.id].kind = c.kind

Created(c) ==
    LET old == Occupant(c.parent, c.name)
        ids == IF old = {} THEN {i \in CallIds : ~Present(i)}
               ELSE {i \in old : c.overwrite /\ items[i].kind = c.kind}
    IN  IF ids = {} THEN <<items, Duplicate>>
        ELSE Put(CHOOSE i \in ids : TRUE, Item(c.kind, c.parent, c.name), FALSE)

Changed(c) ==
    CASE c.op = "delete" ->
            <<[i \in CallIds |-> IF i = c.id \/ (Present(i) /\ items[i].parent = c.id) THEN NoItem
                                 ELSE items[i]], Done>>
      [] c.op = "rename" -> Put(c.id, [items[c.id] EXCEPT !.name = c.name], c.overwrite)
      [] c.op = "move" -> Put(c.id, [items[c.id] EXCEPT !.parent = c.parent], c.overwrite)
      [] c.op = "truncate" -> <<items, Done>>

Answer(c) ==
    IF c.op = "create" THEN Created(c)
    ELSE IF c.op = "getfolder" THEN <<items, IF c.id = Root \/ Has(c) THEN Done ELSE Unknown>>
    ELSE IF Has(c) THEN Changed(c)
    ELSE <<items, Unknown>>

-----------------------------------------------------------------------------
(* the exception that an answer is made into: those known by their message, or by the code *)
Exceptions ==
    {<<Reply(400, "FILESYSTEM_MISMATCH"), "UnsupportedException">>,
     <<Reply(400, "STORAGE_FOLDERS_UNSUPPORTED"), "UnsupportedException">>,
     <<Reply(400, "ACCOUNT_CRYPTO_NOT_UNLOCKED"), "DeniedException">>,
     <<Reply(400, "INPUT_FILE_MISSING"), "InputSizeException">>,
     <<Reply(403, "AUTHENTICATION_FAILED"), "AuthenticationFailedException">>,
     <<Reply(403, "TWOFACTOR_REQUIRED"), "TwoFactorRequiredException">>,
     <<Reply(403, "READ_ONLY_DATABASE"), "ReadOnlyFSException">>,
     <<Reply(403, "READ_ONLY_STORAGE"), "ReadOnlyFSException">>}

GetJSON(answer) ==
    LET known == {e \in Exceptions : e[1] = answer}
    IN  IF known # {} THEN (CHOOSE e \in known : TRUE)[2]
        ELSE CASE answer = Garbled -> "JSONErrorException"
               [] answer.code = 200 -> "ok"
               [] answer.code = 403 -> "DeniedException"
               [] answer.code = 404 -> "NotFoundException"
               [] OTHER -> "APIException"

(* mutant of Told: a repeated deletion is told that there is nothing to delete *)
ToldNotFound(c, thrown) == thrown

(* DeleteFile and DeleteFolder catch NotFoundException *)
Told(c, thrown) == IF c.op = "delete" /\ thrown = "NotFoundException" THEN "ok" ELSE thrown

(* an attempt that the server carries out, and whose answer arrives or is lost *)
Request ==
    /\ call # NoCall /\ outcome = "none" /\ attempt < MaxAttempts
    /\ attempt' = attempt + 1
    /\ items' = Answer(call)[1]
    /\ \/ outcome' \in {Told(call, GetJSON(a)) : a \in {Answer(call)[2], Garbled}}
       \/ outcome' = IF attempt' < MaxAttempts THEN "none" ELSE "LibraryException"
    /\ UNCHANGED <<before, callMode, call>>

(* one that the server refuses, having become read-only, say *)
RequestRefused ==
    /\ call # NoCall /\ outcome = "none" /\ attempt < MaxAttempts
    /\ attempt' = attempt + 1
    /\ outcome' \in {Told(call, GetJSON(a)) : a \in Refusals}
    /\ UNCHANGED <<items, before, callMode, call>>

(* an attempt that does not reach the server, or one it is too busy for *)
RequestLost ==
    /\ call # NoCall /\ outcome = "none" /\ attempt < MaxAttempts
    /\ attempt' = attempt + 1
    /\ outcome' = IF attempt' < MaxAttempts THEN "none" ELSE "LibraryException"
    /\ UNCHANGED <<items, before, callMode, call>>

End ==
    /\ outcome # "none"
    /\ call' = NoCall /\ outcome' = "none" /\ attempt' = 0 /\ before' = items
    /\ UNCHANGED <<items, callMode>>

CallNext == Begin \/ Request \/ RequestRefused \/ RequestLost \/ End

CallSpec == CallInit /\ [][CallNext]_callVars

Named(parent, name, kind) ==
    \E i \in CallIds : items[i] = Item(kind, parent, name)

(* A call that returns has done what it was asked to, however often its request was
   repeated, and a deletion never fails because it was done already; one that is refused
   here, or that is made in memory, never reached the server, and only such a call is told
   so by the exception for it (isReadOnly, isMemory, GetJSON). *)
CallTruth ==
    /\ outcome = "ok" /\ ~isMemory =>
         CASE call.op = "create" -> Named(call.parent, call.name, call.kind)
           [] call.op = "delete" -> ~Present(call.id) \/ items[call.id].kind # call.kind
           [] call.op = "rename" -> items[call.id] = [before[call.id] EXCEPT !.name = call.name]
           [] call.op = "move" -> items[call.id] = [before[call.id] EXCEPT !.parent = call.parent]
           [] OTHER -> TRUE
    /\ outcome = "NotFoundException" => call.op # "delete"
    /\ attempt = 0 \/ isMemory \/ (isReadOnly /\ call # NoCall) => items = before
    /\ isReadOnly /\ call # NoCall /\ Writes(call) => outcome = "ReadOnlyException"
    /\ outcome = "ReadOnlyException" => attempt = 0 /\ isReadOnly
=============================================================================
