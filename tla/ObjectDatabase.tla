--------------------------- MODULE ObjectDatabase ---------------------------
(* ObjectDatabase over SqliteDatabase: objects of one table with the columns id, name
   (ScalarType) and count (CounterType), loaded, created, changed, saved and deleted by
   threads that share the database.  A BaseObject is an element of Objs, its address;
   mMutex is held by `holder'; a thread in "all" holds it and SqliteDatabase's mutex.
   SaveObject() goes on without the mutex when it finds mAtomicOp set by another thread
   (UnlockedSave): the run's threads do not do that, see SaveGather. *)
EXTENDS FieldTypes, Sequences, SequencesExt, FiniteSets

CONSTANTS
    Threads, Objs, Ids, Values,
    Deltas,          \* what DeltaValue() is called with
    Faults,          \* "query": any statement may fail; "crash": the program may end
    MaxCount,        \* bound on a counter
    MaxChanges,      \* bound on the changes of a name between two saves
    UnlockedSave,    \* changes and Save() during another thread's SaveObjects()
    None

VARIABLES
    rows,        \* the table as the connection sees it: id -> [name, count]
    disk,        \* the table as it is when the program starts again
    inTx,        \* sqlite3_get_autocommit() == 0
    obj,         \* Objs -> None or [id, name, count]
    mObjects,    \* id -> Objs
    mCreated, mModified,    \* OrderedMaps: sequences of Objs
    holder,      \* the thread that has mMutex, or None
    mAtomicOp,   \* whether it is set
    pc,          \* "idle", "set", "gather", "save", "query", "all" or "load"
    loc          \* the thread's locals

dbVars == <<rows, disk, inTx>>
memVars == <<obj, mObjects, mCreated, mModified>>
databaseVars == <<dbVars, memVars, holder, mAtomicOp, pc, loc>>

Live == {o \in Objs : obj[o] # None}
Without(seq, o) ==
    IF Contains(seq, o) THEN RemoveAt(seq, CHOOSE i \in DOMAIN seq : seq[i] = o) ELSE seq
Erase(map, id) == [i \in DOMAIN map \ {id} |-> map[i]]
With(map, id, v) == [i \in DOMAIN map \cup {id} |-> IF i = id THEN v ELSE map[i]]

MutexFree(t) == holder \in {None, t}
SqlFree(t) == \A s \in Threads \ {t} : pc[s] # "all"

(* notifyModified() under the mutex *)
Notified(o) == IF Contains(mModified, o) THEN mModified ELSE Append(mModified, o)

Fields(o) == [name |-> obj[o].name, count |-> obj[o].count]
Modified(fs) == (IF isModified(fs.name) THEN {"name"} ELSE {})
                \cup (IF isModified(fs.count) THEN {"count"} ELSE {})

(* SetUnmodified() *)
Clean(o) == [o EXCEPT !.name = SetUnmodified(@), !.count = SetUnmodified(@)]

Return(t) == pc' = [pc EXCEPT ![t] = "idle"] /\ loc' = [loc EXCEPT ![t] = None]
Goto(t, label, locals) ==
    pc' = [pc EXCEPT ![t] = label] /\ loc' = [loc EXCEPT ![t] = locals]
Release(t) == holder' = IF holder = t THEN None ELSE holder
-----------------------------------------------------------------------------
DatabaseInit ==
    /\ rows = << >> /\ disk = << >> /\ inTx = FALSE
    /\ obj = [o \in Objs |-> None] /\ mObjects = << >>
    /\ mCreated = << >> /\ mModified = << >>
    /\ holder = None /\ mAtomicOp = FALSE
    /\ pc = [t \in Threads |-> "idle"] /\ loc = [t \in Threads |-> None]

(* SetValue() of the random id notifies the database from within the constructor *)
CreateObject(t) ==
    /\ pc[t] = "idle" /\ MutexFree(t)
    /\ \E o \in Objs \ Live, i \in Ids \ (DOMAIN rows \cup {obj[p].id : p \in Live}) :
         /\ obj' = [obj EXCEPT ![o] = [id |-> i, name |-> Scalar, count |-> Counter]]
         /\ mModified' = Notified(o)
         /\ mCreated' = Append(mCreated, o)
    /\ UNCHANGED <<dbVars, mObjects, holder, mAtomicOp, pc, loc>>

(* the objects another thread is about to change or save are not ours to change *)
Others(t) == {loc[s].o : s \in {s \in Threads \ {t} : pc[s] \in {"set", "gather", "save", "query"}}}
Saving(t) == ~UnlockedSave /\ \E s \in Threads \ {t} : pc[s] = "all"

(* SetValue(), DeltaValue(): notifyModified(), then the change, which needs no mutex *)
SetBegin(t) ==
    /\ pc[t] = "idle" /\ MutexFree(t)
    /\ \E o \in Live \ Others(t) :
         \E f \in [field : {"name"}, to : Values] \cup [field : {"count"}, to : Deltas] :
           /\ IF f.field = "name" THEN ScalarSet(obj[o].name, f.to, FALSE).mDelta \in obj[o].name.mDelta + 1 .. MaxChanges
              ELSE obj[o].count.mValue + f.to \in -MaxCount .. MaxCount
           /\ mModified' = Notified(o)
           /\ Goto(t, "set", [o |-> o, f |-> f])
    /\ UNCHANGED <<dbVars, obj, mObjects, mCreated, holder, mAtomicOp>>

(* o with the new value of a field *)
ChangedBy(o, f) ==
    IF f.field = "name" THEN [o EXCEPT !.name = ScalarSet(o.name, f.to, FALSE)]
    ELSE [o EXCEPT !.count = DeltaValue(o.count, f.to)]

SetEnd(t) ==
    /\ pc[t] = "set"
    /\ obj' = [obj EXCEPT ![loc[t].o] = ChangedBy(@, loc[t].f)]
    /\ Return(t)
    /\ UNCHANGED <<dbVars, mObjects, mCreated, mModified, holder, mAtomicOp>>
-----------------------------------------------------------------------------
(* a statement that stores the fields fs of o; the column name is NOT NULL *)
Insert(table, id, fs, fields) ==
    With(table, id,
         [name |-> IF "name" \in fields THEN Inserted(fs.name) ELSE Null,
          count |-> IF "count" \in fields THEN Inserted(fs.count) ELSE 0])
Update(table, id, fs, fields) ==
    [table EXCEPT ![id] =
        [name |-> IF "name" \in fields THEN Updated(@.name, fs.name) ELSE @.name,
         count |-> IF "count" \in fields THEN Updated(@.count, fs.count) ELSE @.count]]

(* InsertObject_Query, UpdateObject_Query: whether the database takes them, and how the
   table is then.  An UPDATE without columns is not sent. *)
Stores(table, id, created, fields) ==
    IF created THEN id \notin DOMAIN table /\ "name" \in fields
    ELSE fields = {} \/ id \in DOMAIN table
Stored(table, id, created, fs, fields) ==
    IF created THEN Insert(table, id, fs, fields)
    ELSE IF fields = {} THEN table ELSE Update(table, id, fs, fields)

(* BaseObject::Save() lists the modified fields before it has the mutex *)
SaveGather(t) ==
    /\ pc[t] = "idle" /\ ~Saving(t)
    /\ \E o \in Live \ Others(t) :
         Goto(t, "gather", [o |-> o, fields |-> Modified(Fields(o))])
    /\ UNCHANGED <<dbVars, memVars, holder, mAtomicOp>>

(* SaveObject() has the mutex or saw mAtomicOp, and reads the fields *)
SaveLock(t) ==
    /\ pc[t] = "gather"
    /\ mAtomicOp \/ MutexFree(t)
    /\ holder' = IF mAtomicOp THEN holder ELSE t
    /\ LET o == loc[t].o
       IN  Goto(t, "save", [o |-> o, fields |-> loc[t].fields, fs |-> Fields(o),
                            created |-> Contains(mCreated, o)])
    /\ UNCHANGED <<dbVars, memVars, mAtomicOp>>

SaveQuery(t) ==
    /\ pc[t] = "save" /\ SqlFree(t)
    /\ LET l == loc[t]
           id == obj[l.o].id
       IN  /\ Stores(rows, id, l.created, l.fields)
           /\ rows' = Stored(rows, id, l.created, l.fs, l.fields)
           /\ disk' = IF inTx THEN disk ELSE rows'
           /\ Goto(t, "query", l)
    /\ UNCHANGED <<inTx, memVars, holder, mAtomicOp>>

(* InsertFailedException, UpdateFailedException, SqliteException *)
SaveFails(t) ==
    /\ pc[t] = "save" /\ SqlFree(t)
    /\ \/ ~Stores(rows, obj[loc[t].o].id, loc[t].created, loc[t].fields)
       \/ "query" \in Faults
    /\ Release(t) /\ Return(t)
    /\ UNCHANGED <<dbVars, memVars, mAtomicOp>>

(* InsertObject_Register: the object moves to mObjects *)
Register(o) ==
    /\ obj' = [obj EXCEPT ![o] = Clean(@)]
    /\ mModified' = Without(mModified, o)
    /\ mCreated' = Without(mCreated, o)
    /\ mObjects' = IF Contains(mCreated, o) THEN With(mObjects, obj[o].id, o) ELSE mObjects

SaveRegister(t) ==
    /\ pc[t] = "query"
    /\ IF mAtomicOp /\ holder # t THEN UNCHANGED memVars ELSE Register(loc[t].o)
    /\ Release(t) /\ Return(t)
    /\ UNCHANGED <<dbVars, mAtomicOp>>
-----------------------------------------------------------------------------
(* SaveObjects: created objects first *)
Todo == mCreated \o mModified

SaveObjects(t) ==
    /\ pc[t] = "idle" /\ MutexFree(t) /\ SqlFree(t)
    /\ UnlockedSave \/ \A s \in Threads : pc[s] \notin {"set", "gather", "save", "query"}
    /\ IF inTx      \* TransactionException
       THEN UNCHANGED <<holder, mAtomicOp, inTx, pc, loc>>
       ELSE /\ holder' = t /\ mAtomicOp' = TRUE /\ inTx' = TRUE
            /\ Goto(t, "all", [todo |-> Todo, done |-> {}])
    /\ UNCHANGED <<rows, disk, memVars>>

(* Save() of the next object, within the transaction; one that was created is among the
   modified ones again, and is not saved twice *)
SaveNext(t) ==
    /\ pc[t] = "all" /\ loc[t].todo # << >>
    /\ LET o == Head(loc[t].todo)
           fs == Fields(o)
           created == Contains(mCreated, o)
       IN  IF o \in loc[t].done THEN UNCHANGED rows
           ELSE /\ Stores(rows, obj[o].id, created, Modified(fs))
                /\ rows' = Stored(rows, obj[o].id, created, fs, Modified(fs))
    /\ loc' = [loc EXCEPT ![t] = [todo |-> Tail(@.todo), done |-> @.done \cup {Head(@.todo)}]]
    /\ UNCHANGED <<disk, inTx, memVars, holder, mAtomicOp, pc>>

(* every query is done: COMMIT, then the data structures *)
Commit(t) ==
    /\ pc[t] = "all" /\ loc[t].todo = << >>
    /\ disk' = rows /\ inTx' = FALSE
    /\ obj' = [o \in Objs |-> IF Contains(mCreated \o mModified, o) THEN Clean(obj[o]) ELSE obj[o]]
    /\ mObjects' = [i \in DOMAIN mObjects \cup {obj[o].id : o \in ToSet(mCreated)} |->
           IF i \in DOMAIN mObjects THEN mObjects[i] ELSE CHOOSE o \in ToSet(mCreated) : obj[o].id = i]
    /\ mCreated' = << >> /\ mModified' = << >>
    /\ holder' = None /\ mAtomicOp' = FALSE /\ Return(t)
    /\ UNCHANGED rows

(* mutant of Rollback: the data structures are updated although the queries failed *)
RollbackRegistered(t) ==
    /\ pc[t] = "all"
    /\ loc[t].todo # << >> /\ "query" \in Faults
    /\ rows' = disk /\ inTx' = FALSE
    /\ obj' = [obj EXCEPT ![Head(loc[t].todo)] = Clean(@)]
    /\ mModified' = Without(mModified, Head(loc[t].todo))
    /\ holder' = None /\ mAtomicOp' = FALSE /\ Return(t)
    /\ UNCHANGED <<disk, mObjects, mCreated>>

(* mutant of Rollback: what was stored before the failure stays *)
RollbackNothing(t) ==
    /\ pc[t] = "all"
    /\ "query" \in Faults
    /\ disk' = rows /\ inTx' = FALSE
    /\ holder' = None /\ mAtomicOp' = FALSE /\ Return(t)
    /\ UNCHANGED <<rows, memVars>>

(* mutant of Rollback: the transaction stays open *)
RollbackForgotten(t) ==
    /\ pc[t] = "all" /\ "query" \in Faults
    /\ holder' = None /\ mAtomicOp' = FALSE /\ Return(t)
    /\ UNCHANGED <<dbVars, memVars>>

(* a query or the COMMIT throws a DatabaseException *)
Rollback(t) ==
    /\ pc[t] = "all"
    /\ \/ "query" \in Faults
       \/ /\ loc[t].todo # << >>
          /\ LET o == Head(loc[t].todo)
             IN  /\ o \notin loc[t].done
                 /\ ~Stores(rows, obj[o].id, Contains(mCreated, o), Modified(Fields(o)))
    /\ rows' = disk /\ inTx' = FALSE
    /\ holder' = None /\ mAtomicOp' = FALSE /\ Return(t)
    /\ UNCHANGED <<disk, memVars>>
-----------------------------------------------------------------------------
(* LoadObjectsByQuery: the rows are read, and objects made of them one by one later *)
LoadQuery(t) ==
    /\ pc[t] = "idle" /\ SqlFree(t)
    /\ DOMAIN rows # {}
    /\ Goto(t, "load", [rows |-> rows])
    /\ UNCHANGED <<dbVars, memVars, holder, mAtomicOp>>

Construct(o, i, row) ==
    [obj EXCEPT ![o] = [id |-> i, name |-> ScalarInit(Scalar, row.name),
                        count |-> CounterInit(Counter, row.count)]]

(* mutant of ConstructObject: whether the object is loaded is decided by what was read first *)
ConstructAgain(t) ==
    /\ pc[t] = "load" /\ MutexFree(t)
    /\ \E i \in DOMAIN loc[t].rows, o \in Objs \ Live :
         /\ obj' = Construct(o, i, loc[t].rows[i])
         /\ mObjects' = With(mObjects, i, o)
         /\ LET rest == Erase(loc[t].rows, i)
            IN  IF DOMAIN rest = {} THEN Return(t) ELSE Goto(t, "load", [rows |-> rest])
    /\ UNCHANGED <<dbVars, mCreated, mModified, holder, mAtomicOp>>

(* ConstructObject: an object that is loaded is not replaced *)
ConstructObject(t) ==
    /\ pc[t] = "load" /\ MutexFree(t)
    /\ \E i \in DOMAIN loc[t].rows :
         /\ IF i \in DOMAIN mObjects THEN UNCHANGED <<obj, mObjects>>
            ELSE \E o \in Objs \ Live : obj' = Construct(o, i, loc[t].rows[i])
                                        /\ mObjects' = With(mObjects, i, o)
         /\ LET rest == Erase(loc[t].rows, i)
            IN  IF DOMAIN rest = {} THEN Return(t) ELSE Goto(t, "load", [rows |-> rest])
    /\ UNCHANGED <<dbVars, mCreated, mModified, holder, mAtomicOp>>

(* DeleteObject; nobody else uses the object or is loading it.  One DELETE: it is done or
   it throws, and then nothing is changed. *)
DeleteObject(t) ==
    /\ pc[t] = "idle" /\ MutexFree(t) /\ SqlFree(t)
    /\ \A s \in Threads : pc[s] # "load"
    /\ \E o \in Live \ Others(t) :
         LET i == obj[o].id
         IN  /\ IF Contains(mCreated, o) THEN UNCHANGED <<rows, disk, mObjects>>
                ELSE /\ i \in DOMAIN rows      \* or DeleteFailedException
                     /\ rows' = Erase(rows, i)
                     /\ disk' = IF inTx THEN disk ELSE rows'
                     /\ mObjects' = Erase(mObjects, i)
             /\ obj' = [obj EXCEPT ![o] = None]
             /\ mModified' = Without(mModified, o)
             /\ mCreated' = Without(mCreated, o)
    /\ UNCHANGED <<inTx, holder, mAtomicOp, pc, loc>>

(* the program ends, in an orderly way or not, and starts again: SQLite's journal takes
   back a transaction that was not committed *)
Restart ==
    /\ "crash" \in Faults
    /\ rows' = disk /\ inTx' = FALSE /\ disk' = disk
    /\ obj' = [o \in Objs |-> None] /\ mObjects' = << >>
    /\ mCreated' = << >> /\ mModified' = << >>
    /\ holder' = None /\ mAtomicOp' = FALSE
    /\ pc' = [t \in Threads |-> "idle"] /\ loc' = [t \in Threads |-> None]
-----------------------------------------------------------------------------
DatabaseNext ==
    \/ \E t \in Threads :
         \/ CreateObject(t) \/ SetBegin(t) \/ SetEnd(t)
         \/ SaveGather(t) \/ SaveLock(t) \/ SaveQuery(t) \/ SaveFails(t) \/ SaveRegister(t)
         \/ SaveObjects(t) \/ SaveNext(t) \/ Commit(t) \/ Rollback(t)
         \/ LoadQuery(t) \/ ConstructObject(t) \/ DeleteObject(t)
    \/ Restart

DatabaseSpec == DatabaseInit /\ [][DatabaseNext]_databaseVars
-----------------------------------------------------------------------------
(* There is one object per row however many threads load, create and save: each object
   is in exactly one of mCreated and mObjects, under its id, and the queues hold no
   object that was deleted (ConstructObject, InsertObject_Register, DeleteObject). *)
OneObject ==
    /\ \A o \in Live : Contains(mCreated, o) # (obj[o].id \in DOMAIN mObjects /\ mObjects[obj[o].id] = o)
    /\ \A o, p \in Live : obj[o].id = obj[p].id => o = p
    /\ ToSet(mCreated) \cup ToSet(mModified) \cup {mObjects[i] : i \in DOMAIN mObjects} \subseteq Live
    /\ IsInjective(mCreated) /\ IsInjective(mModified)

(* a thread is between a query with the object and its Register *)
InFlight(o) == \E t \in Threads : \/ pc[t] = "query" /\ loc[t].o = o
                                  \/ pc[t] = "all" /\ Contains(Todo, o)

(* No change is forgotten and none counted twice: what the row has, with what a save
   would add, is what the object's users see; and an object whose row differs is one
   SaveObjects() will save. *)
NothingLost ==
    \A i \in DOMAIN mObjects :
       LET o == mObjects[i]
       IN  ~InFlight(o) =>
             /\ i \in DOMAIN rows
             /\ rows[i].count + obj[o].count.mDelta = obj[o].count.mValue
             /\ rows[i].name = obj[o].name.mRealValue \/ isModified(obj[o].name)
             /\ Modified(Fields(o)) # {} => Contains(mModified, o)

(* The connection is in a transaction only inside SaveObjects(), so that a save that
   returned survives a restart (SqliteDatabase::transaction). *)
NoOpenTransaction ==
    /\ inTx <=> \E t \in Threads : pc[t] = "all"
    /\ ~inTx => rows = disk
    /\ mAtomicOp => inTx

(* "if an exception is thrown, nothing is changed": SaveObjects() that ends has stored
   everything there was to save, or has left database and objects as they were. *)
SavesAllOrNothing ==
    mAtomicOp /\ ~mAtomicOp' =>
         \/ /\ disk' = disk /\ rows' = disk
            /\ UNCHANGED memVars \/ Restart
         \/ /\ mCreated' = << >> /\ mModified' = << >>
            /\ \A o \in Live : /\ obj'[o].id \in DOMAIN disk'
                               /\ disk'[obj'[o].id] = [name |-> obj'[o].name.mRealValue,
                                                       count |-> obj'[o].count.mValue]
AllOrNothing == [][SavesAllOrNothing]_databaseVars
=============================================================================
