---------------------------- MODULE DatabaseProofs ----------------------------
(* The GUI's database: what ObjectDatabase, a field and its column, and TableInstaller
   promise, for any number of threads, objects, values and versions.  The three share no
   state: first the installation of the tables, then a field, then the objects. *)
EXTENDS Installer, FieldLife, ObjectDatabase, NumberLemmas, TLAPS

SizesOK == MaxVersion \in Nat /\ QueryCount \in Nat \ {0}

Running == [at : {"install", "query", "failed", "done", "ready"},
            code : [TableSet -> 1 .. MaxVersion], table : {1, 2}, goal : Nat, next : Nat]

InstallTypeOK ==
    /\ shape \in [TableSet -> Nat] /\ left \in [TableSet -> Int]
    /\ version \in [TableSet -> Nat]
    /\ gui = NotRunning \/ gui \in Running

(* what does not depend on the program that runs *)
Recoverable ==
    \A t \in TableSet :
        /\ shape[t] >= version[t]
        /\ shape[t] = version[t] => left[t] = 0
        /\ version[t] > 0 => shape[t] <= version[t] + 1

(* while a table's queries run: which version they lead to, and that those before the next
   one were run by this program *)
Upgrading ==
    gui.at = "query" =>
        /\ gui.next >= 1
        /\ gui.goal > version[Table]
        /\ version[Table] > 0 => gui.goal = version[Table] + 1
        /\ gui.next > 1 => /\ shape[Table] = gui.goal
                           /\ left[Table] = QueryCount - gui.next + 1

(* the tables that the program has finished with *)
Finished ==
    /\ gui.at # "down" /\ gui.table = 2 => version["meta"] = gui.code["meta"]
    /\ gui.at = "done" => version[Table] = Code
    /\ gui.at = "ready" => version["session"] = gui.code["session"] /\ gui.table = 2

InstallInv == InstallTypeOK /\ Recoverable /\ Upgrading /\ Finished

-----------------------------------------------------------------------------
(* the table that is worked on is one of the two, and a program that runs has all fields *)
LEMMA RunningFields ==
    ASSUME InstallTypeOK, gui.at # "down"
    PROVE  /\ gui \in Running
           /\ Table \in TableSet /\ Code \in 1 .. MaxVersion
           /\ gui.table = 1 => Table = "meta"
           /\ gui.table = 2 => Table = "session"
<1>1. gui \in Running
  BY DEF InstallTypeOK, NotRunning
<1>2. Table \in TableSet /\ (gui.table = 1 => Table = "meta")
                         /\ (gui.table = 2 => Table = "session")
  BY <1>1 DEF Running, Table, Tables, TableSet
<1> QED
  BY <1>1, <1>2 DEF Running, Code

(* what CheckVersion() makes of the program when it has something to install *)
LEMMA QueryStarts ==
    ASSUME gui \in Running, NEW g \in Nat,
           gui' = [gui EXCEPT !.at = "query", !.goal = g, !.next = 1]
    PROVE  /\ gui' \in Running /\ gui'.at = "query" /\ gui'.code = gui.code
           /\ gui'.table = gui.table /\ gui'.goal = g /\ gui'.next = 1
BY DEF Running

(* a database without tables can be installed *)
LEMMA InitRecoverable == ASSUME SizesOK, InstallInit PROVE InstallInv
BY DEF SizesOK, InstallInit, InstallInv, InstallTypeOK, Recoverable, Upgrading, Finished, NotRunning

(* No step of any program, and no end of one, breaks the invariant. *)
LEMMA StepRecoverable ==
    ASSUME SizesOK, InstallInv, [InstallNext]_installVars
    PROVE  InstallInv'
<1> USE DEF SizesOK, InstallInv
<1>1. CASE StartGui
  <2>1. PICK code \in [TableSet -> 1 .. MaxVersion] :
          gui' = [at |-> "install", code |-> code, table |-> 1, goal |-> 0, next |-> 0]
    BY <1>1 DEF StartGui
  <2>2. gui' \in Running
    BY <2>1 DEF Running
  <2> QED
    BY <1>1, <2>1, <2>2 DEF StartGui, InstallTypeOK, Recoverable, Upgrading, Finished
<1>2. CASE StopGui
  BY <1>2 DEF StopGui, NotRunning, InstallTypeOK, Recoverable, Upgrading, Finished
<1>3. CASE QueryFails
  <2>1. gui \in Running /\ gui' = [gui EXCEPT !.at = "failed"]
    BY <1>3, RunningFields DEF QueryFails
  <2>2. gui' \in Running /\ gui'.at = "failed" /\ gui'.table = gui.table /\ gui'.code = gui.code
    BY <2>1 DEF Running
  <2> QED
    BY <1>3, <2>2 DEF QueryFails, InstallTypeOK, Recoverable, Upgrading, Finished
<1>4. CASE NextTable
  <2>1. gui \in Running /\ gui.at = "done" /\ gui.table \in {1, 2} /\ Table \in TableSet
    BY <1>4, RunningFields DEF NextTable, Running
  <2>2. version[Table] = Code
    BY <2>1 DEF Finished
  <2>3. CASE gui.table = 1
    <3>1. gui' = [gui EXCEPT !.at = "install", !.table = 2]
      BY <1>4, <2>1, <2>3 DEF NextTable, Tables, Running
    <3>2. gui' \in Running /\ gui'.at = "install" /\ gui'.code = gui.code
      BY <2>1, <3>1 DEF Running
    <3>3. version["meta"] = gui.code["meta"]
      BY <2>1, <2>2, <2>3, RunningFields DEF Code
    <3> QED
      BY <1>4, <3>2, <3>3 DEF NextTable, InstallTypeOK, Recoverable, Upgrading, Finished
  <2>4. CASE gui.table = 2
    <3>1. gui' = [gui EXCEPT !.at = "ready"]
      BY <1>4, <2>1, <2>4 DEF NextTable, Tables
    <3>2. gui' \in Running /\ gui'.at = "ready" /\ gui'.code = gui.code /\ gui'.table = 2
      BY <2>1, <2>4, <3>1 DEF Running
    <3>3. version["session"] = gui.code["session"]
      BY <2>1, <2>2, <2>4, RunningFields DEF Code
    <3> QED
      BY <1>4, <2>1, <2>4, <3>2, <3>3
         DEF NextTable, InstallTypeOK, Recoverable, Upgrading, Finished
  <2> QED
    BY <2>1, <2>3, <2>4
<1>5. CASE CheckVersion
  <2>1. gui \in Running /\ gui.at = "install" /\ Table \in TableSet /\ Code \in 1 .. MaxVersion
    BY <1>5, RunningFields DEF CheckVersion
  <2> DEFINE v == version[Table]
  <2>2. v \in Nat
    BY <2>1 DEF InstallTypeOK
  <2>3. CASE v = 0
    <3>1. gui' = [gui EXCEPT !.at = "query", !.goal = Code, !.next = 1]
      BY <1>5, <2>1, <2>2, <2>3 DEF CheckVersion, Recorded
    <3>2. Code \in Nat
      BY <2>1
    <3>3. /\ gui' \in Running /\ gui'.at = "query" /\ gui'.code = gui.code
          /\ gui'.table = gui.table /\ gui'.goal = Code /\ gui'.next = 1
      BY <2>1, <3>1, <3>2, QueryStarts
    <3> QED
      BY <1>5, <2>1, <2>3, <3>3
         DEF CheckVersion, InstallTypeOK, Recoverable, Upgrading, Finished, Table
  <2>4. CASE v > Code
    <3>1. gui' = [gui EXCEPT !.at = "failed"]
      BY <1>5, <2>1, <2>2, <2>4 DEF CheckVersion, Recorded
    <3>2. gui' \in Running /\ gui'.at = "failed" /\ gui'.code = gui.code /\ gui'.table = gui.table
      BY <2>1, <3>1 DEF Running
    <3> QED
      BY <1>5, <2>1, <3>2 DEF CheckVersion, InstallTypeOK, Recoverable, Upgrading, Finished
  <2>5. CASE v = Code
    <3>1. gui' = [gui EXCEPT !.at = "done"]
      BY <1>5, <2>1, <2>2, <2>5 DEF CheckVersion, Recorded
    <3>2. gui' \in Running /\ gui'.at = "done" /\ gui'.code = gui.code /\ gui'.table = gui.table
      BY <2>1, <3>1 DEF Running
    <3> QED
      BY <1>5, <2>1, <2>5, <3>2
         DEF CheckVersion, InstallTypeOK, Recoverable, Upgrading, Finished, Table, Code
  <2>6. CASE v > 0 /\ v < Code
    <3>1. gui' = [gui EXCEPT !.at = "query", !.goal = v + 1, !.next = 1]
      BY <1>5, <2>1, <2>2, <2>6 DEF CheckVersion, Recorded
    <3>2. v + 1 \in Nat
      BY <2>2
    <3>3. /\ gui' \in Running /\ gui'.at = "query" /\ gui'.code = gui.code
          /\ gui'.table = gui.table /\ gui'.goal = v + 1 /\ gui'.next = 1
      BY <2>1, <3>1, <3>2, QueryStarts
    <3> QED
      BY <1>5, <2>1, <2>2, <3>3
         DEF CheckVersion, InstallTypeOK, Recoverable, Upgrading, Finished, Table
  <2> QED
    BY <2>1, <2>2, <2>3, <2>4, <2>5, <2>6
<1>6. CASE RunQuery
  <2>1. /\ gui \in Running /\ gui.at = "query" /\ Table \in TableSet
        /\ gui.next \in Nat /\ gui.goal \in Nat /\ UNCHANGED version
    BY <1>6, RunningFields DEF RunQuery, Running
  <2>2. CASE CanRun
    <3>1. /\ shape' = [shape EXCEPT ![Table] = gui.goal]
          /\ left' = [left EXCEPT ![Table] = QueryCount - gui.next]
          /\ gui' = [gui EXCEPT !.next = gui.next + 1]
      BY <1>6, <2>2 DEF RunQuery
    <3>2. /\ gui' \in Running /\ gui'.at = "query" /\ gui'.code = gui.code
          /\ gui'.table = gui.table /\ gui'.goal = gui.goal /\ gui'.next = gui.next + 1
      BY <2>1, <3>1 DEF Running
    <3>3. /\ gui.next >= 1 /\ gui.goal > version[Table]
          /\ version[Table] > 0 => gui.goal = version[Table] + 1
      BY <2>1 DEF Upgrading
    <3>4. Table' = Table
      BY <3>2 DEF Table
    <3>5. InstallTypeOK'
      BY <2>1, <3>1, <3>2 DEF InstallTypeOK
    <3>6. Recoverable'
      BY <2>1, <3>1, <3>3 DEF InstallTypeOK, Recoverable
    <3>7. Upgrading'
      BY <2>1, <3>1, <3>2, <3>3, <3>4 DEF InstallTypeOK, Upgrading
    <3>8. Finished'
      BY <2>1, <3>2 DEF Finished
    <3> QED
      BY <3>5, <3>6, <3>7, <3>8
  <2>3. CASE ~CanRun
    <3>1. gui' = [gui EXCEPT !.at = "failed"] /\ UNCHANGED <<shape, left>>
      BY <1>6, <2>3 DEF RunQuery
    <3>2. gui' \in Running /\ gui'.at = "failed" /\ gui'.code = gui.code /\ gui'.table = gui.table
      BY <2>1, <3>1 DEF Running
    <3> QED
      BY <2>1, <3>1, <3>2 DEF InstallTypeOK, Recoverable, Upgrading, Finished
  <2> QED
    BY <2>2, <2>3
<1>7. CASE SetVersion
  <2>1. /\ gui \in Running /\ gui.at = "query" /\ Table \in TableSet /\ gui.goal \in Nat
        /\ gui.next = QueryCount + 1 /\ UNCHANGED <<shape, left>>
        /\ version' = [version EXCEPT ![Table] = gui.goal]
        /\ gui' = [gui EXCEPT !.at = "install"]
    BY <1>7, RunningFields DEF SetVersion, Running
  <2>2. /\ gui' \in Running /\ gui'.at = "install" /\ gui'.code = gui.code
        /\ gui'.table = gui.table
    BY <2>1 DEF Running
  <2>3. shape[Table] = gui.goal /\ left[Table] = 0
    BY <2>1 DEF Upgrading
  <2>4. InstallTypeOK'
    BY <2>1, <2>2 DEF InstallTypeOK
  <2>5. Recoverable'
    BY <2>1, <2>3 DEF InstallTypeOK, Recoverable
  <2>6. gui.table = 2 => version'["meta"] = version["meta"]
    BY <2>1, RunningFields DEF InstallTypeOK, TableSet
  <2> QED
    BY <2>1, <2>2, <2>4, <2>5, <2>6 DEF Upgrading, Finished
<1>8. CASE UNCHANGED installVars
  BY <1>8 DEF installVars, InstallTypeOK, Recoverable, Upgrading, Finished, Table, Code
<1> QED
  BY <1>1, <1>2, <1>3, <1>4, <1>5, <1>6, <1>7, <1>8 DEF InstallNext

(* The invariant says at least what the run checks. *)
LEMMA RecoverableIsTrue == ASSUME InstallInv PROVE VersionIsTrue
<1>1. CASE gui.at = "ready"
  BY <1>1 DEF InstallInv, Recoverable, Finished, VersionIsTrue, TableSet
<1>2. CASE gui.at # "ready"
  BY <1>2 DEF InstallInv, Recoverable, VersionIsTrue
<1> QED
  BY <1>1, <1>2

(* However many versions the tables have had, and however many queries one of them takes:
   whichever programs TableInstaller::InstallTables() was run by, and wherever they were
   killed, a table never has less than the version recorded for it, and a program that has
   started finds the version it knows. *)
THEOREM InstalledVersions == ASSUME SizesOK PROVE InstallSpec => []VersionIsTrue
<1>1. InstallInit => InstallInv
  BY InitRecoverable
<1>2. InstallInv /\ [InstallNext]_installVars => InstallInv'
  BY StepRecoverable
<1>3. InstallInv => VersionIsTrue
  BY RecoverableIsTrue
<1> QED
  BY <1>1, <1>2, <1>3, PTL DEF InstallSpec

-----------------------------------------------------------------------------
(* The objects.  Who calls the database does not change or save an object that another
   thread is saving; a counter is counted up. *)
Names == Values \cup {Zero, Null}
NameFields == [type : {"Scalar"}, mDelta : Nat, mTempInitd : BOOLEAN, mTempValue : Names,
               mRealInitd : BOOLEAN, mRealValue : Names]
CountFields == [type : {"Counter"}, mDelta : Nat, mValue : Int]
Objects == [id : Ids, name : NameFields, count : CountFields]
Rows == [name : Names, count : Int]

DatabaseOK ==
    /\ Deltas \subseteq Nat /\ ~UnlockedSave
    /\ None \notin Threads /\ None \notin Objects

IsTable(table) ==
    /\ DOMAIN table \subseteq Ids
    /\ table = [i \in DOMAIN table |-> table[i]]
    /\ \A i \in DOMAIN table : table[i] \in Rows

FieldNames == {"name", "count"}
Changes == [field : {"name"}, to : Values] \cup [field : {"count"}, to : Deltas]
Steps == {"idle", "set", "gather", "save", "query", "all", "load"}

LocalsOK(t) ==
    /\ pc[t] = "set" => loc[t] \in [o : Objs, f : Changes]
    /\ pc[t] = "gather" => loc[t] \in [o : Objs, fields : SUBSET FieldNames]
    /\ pc[t] \in {"save", "query"} =>
         loc[t] \in [o : Objs, fields : SUBSET FieldNames, created : BOOLEAN,
                     fs : [name : NameFields, count : CountFields]]
    /\ pc[t] = "all" => loc[t] \in [todo : Seq(Objs), done : SUBSET Objs]
    /\ pc[t] = "load" => IsTable(loc[t].rows)

DatabaseTypeOK ==
    /\ IsTable(rows) /\ IsTable(disk) /\ inTx \in BOOLEAN /\ mAtomicOp \in BOOLEAN
    /\ obj \in [Objs -> Objects \cup {None}]
    /\ DOMAIN mObjects \subseteq Ids /\ mObjects = [i \in DOMAIN mObjects |-> mObjects[i]]
    /\ mCreated \in Seq(Objs) /\ mModified \in Seq(Objs)
    /\ holder \in Threads \cup {None}
    /\ pc \in [Threads -> Steps] /\ DOMAIN loc = Threads /\ loc = [t \in Threads |-> loc[t]]
    /\ \A t \in Threads : LocalsOK(t)

(* mMutex is held through a save, and through SaveObjects(), which no other call overlaps *)
Working == {"set", "gather", "save", "query"}
Locked ==
    /\ \A t \in Threads : pc[t] \in {"save", "query", "all"} <=> holder = t
    /\ mAtomicOp <=> \E t \in Threads : pc[t] = "all"
    /\ mAtomicOp <=> inTx
    /\ mAtomicOp => \A t \in Threads : pc[t] \notin Working

(* an object is used by one thread at a time *)
UsedByOne ==
    /\ \A t \in Threads : pc[t] \in Working => loc[t].o \in Live
    /\ \A s, t \in Threads : pc[s] \in Working /\ pc[t] \in Working /\ loc[s].o = loc[t].o => s = t

IsCreated(o) == Contains(mCreated, o)
InTable(o) == obj[o].id \in DOMAIN mObjects /\ mObjects[obj[o].id] = o

(* OneObject, and that mObjects has each under its id *)
Indexed ==
    /\ \A o \in Live : IsCreated(o) <=> ~InTable(o)
    /\ \A o, p \in Live : obj[o].id = obj[p].id => o = p
    /\ \A i \in DOMAIN mObjects : mObjects[i] \in Live /\ obj[mObjects[i]].id = i
    /\ \A o \in Objs : Contains(mCreated, o) \/ Contains(mModified, o) => o \in Live
    /\ IsInjective(mCreated) /\ IsInjective(mModified)

(* what a save that begins before the next step of t will find *)
Gathered ==
    \A t \in Threads :
        /\ pc[t] = "set" => Contains(mModified, loc[t].o)
        /\ pc[t] \in {"gather", "save"} => loc[t].fields = Modified(Fields(loc[t].o))
        /\ pc[t] = "save" => loc[t].fs = Fields(loc[t].o) /\ loc[t].created = IsCreated(loc[t].o)

Queued == \A o \in Live : Modified(Fields(o)) # {} => Contains(mModified, o)

Queried(o) == \E t \in Threads : pc[t] = "query" /\ loc[t].o = o
Final(o) == [name |-> obj[o].name.mRealValue, count |-> obj[o].count.mValue]

(* how an object and its row on disk differ: not at all after a query, by what the object's
   fields say if it was loaded or saved, and there is no row of one that was created *)
Differs(o) ==
    IF Queried(o) THEN obj[o].id \in DOMAIN disk /\ disk[obj[o].id] = Final(o)
    ELSE IF IsCreated(o) THEN obj[o].id \notin DOMAIN disk
    ELSE /\ obj[o].id \in DOMAIN disk
         /\ disk[obj[o].id].count + obj[o].count.mDelta = obj[o].count.mValue
         /\ disk[obj[o].id].name = obj[o].name.mRealValue \/ isModified(obj[o].name)
OnDisk ==
    /\ \A o \in Live : Differs(o)
    /\ \A o \in Live : IsCreated(o) => obj[o].count.mDelta = obj[o].count.mValue

(* what the transaction has done, and what is left for it to do *)
InTransaction ==
    /\ ~inTx => rows = disk
    /\ \A t \in Threads : pc[t] = "all" =>
         /\ \A o \in Objs : (o \in loc[t].done \/ Contains(loc[t].todo, o))
                              <=> (Contains(mCreated, o) \/ Contains(mModified, o))
         /\ \A o \in loc[t].done : obj[o].id \in DOMAIN rows /\ rows[obj[o].id] = Final(o)
         /\ \A i \in Ids : (\A o \in loc[t].done : obj[o].id # i) =>
              (i \in DOMAIN rows <=> i \in DOMAIN disk) /\ (i \in DOMAIN disk => rows[i] = disk[i])

(* a row that was read for a load is the row still, unless it has its object by now *)
Loading ==
    \A t \in Threads : pc[t] = "load" =>
        \A i \in DOMAIN loc[t].rows :
            /\ i \in DOMAIN disk
            /\ \/ i \in DOMAIN mObjects
               \/ \E o \in Live : obj[o].id = i /\ Queried(o)
               \/ disk[i] = loc[t].rows[i] /\ \A o \in Live : obj[o].id # i

DatabaseInv == /\ DatabaseTypeOK /\ Locked /\ UsedByOne /\ Indexed /\ Gathered /\ Queued
               /\ OnDisk /\ InTransaction /\ Loading

-----------------------------------------------------------------------------
(* what Register() and DeleteObject() leave of a queue, and notifyModified() adds to one *)
LEMMA WithoutLemma ==
    ASSUME NEW seq \in Seq(Objs), IsInjective(seq), NEW o
    PROVE  /\ Without(seq, o) \in Seq(Objs) /\ IsInjective(Without(seq, o))
           /\ \A x : Contains(Without(seq, o), x) <=> Contains(seq, x) /\ x # o
<1>1. CASE Contains(seq, o)
  <2> DEFINE i == CHOOSE i \in DOMAIN seq : seq[i] = o
  <2>1. i \in 1 .. Len(seq) /\ seq[i] = o
    BY <1>1 DEF Contains
  <2>2. Without(seq, o) = RemoveAt(seq, i)
    BY <1>1 DEF Without
  <2> HIDE DEF i
  <2> QED
    BY <2>1, <2>2, Removal, RemovalContains
<1>2. CASE ~Contains(seq, o)
  BY <1>2 DEF Without
<1> QED
  BY <1>1, <1>2

(* notifyModified() of an object *)
LEMMA NotifiedLemma ==
    ASSUME mModified \in Seq(Objs), IsInjective(mModified), NEW o \in Objs
    PROVE  /\ Notified(o) \in Seq(Objs) /\ IsInjective(Notified(o))
           /\ \A x : Contains(Notified(o), x) <=> Contains(mModified, x) \/ x = o
BY AppendContains DEF Notified

(* which fields a save takes *)
LEMMA ModifiedLemma ==
    ASSUME NEW fs
    PROVE  /\ Modified(fs) \subseteq FieldNames
           /\ "name" \in Modified(fs) <=> isModified(fs.name)
           /\ "count" \in Modified(fs) <=> isModified(fs.count)
           /\ Modified(fs) # {} <=> isModified(fs.name) \/ isModified(fs.count)
BY DEF Modified, FieldNames

(* SetUnmodified(), SetValue() and DeltaValue() *)
LEMMA CleanLemma ==
    ASSUME NEW b \in Objects
    PROVE  /\ Clean(b) \in Objects /\ Clean(b).id = b.id
           /\ ~isModified(Clean(b).name) /\ ~isModified(Clean(b).count)
           /\ Clean(b).count.mDelta = 0
           /\ Clean(b).name.mRealValue = b.name.mRealValue
           /\ Clean(b).count.mValue = b.count.mValue
<1>1. b.id \in Ids /\ b.name \in NameFields /\ b.count \in CountFields
  BY DEF Objects
<1>2. /\ SetUnmodified(b.name) \in NameFields /\ SetUnmodified(b.name).mDelta = 0
      /\ SetUnmodified(b.name).mRealValue = b.name.mRealValue
  BY <1>1 DEF SetUnmodified, NameFields
<1>3. /\ SetUnmodified(b.count) \in CountFields /\ SetUnmodified(b.count).mDelta = 0
      /\ SetUnmodified(b.count).mValue = b.count.mValue
  BY <1>1 DEF SetUnmodified, CountFields
<1>4. Clean(b) = [b EXCEPT !.name = SetUnmodified(b.name), !.count = SetUnmodified(b.count)]
  BY DEF Clean, Objects
<1>5. /\ Clean(b) \in Objects /\ Clean(b).id = b.id
      /\ Clean(b).name = SetUnmodified(b.name) /\ Clean(b).count = SetUnmodified(b.count)
  BY <1>2, <1>3, <1>4 DEF Objects
<1> QED
  BY <1>1, <1>2, <1>3, <1>5 DEF isModified

(* a scalar field that is set, and what is then to be saved of it *)
LEMMA ScalarSetLemma ==
    ASSUME NEW f \in NameFields, NEW v \in Values
    PROVE  /\ ScalarSet(f, v, FALSE) \in NameFields
           /\ ScalarSet(f, v, FALSE).mRealValue = f.mRealValue \/ isModified(ScalarSet(f, v, FALSE))
           /\ isModified(f) => isModified(ScalarSet(f, v, FALSE))
<1> DEFINE temp == [f EXCEPT !.mTempInitd = TRUE, !.mTempValue = v]
           new == [temp EXCEPT !.mRealInitd = TRUE, !.mRealValue = v, !.mDelta = @ + 1]
<1>1. /\ temp \in NameFields /\ temp.mRealValue = f.mRealValue /\ temp.mDelta = f.mDelta
      /\ f.mDelta \in Nat
  BY DEF NameFields, Names
<1> HIDE DEF temp
<1>2. new \in NameFields /\ new.mDelta = f.mDelta + 1
  <2> DEFINE d == temp.mDelta + 1
  <2>1. d \in Nat /\ d = f.mDelta + 1 /\ v \in Names
    BY <1>1 DEF Names
  <2>2. new = [temp EXCEPT !.mRealInitd = TRUE, !.mRealValue = v, !.mDelta = d]
    BY <1>1 DEF NameFields
  <2> HIDE DEF d, new
  <2> QED
    BY <1>1, <2>1, <2>2 DEF NameFields
<1> HIDE DEF new
<1>3. ScalarSet(f, v, FALSE) \in {temp, new}
  BY DEF ScalarSet, temp, new
<1>4. temp.mDelta > 0 <=> f.mDelta > 0
  BY <1>1
<1>5. new.mDelta > 0
  BY <1>1, <1>2
<1> QED
  BY <1>1, <1>2, <1>3, <1>4, <1>5 DEF isModified

(* a counter and the change of it that is to be saved *)
LEMMA DeltaValueLemma ==
    ASSUME NEW f \in CountFields, NEW d \in Nat
    PROVE  /\ DeltaValue(f, d) \in CountFields
           /\ DeltaValue(f, d).mDelta = f.mDelta + d /\ DeltaValue(f, d).mValue = f.mValue + d
<1>1. CASE d = 0
  BY <1>1 DEF DeltaValue, CountFields
<1>2. CASE d # 0
  <2>1. f.mDelta \in Nat /\ f.mValue \in Int
    BY DEF CountFields
  <2>2. DeltaValue(f, d) = [f EXCEPT !.mValue = @ + d, !.mDelta = @ + d]
    BY <1>2 DEF DeltaValue
  <2>3. DeltaValue(f, d) = [type |-> f.type, mDelta |-> f.mDelta + d, mValue |-> f.mValue + d]
    BY <2>2 DEF CountFields
  <2> QED
    BY <2>1, <2>3 DEF CountFields
<1> QED
  BY <1>1, <1>2

(* a save of one object leaves its row as the object is, and the other rows as they were *)
LEMMA StoredLemma ==
    ASSUME NEW table, IsTable(table), NEW id \in Ids, NEW created \in BOOLEAN,
           NEW fs \in [name : NameFields, count : CountFields],
           Stores(table, id, created, Modified(fs)),
           created => fs.count.mDelta = fs.count.mValue,
           ~created => /\ id \in DOMAIN table
                       /\ table[id].count + fs.count.mDelta = fs.count.mValue
                       /\ table[id].name = fs.name.mRealValue \/ isModified(fs.name)
    PROVE  LET after == Stored(table, id, created, fs, Modified(fs))
           IN  /\ IsTable(after) /\ DOMAIN after = DOMAIN table \cup {id}
               /\ after[id] = [name |-> fs.name.mRealValue, count |-> fs.count.mValue]
               /\ \A i \in DOMAIN table : i # id => after[i] = table[i]
<1> DEFINE after == Stored(table, id, created, fs, Modified(fs))
           row == [name |-> fs.name.mRealValue, count |-> fs.count.mValue]
<1>1. /\ fs.name \in NameFields /\ fs.count \in CountFields
      /\ fs.name.type = "Scalar" /\ fs.count.type = "Counter"
      /\ fs.name.mDelta \in Nat /\ fs.count.mDelta \in Nat /\ fs.count.mValue \in Int
      /\ fs.name.mRealValue \in Names
  BY DEF NameFields, CountFields
<1>2. row \in Rows
  BY <1>1 DEF Rows
<1>3. GetDBValue(fs.name) = fs.name.mRealValue /\ GetDBValue(fs.count) = fs.count.mDelta
  BY <1>1 DEF GetDBValue, ScalarGetDBValue, CounterGetDBValue
<1>4. CASE created
  <2>1. "name" \in Modified(fs) /\ after = Insert(table, id, fs, Modified(fs))
    BY <1>4 DEF Stores, Stored
  <2>2. fs.count.mDelta = fs.count.mValue
    BY <1>4
  <2>3. ~("count" \in Modified(fs)) => fs.count.mValue = 0
    BY <1>1, <2>2, ModifiedLemma DEF isModified
  <2>4. after = [i \in DOMAIN table \cup {id} |-> IF i = id THEN row ELSE table[i]]
    BY <1>3, <2>1, <2>2, <2>3 DEF Insert, With, Inserted
  <2> QED
    BY <1>2, <2>4 DEF IsTable
<1>5. CASE ~created
  <2>1. /\ id \in DOMAIN table /\ table[id] \in Rows
        /\ table[id].count + fs.count.mDelta = fs.count.mValue
        /\ table[id].name = fs.name.mRealValue \/ "name" \in Modified(fs)
    BY <1>5, ModifiedLemma DEF IsTable
  <2>2. ~("count" \in Modified(fs)) => fs.count.mDelta = 0
    BY <1>1, ModifiedLemma DEF isModified
  <2>3. table[id].count \in Int
    BY <2>1 DEF Rows
  <2>4. CASE Modified(fs) = {}
    <3>1. after = table
      BY <1>5, <2>4 DEF Stored
    <3>2. table[id].name = fs.name.mRealValue /\ table[id].count = fs.count.mValue
      BY <2>1, <2>2, <2>3, <2>4
    <3>3. table[id] = row
      BY <2>1, <3>2 DEF Rows
    <3> QED
      BY <2>1, <3>1, <3>3
  <2>5. CASE Modified(fs) # {}
    <3>1. after = Update(table, id, fs, Modified(fs))
      BY <1>5, <2>5 DEF Stored
    <3>2. /\ Updated(table[id].name, fs.name) = fs.name.mRealValue
          /\ Updated(table[id].count, fs.count) = fs.count.mValue
      BY <1>1, <1>3, <2>1 DEF Updated, UseDBIncrement
    <3>3. "count" \notin Modified(fs) => table[id].count = fs.count.mValue
      BY <2>1, <2>2, <2>3
    <3>4. after = [table EXCEPT ![id] = row]
      BY <2>1, <3>1, <3>2, <3>3 DEF Update
    <3> QED
      BY <1>2, <2>1, <3>4 DEF IsTable
  <2> QED
    BY <2>4, <2>5
<1> QED
  BY <1>4, <1>5

-----------------------------------------------------------------------------
(* A step of t leaves the other threads where they are. *)
OnlyThread(t) ==
    /\ pc' \in [Threads -> Steps] /\ DOMAIN loc' = Threads
    /\ loc' = [s \in Threads |-> loc'[s]]
    /\ \A s \in Threads : s # t => pc'[s] = pc[s] /\ loc'[s] = loc[s]

(* a thread goes on to another place *)
LEMMA GotoLemma ==
    ASSUME DatabaseTypeOK, NEW t \in Threads, NEW label \in Steps, NEW locals,
           Goto(t, label, locals)
    PROVE  OnlyThread(t) /\ pc'[t] = label /\ loc'[t] = locals
BY DEF DatabaseTypeOK, Goto, OnlyThread

(* a thread is done with its call *)
LEMMA ReturnLemma ==
    ASSUME DatabaseTypeOK, NEW t \in Threads, Return(t)
    PROVE  OnlyThread(t) /\ pc'[t] = "idle"
BY DEF DatabaseTypeOK, Return, OnlyThread, Steps

(* what a step of a thread leaves to the others *)
LEMMA OthersLocals ==
    ASSUME DatabaseTypeOK, NEW t \in Threads, OnlyThread(t), LocalsOK(t)'
    PROVE  \A s \in Threads : LocalsOK(s)'
<1>1. ASSUME NEW s \in Threads, s # t PROVE LocalsOK(s)'
  <2>1. LocalsOK(s) /\ pc'[s] = pc[s] /\ loc'[s] = loc[s]
    BY <1>1 DEF DatabaseTypeOK, OnlyThread
  <2> QED
    BY <2>1 DEF LocalsOK, IsTable
<1> QED
  BY <1>1

(* nobody saves while t may have the mutex *)
LEMMA MutexFacts ==
    ASSUME DatabaseOK, DatabaseInv, NEW t \in Threads, MutexFree(t),
           pc[t] \notin {"save", "query", "all"}
    PROVE  /\ holder = None /\ ~inTx /\ ~mAtomicOp /\ rows = disk
           /\ \A s \in Threads : pc[s] \notin {"save", "query", "all"}
           /\ \A o : ~Queried(o)
<1>1. holder \in {None, t} /\ holder # t
  BY DEF MutexFree, DatabaseInv, Locked
<1>2. \A s \in Threads : pc[s] \notin {"save", "query", "all"}
  BY <1>1 DEF DatabaseOK, DatabaseInv, Locked
<1> QED
  BY <1>1, <1>2 DEF DatabaseInv, Locked, InTransaction, Queried

(* outside of SaveObjects() the table is what is on disk *)
LEMMA SqlFacts ==
    ASSUME DatabaseInv, NEW t \in Threads, SqlFree(t), pc[t] # "all"
    PROVE  /\ ~inTx /\ ~mAtomicOp /\ rows = disk
           /\ \A s \in Threads : pc[s] # "all"
BY DEF SqlFree, DatabaseInv, Locked, InTransaction

(* steps of a thread on its way: neither the tables nor the objects change *)
LEMMA NothingStored ==
    ASSUME DatabaseInv, UNCHANGED <<dbVars, memVars, mAtomicOp>>, NEW t \in Threads, OnlyThread(t),
           pc[t] # "all", pc'[t] # "all",
           \A o : Queried(o)' <=> Queried(o),
           pc'[t] = "load" => /\ pc[t] = "load"
                              /\ \A i \in DOMAIN loc'[t].rows :
                                    /\ i \in DOMAIN loc[t].rows
                                    /\ loc'[t].rows[i] = loc[t].rows[i]
    PROVE  Indexed' /\ Queued' /\ OnDisk' /\ InTransaction' /\ Loading'
<1>1. Indexed'
  BY DEF DatabaseInv, memVars, Indexed, Live, IsCreated, InTable
<1>2. Queued'
  BY DEF DatabaseInv, memVars, Queued, Live, Fields
<1>3. OnDisk'
  BY DEF DatabaseInv, memVars, dbVars, OnDisk, Differs, Live, IsCreated, Final
<1>4. InTransaction'
  <2>1. \A s \in Threads : pc'[s] = "all" => pc[s] = "all" /\ loc'[s] = loc[s]
    BY DEF OnlyThread
  <2> QED
    BY <2>1 DEF DatabaseInv, memVars, dbVars, InTransaction, Final
<1>5. Loading'
  <2>1. ASSUME NEW s \in Threads, pc'[s] = "load"
        PROVE  /\ pc[s] = "load"
               /\ \A i \in DOMAIN loc'[s].rows : /\ i \in DOMAIN loc[s].rows
                                              /\ loc'[s].rows[i] = loc[s].rows[i]
    BY <2>1 DEF OnlyThread
  <2> QED
    BY <2>1 DEF DatabaseInv, memVars, dbVars, Loading, Live
<1> QED
  BY <1>1, <1>2, <1>3, <1>4, <1>5

-----------------------------------------------------------------------------
(* The steps of a save that do not change what is stored. *)
LEMMA SaveGatherStep ==
    ASSUME DatabaseOK, DatabaseInv, NEW t \in Threads, SaveGather(t)
    PROVE  DatabaseInv'
<1>1. PICK o \in Live \ Others(t) :
        Goto(t, "gather", [o |-> o, fields |-> Modified(Fields(o))])
  BY DEF SaveGather
<1> DEFINE l == [o |-> o, fields |-> Modified(Fields(o))]
<1>2. /\ pc[t] = "idle" /\ UNCHANGED <<dbVars, memVars, holder, mAtomicOp>>
      /\ DatabaseTypeOK /\ o \in Objs
  BY DEF SaveGather, DatabaseInv, Live
<1>3. OnlyThread(t) /\ pc'[t] = "gather" /\ loc'[t] = l
  BY <1>1, <1>2, GotoLemma DEF Steps
<1>4. l \in [o : Objs, fields : SUBSET FieldNames] /\ l.o = o
      /\ l.fields = Modified(Fields(o))
  BY <1>2, ModifiedLemma
<1> HIDE DEF l
<1>5. \A x : Queried(x)' <=> Queried(x)
  BY <1>2, <1>3 DEF Queried, OnlyThread
<1>6. Indexed' /\ Queued' /\ OnDisk' /\ InTransaction' /\ Loading'
  BY <1>2, <1>3, <1>5, NothingStored
<1>7. DatabaseTypeOK'
  <2>1. LocalsOK(t)'
    BY <1>3, <1>4 DEF LocalsOK
  <2> QED
    BY <1>2, <1>3, <2>1, OthersLocals DEF DatabaseTypeOK, dbVars, memVars, OnlyThread, IsTable
<1>8. ~mAtomicOp /\ \A s \in Threads : pc[s] # "all"
  <2>1. \A s \in Threads : pc[s] # "all"
    BY <1>2 DEF SaveGather, Saving, DatabaseOK
  <2> QED
    BY <2>1 DEF DatabaseInv, Locked
<1>9. Locked'
  BY <1>2, <1>3, <1>8 DEF DatabaseInv, Locked, OnlyThread, dbVars
<1>10. UsedByOne'
  <2>1. \A s \in Threads : s # t /\ pc[s] \in Working => loc[s].o # o
    BY DEF Others, Working
  <2> QED
    BY <1>2, <1>3, <1>4, <2>1 DEF DatabaseInv, UsedByOne, OnlyThread, memVars, Live, Working
<1>11. Gathered'
  BY <1>2, <1>3, <1>4 DEF DatabaseInv, Gathered, OnlyThread, memVars, IsCreated, Fields
<1> QED
  BY <1>6, <1>7, <1>9, <1>10, <1>11 DEF DatabaseInv

(* saveObjects() takes the lock of the database and its transaction *)
LEMMA SaveLockStep ==
    ASSUME DatabaseOK, DatabaseInv, NEW t \in Threads, SaveLock(t)
    PROVE  DatabaseInv'
<1>1. /\ pc[t] = "gather" /\ UNCHANGED <<dbVars, memVars, mAtomicOp>> /\ DatabaseTypeOK
      /\ ~mAtomicOp /\ MutexFree(t) /\ holder' = t
  BY DEF SaveLock, DatabaseInv, Locked, Working
<1> DEFINE o == loc[t].o
           l == [o |-> o, fields |-> loc[t].fields, fs |-> Fields(o), created |-> IsCreated(o)]
<1>2. Goto(t, "save", l)
  BY DEF SaveLock, IsCreated
<1>3. OnlyThread(t) /\ pc'[t] = "save" /\ loc'[t] = l
  BY <1>1, <1>2, GotoLemma DEF Steps
<1>4. o \in Live /\ o \in Objs /\ loc[t].fields \in SUBSET FieldNames
  BY <1>1 DEF DatabaseInv, UsedByOne, Working, Live, DatabaseTypeOK, LocalsOK
<1>5. Fields(o) \in [name : NameFields, count : CountFields]
  <2>1. obj[o] \in Objects
    BY <1>1, <1>4 DEF DatabaseTypeOK, Live
  <2> QED
    BY <2>1 DEF Fields, Objects
<1>6. /\ l \in [o : Objs, fields : SUBSET FieldNames, created : BOOLEAN,
                fs : [name : NameFields, count : CountFields]]
      /\ l.o = o /\ l.fields = loc[t].fields /\ l.fs = Fields(o) /\ l.created = IsCreated(o)
  BY <1>4, <1>5 DEF IsCreated, Contains
<1>7. o = loc[t].o
  OBVIOUS
<1> HIDE DEF l, o
<1>8. \A x : Queried(x)' <=> Queried(x)
  BY <1>1, <1>3 DEF Queried, OnlyThread
<1>9. Indexed' /\ Queued' /\ OnDisk' /\ InTransaction' /\ Loading'
  BY <1>1, <1>3, <1>8, NothingStored
<1>10. DatabaseTypeOK'
  <2>1. LocalsOK(t)'
    BY <1>3, <1>6 DEF LocalsOK
  <2> QED
    BY <1>1, <1>3, <2>1, OthersLocals DEF DatabaseTypeOK, dbVars, memVars, OnlyThread, IsTable
<1>11. Locked'
  <2>1. \A s \in Threads : pc[s] \notin {"save", "query", "all"}
    BY <1>1, MutexFacts
  <2> QED
    BY <1>1, <1>3, <2>1 DEF DatabaseOK, DatabaseInv, Locked, OnlyThread, dbVars
<1>12. UsedByOne'
  BY <1>1, <1>3, <1>4, <1>6, <1>7
     DEF DatabaseInv, UsedByOne, OnlyThread, memVars, Live, Working
<1>13. Gathered'
  BY <1>1, <1>3, <1>6, <1>7 DEF DatabaseInv, Gathered, OnlyThread, memVars, IsCreated, Fields
<1> QED
  BY <1>9, <1>10, <1>11, <1>12, <1>13 DEF DatabaseInv

(* a query of saveObjects() fails *)
LEMMA SaveFailsStep ==
    ASSUME DatabaseOK, DatabaseInv, NEW t \in Threads, SaveFails(t)
    PROVE  DatabaseInv'
<1>1. /\ pc[t] = "save" /\ UNCHANGED <<dbVars, memVars, mAtomicOp>> /\ DatabaseTypeOK
      /\ holder = t /\ holder' = None /\ OnlyThread(t) /\ pc'[t] = "idle"
  BY ReturnLemma DEF SaveFails, Release, DatabaseInv, Locked
<1>2. \A x : Queried(x)' <=> Queried(x)
  BY <1>1 DEF Queried, OnlyThread
<1>3. Indexed' /\ Queued' /\ OnDisk' /\ InTransaction' /\ Loading'
  BY <1>1, <1>2, NothingStored
<1>4. DatabaseTypeOK'
  <2>1. LocalsOK(t)'
    BY <1>1 DEF LocalsOK
  <2> QED
    BY <1>1, <2>1, OthersLocals DEF DatabaseTypeOK, dbVars, memVars, OnlyThread, IsTable
<1>5. Locked'
  BY <1>1 DEF DatabaseOK, DatabaseInv, Locked, OnlyThread, dbVars
<1>6. UsedByOne'
  BY <1>1 DEF DatabaseInv, UsedByOne, OnlyThread, memVars, Live, Working
<1>7. Gathered'
  BY <1>1 DEF DatabaseInv, Gathered, OnlyThread, memVars, IsCreated, Fields
<1> QED
  BY <1>3, <1>4, <1>5, <1>6, <1>7 DEF DatabaseInv

(* LoadObjectsByQuery() reads what is on disk: no transaction is open. *)
LEMMA LoadQueryStep ==
    ASSUME DatabaseOK, DatabaseInv, NEW t \in Threads, LoadQuery(t)
    PROVE  DatabaseInv'
<1> DEFINE l == [rows |-> rows]
<1>1. /\ pc[t] = "idle" /\ UNCHANGED <<dbVars, memVars, holder, mAtomicOp>> /\ DatabaseTypeOK
      /\ OnlyThread(t) /\ pc'[t] = "load" /\ loc'[t] = l /\ l.rows = rows
  BY GotoLemma DEF LoadQuery, DatabaseInv, Steps
<1> HIDE DEF l
<1>2. rows = disk
  BY <1>1, SqlFacts DEF LoadQuery
<1>3. \A x : Queried(x)' <=> Queried(x)
  BY <1>1 DEF Queried, OnlyThread
<1>4. Indexed'
  BY <1>1 DEF DatabaseInv, memVars, Indexed, Live, IsCreated, InTable
<1>5. Queued'
  BY <1>1 DEF DatabaseInv, memVars, Queued, Live, Fields
<1>6. OnDisk'
  BY <1>1, <1>3 DEF DatabaseInv, memVars, dbVars, OnDisk, Differs, Live, IsCreated, Final
<1>7. InTransaction'
  <2>1. \A s \in Threads : pc'[s] = "all" => pc[s] = "all" /\ loc'[s] = loc[s]
    BY <1>1 DEF OnlyThread
  <2> QED
    BY <1>1, <2>1 DEF DatabaseInv, memVars, dbVars, InTransaction, Final
<1>8. Loading'
  <2>1. ASSUME NEW s \in Threads, pc'[s] = "load", NEW i \in DOMAIN loc'[s].rows
        PROVE  /\ i \in DOMAIN disk
               /\ \/ i \in DOMAIN mObjects
                  \/ \E o \in Live : obj[o].id = i /\ Queried(o)
                  \/ disk[i] = loc'[s].rows[i] /\ \A o \in Live : obj[o].id # i
    <3>1. CASE s # t
      BY <1>1, <2>1, <3>1 DEF OnlyThread, DatabaseInv, Loading
    <3>2. CASE s = t
      <4>1. i \in DOMAIN disk /\ disk[i] = loc'[s].rows[i]
        BY <1>1, <1>2, <2>1, <3>2
      <4>2. CASE \E o \in Live : obj[o].id = i
        <5>1. PICK o \in Live : obj[o].id = i
          BY <4>2
        <5>2. IsCreated(o) => Queried(o)
          BY <4>1, <5>1 DEF DatabaseInv, OnDisk, Differs
        <5>3. ~IsCreated(o) => i \in DOMAIN mObjects
          BY <5>1 DEF DatabaseInv, Indexed, InTable
        <5> QED
          BY <4>1, <5>1, <5>2, <5>3
      <4> QED
        BY <4>1, <4>2
    <3> QED
      BY <3>1, <3>2
  <2>2. Live' = Live /\ \A x : obj'[x] = obj[x]
    BY <1>1 DEF memVars, Live
  <2> QED
    BY <1>1, <1>3, <2>1, <2>2 DEF Loading, dbVars, memVars
<1>9. DatabaseTypeOK'
  <2>1. LocalsOK(t)'
    BY <1>1 DEF LocalsOK, DatabaseTypeOK, IsTable
  <2> QED
    BY <1>1, <2>1, OthersLocals DEF DatabaseTypeOK, dbVars, memVars, OnlyThread, IsTable
<1>10. Locked'
  BY <1>1 DEF DatabaseInv, Locked, OnlyThread, dbVars, Working
<1>11. UsedByOne'
  BY <1>1 DEF DatabaseInv, UsedByOne, OnlyThread, memVars, Live, Working
<1>12. Gathered'
  BY <1>1 DEF DatabaseInv, Gathered, OnlyThread, memVars, IsCreated, Fields
<1> QED
  BY <1>4, <1>5, <1>6, <1>7, <1>8, <1>9, <1>10, <1>11, <1>12 DEF DatabaseInv

-----------------------------------------------------------------------------
(* The steps of a save that change what is stored. *)
LEMMA SaveQueryStep ==
    ASSUME DatabaseOK, DatabaseInv, NEW t \in Threads, SaveQuery(t)
    PROVE  DatabaseInv'
<1> DEFINE l == loc[t]
           o == l.o
           id == obj[o].id
<1>1. /\ pc[t] = "save" /\ DatabaseTypeOK /\ holder = t
      /\ UNCHANGED <<inTx, memVars, holder, mAtomicOp>>
      /\ ~inTx /\ ~mAtomicOp /\ rows = disk /\ disk' = rows'
      /\ \A s \in Threads : pc[s] # "all"
  BY SqlFacts DEF SaveQuery, DatabaseInv, Locked
<1>2. OnlyThread(t) /\ pc'[t] = "query" /\ loc'[t] = l
  BY <1>1, GotoLemma DEF SaveQuery, Steps
<1>3. /\ o \in Live /\ o \in Objs /\ l.fields = Modified(Fields(o)) /\ l.fs = Fields(o)
      /\ l.created = IsCreated(o) /\ l.created \in BOOLEAN
      /\ l.fs \in [name : NameFields, count : CountFields]
  BY <1>1 DEF DatabaseInv, UsedByOne, Gathered, Working, Live, DatabaseTypeOK, LocalsOK
<1>4. id \in Ids /\ Fields(o).name = obj[o].name /\ Fields(o).count = obj[o].count
  <2>1. obj[o] \in Objects
    BY <1>1, <1>3 DEF DatabaseTypeOK, Live
  <2> QED
    BY <2>1 DEF Fields, Objects
<1>5. ~Queried(o)
  BY <1>1 DEF Queried, DatabaseInv, UsedByOne, Working
<1>6. Stores(rows, id, l.created, l.fields) /\ rows' = Stored(rows, id, l.created, l.fs, l.fields)
  BY <1>1 DEF SaveQuery
<1>7. /\ IsCreated(o) => /\ id \notin DOMAIN disk
                         /\ obj[o].count.mDelta = obj[o].count.mValue
      /\ ~IsCreated(o) => /\ id \in DOMAIN disk
                          /\ disk[id].count + obj[o].count.mDelta = obj[o].count.mValue
                          /\ disk[id].name = obj[o].name.mRealValue \/ isModified(obj[o].name)
  BY <1>3, <1>5 DEF DatabaseInv, OnDisk, Differs
<1>8. /\ IsTable(rows') /\ DOMAIN rows' = DOMAIN rows \cup {id}
      /\ rows'[id] = Final(o)
      /\ \A i \in DOMAIN rows : i # id => rows'[i] = rows[i]
  <2>1. IsTable(rows)
    BY <1>1 DEF DatabaseTypeOK
  <2> HIDE DEF l, o, id
  <2>2. /\ l.fields = Modified(l.fs)
        /\ l.created => l.fs.count.mDelta = l.fs.count.mValue
        /\ ~l.created => /\ id \in DOMAIN rows
                         /\ rows[id].count + l.fs.count.mDelta = l.fs.count.mValue
                         /\ rows[id].name = l.fs.name.mRealValue \/ isModified(l.fs.name)
    BY <1>1, <1>3, <1>4, <1>7
  <2>3. Stores(rows, id, l.created, Modified(l.fs))
    BY <1>6, <2>2
  <2>4. LET after == Stored(rows, id, l.created, l.fs, Modified(l.fs))
        IN  /\ IsTable(after) /\ DOMAIN after = DOMAIN rows \cup {id}
            /\ after[id] = [name |-> l.fs.name.mRealValue, count |-> l.fs.count.mValue]
            /\ \A i \in DOMAIN rows : i # id => after[i] = rows[i]
    BY <1>3, <1>4, <2>1, <2>2, <2>3, StoredLemma, SMTT(30)
  <2> QED
    BY <1>3, <1>4, <1>6, <2>2, <2>4 DEF Final
<1>9. o = loc[t].o /\ id = obj[o].id
  OBVIOUS
<1> HIDE DEF l, o, id
<1>10. \A x : Queried(x)' <=> Queried(x) \/ x = o
  BY <1>1, <1>2, <1>9 DEF Queried, OnlyThread, l
<1>11. Live' = Live /\ \A x : /\ obj'[x] = obj[x] /\ IsCreated(x)' = IsCreated(x)
                              /\ Final(x)' = Final(x)
  BY <1>1 DEF memVars, Live, IsCreated, Final
<1>12. DatabaseTypeOK'
  <2>1. LocalsOK(t)'
    BY <1>1, <1>2 DEF LocalsOK, DatabaseTypeOK, l
  <2> QED
    BY <1>1, <1>2, <1>8, <2>1, OthersLocals DEF DatabaseTypeOK, memVars, OnlyThread
<1>13. Locked'
  BY <1>1, <1>2 DEF DatabaseInv, Locked, OnlyThread
<1>14. UsedByOne'
  BY <1>1, <1>2, <1>3, <1>9, <1>11 DEF DatabaseInv, UsedByOne, OnlyThread, Working, l
<1>15. Indexed'
  BY <1>1 DEF DatabaseInv, memVars, Indexed, Live, IsCreated, InTable
<1>16. Gathered'
  BY <1>1, <1>2 DEF DatabaseInv, Gathered, OnlyThread, memVars, IsCreated, Fields
<1>17. Queued'
  BY <1>1 DEF DatabaseInv, memVars, Queued, Live, Fields
<1>18. OnDisk'
  <2>1. ASSUME NEW x \in Live PROVE Differs(x)'
    <3>1. CASE x = o
      BY <1>1, <1>8, <1>9, <1>10, <1>11, <3>1 DEF Differs
    <3>2. CASE x # o
      <4>1. obj[x].id # id
        BY <1>3, <1>9, <3>2 DEF DatabaseInv, Indexed
      <4>2. Differs(x) /\ (Queried(x)' <=> Queried(x))
        BY <1>10, <3>2 DEF DatabaseInv, OnDisk
      <4> QED
        BY <1>1, <1>8, <1>11, <4>1, <4>2 DEF Differs
    <3> QED
      BY <3>1, <3>2
  <2> QED
    BY <1>11, <2>1 DEF DatabaseInv, OnDisk
<1>19. InTransaction'
  <2>1. \A s \in Threads : pc'[s] # "all"
    BY <1>1, <1>2 DEF OnlyThread
  <2> QED
    BY <1>1, <2>1 DEF InTransaction
<1>20. Loading'
  <2>1. ASSUME NEW s \in Threads, pc'[s] = "load", NEW i \in DOMAIN loc'[s].rows
        PROVE  /\ i \in DOMAIN disk'
               /\ \/ i \in DOMAIN mObjects
                  \/ \E x \in Live : obj[x].id = i /\ Queried(x)'
                  \/ disk'[i] = loc'[s].rows[i] /\ \A x \in Live : obj[x].id # i
    <3>1. s # t /\ pc[s] = "load" /\ loc'[s] = loc[s]
      BY <1>2, <2>1 DEF OnlyThread
    <3>2. /\ i \in DOMAIN disk
          /\ \/ i \in DOMAIN mObjects
             \/ \E x \in Live : obj[x].id = i /\ Queried(x)
             \/ disk[i] = loc[s].rows[i] /\ \A x \in Live : obj[x].id # i
      BY <2>1, <3>1 DEF DatabaseInv, Loading
    <3> QED
      BY <1>1, <1>3, <1>8, <1>9, <1>10, <3>1, <3>2
  <2> QED
    BY <1>1, <1>11, <2>1 DEF Loading, memVars
<1> QED
  BY <1>12, <1>13, <1>14, <1>15, <1>16, <1>17, <1>18, <1>19, <1>20 DEF DatabaseInv

(* Register() is called with what the query stored *)
LEMMA SaveRegisterStep ==
    ASSUME DatabaseOK, DatabaseInv, NEW t \in Threads, SaveRegister(t)
    PROVE  DatabaseInv'
<1> DEFINE o == loc[t].o
<1>1. /\ pc[t] = "query" /\ DatabaseTypeOK /\ holder = t /\ ~mAtomicOp /\ ~inTx
      /\ UNCHANGED <<dbVars, mAtomicOp>> /\ holder' = None
      /\ OnlyThread(t) /\ pc'[t] = "idle" /\ Register(o)
      /\ \A s \in Threads : pc[s] # "all"
  BY ReturnLemma DEF SaveRegister, Release, DatabaseInv, Locked, Working
<1>2. o \in Live /\ o \in Objs /\ Queried(o)
  BY <1>1 DEF DatabaseInv, UsedByOne, Working, Live, Queried
<1>3. o = loc[t].o
  OBVIOUS
<1> HIDE DEF o
<1>4. \A s \in Threads : s # t => pc[s] \notin {"save", "query"}
  BY <1>1 DEF DatabaseInv, Locked
<1>5. /\ obj' \in [Objs -> Objects \cup {None}] /\ obj[o] \in Objects /\ obj'[o] = Clean(obj[o])
      /\ \A x \in Objs : x # o => obj'[x] = obj[x]
  <2>1. obj[o] \in Objects
    BY <1>1, <1>2 DEF DatabaseTypeOK, Live
  <2>2. Clean(obj[o]) \in Objects
    BY <2>1, CleanLemma
  <2> QED
    BY <1>1, <1>2, <2>1, <2>2 DEF Register, DatabaseTypeOK
<1>6. /\ Clean(obj[o]) \in Objects /\ obj'[o].id = obj[o].id
      /\ ~isModified(obj'[o].name) /\ ~isModified(obj'[o].count) /\ obj'[o].count.mDelta = 0
      /\ obj'[o].name.mRealValue = obj[o].name.mRealValue
      /\ obj'[o].count.mValue = obj[o].count.mValue
  BY <1>5, CleanLemma
<1>7. Live' = Live
  BY <1>2, <1>5, <1>6 DEF Live, DatabaseOK
<1>8. /\ mCreated' \in Seq(Objs) /\ IsInjective(mCreated')
      /\ \A x : Contains(mCreated', x) <=> Contains(mCreated, x) /\ x # o
      /\ mModified' \in Seq(Objs) /\ IsInjective(mModified')
      /\ \A x : Contains(mModified', x) <=> Contains(mModified, x) /\ x # o
  BY <1>1, WithoutLemma DEF Register, DatabaseTypeOK, DatabaseInv, Indexed
<1>9. \A x : Queried(x)' <=> Queried(x) /\ x # o
  <2>1. \A x : ~Queried(x)'
    BY <1>1, <1>4 DEF Queried, OnlyThread
  <2>2. \A x : Queried(x) => x = o
    BY <1>3, <1>4 DEF Queried
  <2> QED
    BY <2>1, <2>2
<1>10. /\ \A x : IsCreated(x)' <=> IsCreated(x) /\ x # o
       /\ \A x \in Objs : obj'[x].id = obj[x].id
  BY <1>5, <1>6, <1>8 DEF IsCreated
<1>11. /\ DOMAIN mObjects' = DOMAIN mObjects \cup (IF IsCreated(o) THEN {obj[o].id} ELSE {})
       /\ mObjects' = [i \in DOMAIN mObjects' |-> mObjects'[i]]
       /\ \A i \in DOMAIN mObjects : mObjects'[i] = mObjects[i]
       /\ mObjects'[obj[o].id] = o /\ obj[o].id \in DOMAIN mObjects'
       /\ DOMAIN mObjects' \subseteq Ids
  <2>1. CASE IsCreated(o)
    <3>1. mObjects' = With(mObjects, obj[o].id, o)
      BY <1>1, <2>1 DEF Register, IsCreated
    <3>2. obj[o].id \notin DOMAIN mObjects
      <4> SUFFICES ASSUME obj[o].id \in DOMAIN mObjects PROVE FALSE
        OBVIOUS
      <4>1. mObjects[obj[o].id] \in Live /\ obj[mObjects[obj[o].id]].id = obj[o].id
        BY DEF DatabaseInv, Indexed
      <4>2. mObjects[obj[o].id] = o
        BY <1>2, <4>1 DEF DatabaseInv, Indexed
      <4> QED
        BY <1>2, <2>1, <4>2 DEF DatabaseInv, Indexed, InTable
    <3>3. obj[o].id \in Ids /\ DOMAIN mObjects \subseteq Ids
      BY <1>1, <1>5 DEF Objects, DatabaseTypeOK
    <3> QED
      BY <2>1, <3>1, <3>2, <3>3 DEF With
  <2>2. CASE ~IsCreated(o)
    <3>1. mObjects' = mObjects
      BY <1>1, <2>2 DEF Register, IsCreated
    <3>2. obj[o].id \in DOMAIN mObjects /\ mObjects[obj[o].id] = o
      BY <1>2, <2>2 DEF DatabaseInv, Indexed, InTable
    <3> QED
      BY <1>1, <2>2, <3>1, <3>2 DEF DatabaseTypeOK
  <2> QED
    BY <2>1, <2>2
<1>12. DatabaseTypeOK'
  <2>1. LocalsOK(t)'
    BY <1>1 DEF LocalsOK
  <2> QED
    BY <1>1, <1>5, <1>8, <1>11, <2>1, OthersLocals DEF DatabaseTypeOK, dbVars, OnlyThread, IsTable
<1>13. Locked'
  BY <1>1 DEF DatabaseOK, DatabaseInv, Locked, OnlyThread, dbVars
<1>14. UsedByOne'
  BY <1>1, <1>7 DEF DatabaseInv, UsedByOne, OnlyThread, Working
<1>15. Indexed'
  <2>1. ASSUME NEW x \in Live PROVE IsCreated(x)' <=> ~InTable(x)'
    <3>1. IsCreated(x) <=> ~InTable(x)
      BY DEF DatabaseInv, Indexed
    <3>2. x # o => obj[x].id # obj[o].id
      BY <1>2 DEF DatabaseInv, Indexed
    <3>3. x \in Objs
      BY DEF Live
    <3> QED
      BY <1>10, <1>11, <3>1, <3>2, <3>3 DEF InTable
  <2>2. \A x, y \in Live : obj'[x].id = obj'[y].id => x = y
    BY <1>10 DEF DatabaseInv, Indexed, Live
  <2>3. \A i \in DOMAIN mObjects' : mObjects'[i] \in Live /\ obj'[mObjects'[i]].id = i
    BY <1>2, <1>10, <1>11 DEF DatabaseInv, Indexed, Live
  <2>4. \A x \in Objs : Contains(mCreated', x) \/ Contains(mModified', x) => x \in Live
    BY <1>8 DEF DatabaseInv, Indexed
  <2> QED
    BY <1>7, <1>8, <2>1, <2>2, <2>3, <2>4 DEF Indexed
<1>16. \A x \in Objs : x # o => Fields(x)' = Fields(x) /\ Final(x)' = Final(x)
  BY <1>5 DEF Fields, Final
<1>17. Gathered'
  <2>1. ASSUME NEW s \in Threads, pc'[s] \in {"set", "gather", "save"}
        PROVE  /\ pc[s] = pc'[s] /\ loc'[s] = loc[s] /\ loc[s].o # o /\ loc[s].o \in Objs
               /\ pc[s] # "save"
    BY <1>1, <1>3, <1>4, <2>1 DEF OnlyThread, DatabaseInv, UsedByOne, Working, Live
  <2> QED
    BY <1>8, <1>16, <2>1 DEF DatabaseInv, Gathered
<1>18. Queued'
  <2>1. ASSUME NEW x \in Live, Modified(Fields(x)') # {} PROVE Contains(mModified', x)
    <3>1. x # o
      BY <1>6, <2>1, ModifiedLemma DEF Fields
    <3> QED
      BY <1>8, <1>16, <2>1, <3>1 DEF DatabaseInv, Queued, Live
  <2> QED
    BY <1>7, <2>1 DEF Queued, Modified, isModified
<1>19. OnDisk'
  <2>1. ASSUME NEW x \in Live PROVE Differs(x)'
    <3>1. CASE x = o
      <4>1. obj[o].id \in DOMAIN disk /\ disk[obj[o].id] = Final(o)
        BY <1>2 DEF DatabaseInv, OnDisk, Differs
      <4>2. obj[o].count.mValue \in Int
        BY <1>5 DEF Objects, CountFields
      <4>3. disk[obj[o].id].count + 0 = obj[o].count.mValue
        BY <4>1, <4>2 DEF Final
      <4> QED
        BY <1>1, <1>6, <1>9, <1>10, <3>1, <4>1, <4>3 DEF Differs, Final, dbVars
    <3>2. CASE x # o
      <4>1. Differs(x) /\ x \in Objs
        BY DEF DatabaseInv, OnDisk, Live
      <4> QED
        BY <1>1, <1>5, <1>9, <1>10, <1>16, <3>2, <4>1 DEF Differs, dbVars
    <3> QED
      BY <3>1, <3>2
  <2>2. \A x \in Live : IsCreated(x)' => obj'[x].count.mDelta = obj'[x].count.mValue
    BY <1>5, <1>10 DEF DatabaseInv, OnDisk, Live
  <2> QED
    BY <1>7, <2>1, <2>2 DEF OnDisk
<1>20. InTransaction'
  <2>1. \A s \in Threads : pc'[s] # "all"
    BY <1>1 DEF OnlyThread
  <2> QED
    BY <1>1, <2>1 DEF DatabaseInv, InTransaction, dbVars
<1>21. Loading'
  <2>1. ASSUME NEW s \in Threads, pc'[s] = "load", NEW i \in DOMAIN loc'[s].rows
        PROVE  /\ i \in DOMAIN disk
               /\ \/ i \in DOMAIN mObjects'
                  \/ disk[i] = loc'[s].rows[i] /\ \A x \in Live : obj'[x].id # i
    <3>1. s # t /\ pc[s] = "load" /\ loc'[s] = loc[s]
      BY <1>1, <2>1 DEF OnlyThread
    <3>2. /\ i \in DOMAIN disk
          /\ \/ i \in DOMAIN mObjects
             \/ \E x \in Live : obj[x].id = i /\ Queried(x)
             \/ disk[i] = loc[s].rows[i] /\ \A x \in Live : obj[x].id # i
      BY <2>1, <3>1 DEF DatabaseInv, Loading
    <3>3. \A x \in Live : Queried(x) => x = o
      BY <1>3, <1>4 DEF Queried
    <3> QED
      BY <1>10, <1>11, <3>1, <3>2, <3>3 DEF Live
  <2> QED
    BY <1>1, <1>7, <2>1 DEF Loading, dbVars
<1> QED
  BY <1>12, <1>13, <1>14, <1>15, <1>17, <1>18, <1>19, <1>20, <1>21 DEF DatabaseInv

-----------------------------------------------------------------------------
(* The objects are created and changed. *)
LEMMA CreateObjectStep ==
    ASSUME DatabaseOK, DatabaseInv, NEW t \in Threads, CreateObject(t)
    PROVE  DatabaseInv'
<1>1. /\ pc[t] = "idle" /\ MutexFree(t) /\ DatabaseTypeOK
      /\ UNCHANGED <<dbVars, mObjects, holder, mAtomicOp, pc, loc>>
  BY DEF CreateObject, DatabaseInv
<1>2. PICK o \in Objs \ Live, i \in Ids \ (DOMAIN rows \cup {obj[p].id : p \in Live}) :
        /\ obj' = [obj EXCEPT ![o] = [id |-> i, name |-> Scalar, count |-> Counter]]
        /\ mModified' = Notified(o)
        /\ mCreated' = Append(mCreated, o)
  BY DEF CreateObject
<1>3. ~inTx /\ rows = disk /\ (\A s \in Threads : pc[s] \notin {"save", "query", "all"})
  BY <1>1, MutexFacts
<1> DEFINE b == [id |-> i, name |-> Scalar, count |-> Counter]
<1>4. b \in Objects /\ b.id = i /\ b.count.mDelta = 0 /\ b.count.mValue = 0
  <2>1. Scalar \in NameFields
    BY DEF Scalar, NameFields, Names
  <2>2. Counter \in CountFields /\ Counter.mDelta = 0 /\ Counter.mValue = 0
    BY DEF Counter, CountFields
  <2> QED
    BY <2>1, <2>2 DEF Objects
<1> HIDE DEF b
<1>5. /\ obj' \in [Objs -> Objects \cup {None}] /\ obj'[o] = b
      /\ \A x \in Objs : x # o => obj'[x] = obj[x]
  BY <1>1, <1>2, <1>4 DEF DatabaseTypeOK, b
<1>6. Live' = Live \cup {o} /\ o \notin Live /\ o \in Objs /\ Live \subseteq Objs
  BY <1>2, <1>4, <1>5 DEF Live, DatabaseOK
<1>7. /\ mCreated' \in Seq(Objs) /\ IsInjective(mCreated')
      /\ \A x : Contains(mCreated', x) <=> Contains(mCreated, x) \/ x = o
  BY <1>1, <1>2, <1>6, AppendContains DEF DatabaseTypeOK, DatabaseInv, Indexed
<1>8. /\ mModified' \in Seq(Objs) /\ IsInjective(mModified')
      /\ \A x : Contains(mModified', x) <=> Contains(mModified, x) \/ x = o
  BY <1>1, <1>2, NotifiedLemma DEF DatabaseTypeOK, DatabaseInv, Indexed
<1>9. \A x : ~Queried(x) /\ ~Queried(x)'
  BY <1>1, <1>3 DEF Queried
<1>10. \A x \in Live : /\ obj'[x] = obj[x] /\ x # o /\ obj[x].id # i
                       /\ Fields(x)' = Fields(x) /\ Final(x)' = Final(x)
                       /\ IsCreated(x)' <=> IsCreated(x)
                       /\ InTable(x)' <=> InTable(x)
  BY <1>1, <1>2, <1>5, <1>6, <1>7 DEF Fields, Final, IsCreated, InTable
<1>11. DatabaseTypeOK'
  BY <1>1, <1>5, <1>7, <1>8 DEF DatabaseTypeOK, dbVars, IsTable, LocalsOK
<1>12. Locked'
  BY <1>1 DEF DatabaseInv, Locked, dbVars
<1>13. UsedByOne'
  BY <1>1, <1>6 DEF DatabaseInv, UsedByOne
<1>14. Indexed'
  <2>1. ~InTable(o)' /\ IsCreated(o)'
    BY <1>1, <1>6, <1>7 DEF DatabaseInv, Indexed, InTable, IsCreated
  <2>2. \A x \in Live \cup {o} : IsCreated(x)' <=> ~InTable(x)'
    BY <1>10, <2>1 DEF DatabaseInv, Indexed
  <2>3. \A x, y \in Live \cup {o} : obj'[x].id = obj'[y].id => x = y
    BY <1>4, <1>5, <1>10 DEF DatabaseInv, Indexed
  <2>4. \A j \in DOMAIN mObjects' :
          mObjects'[j] \in Live \cup {o} /\ obj'[mObjects'[j]].id = j
    BY <1>1, <1>10 DEF DatabaseInv, Indexed
  <2>5. \A x \in Objs : Contains(mCreated', x) \/ Contains(mModified', x) => x \in Live \cup {o}
    BY <1>7, <1>8 DEF DatabaseInv, Indexed
  <2> QED
    BY <1>6, <1>7, <1>8, <2>2, <2>3, <2>4, <2>5 DEF Indexed
<1>15. Gathered'
  <2>1. \A s \in Threads : pc[s] \in Working => loc[s].o \in Live
    BY DEF DatabaseInv, UsedByOne
  <2>2. \A x \in Live : IsCreated(x)' = IsCreated(x)
    BY <1>10 DEF IsCreated, Contains
  <2> QED
    BY <1>1, <1>8, <1>10, <2>1, <2>2 DEF DatabaseInv, Gathered, Working
<1>16. Queued'
  <2>1. \A x \in Live \cup {o} : Modified(Fields(x)') # {} => Contains(mModified', x)
    BY <1>8, <1>10 DEF DatabaseInv, Queued
  <2> QED
    BY <1>6, <2>1 DEF Queued, Modified, isModified
<1>17. OnDisk'
  <2>1. ASSUME NEW x \in Live PROVE Differs(x)'
    <3>1. Differs(x)
      BY DEF DatabaseInv, OnDisk
    <3> QED
      BY <1>1, <1>9, <1>10, <3>1 DEF Differs, dbVars
  <2>2. Differs(o)' /\ obj'[o].count.mDelta = obj'[o].count.mValue
    BY <1>1, <1>2, <1>3, <1>4, <1>5, <1>7, <1>9 DEF Differs, IsCreated, dbVars
  <2> QED
    BY <1>6, <1>10, <2>1, <2>2 DEF DatabaseInv, OnDisk
<1>18. InTransaction'
  BY <1>1, <1>3 DEF InTransaction, dbVars
<1>19. Loading'
  <2>1. ASSUME NEW s \in Threads, pc[s] = "load", NEW j \in DOMAIN loc[s].rows
        PROVE  /\ j \in DOMAIN disk
               /\ \/ j \in DOMAIN mObjects
                  \/ disk[j] = loc[s].rows[j] /\ \A x \in Live : obj[x].id # j
    BY <1>9, <2>1 DEF DatabaseInv, Loading
  <2>2. obj'[o].id \notin DOMAIN disk
    BY <1>2, <1>3, <1>4, <1>5
  <2> QED
    BY <1>1, <1>6, <1>10, <2>1, <2>2 DEF Loading, dbVars
<1> QED
  BY <1>11, <1>12, <1>13, <1>14, <1>15, <1>16, <1>17, <1>18, <1>19 DEF DatabaseInv

(* a thread begins to set a field *)
LEMMA SetBeginStep ==
    ASSUME DatabaseOK, DatabaseInv, NEW t \in Threads, SetBegin(t)
    PROVE  DatabaseInv'
<1>1. /\ pc[t] = "idle" /\ MutexFree(t) /\ DatabaseTypeOK
      /\ UNCHANGED <<dbVars, obj, mObjects, mCreated, holder, mAtomicOp>>
  BY DEF SetBegin, DatabaseInv
<1>2. PICK o \in Live \ Others(t), f \in Changes :
        mModified' = Notified(o) /\ Goto(t, "set", [o |-> o, f |-> f])
  BY DEF SetBegin, Changes
<1> DEFINE l == [o |-> o, f |-> f]
<1>3. /\ OnlyThread(t) /\ pc'[t] = "set" /\ loc'[t] = l
      /\ l \in [o : Objs, f : Changes] /\ l.o = o /\ o \in Objs
  BY <1>1, <1>2, GotoLemma DEF Steps, Live
<1> HIDE DEF l
<1>4. ~inTx /\ ~mAtomicOp /\ rows = disk /\ \A s \in Threads : pc[s] # "all"
  BY <1>1, MutexFacts
<1>5. /\ mModified' \in Seq(Objs) /\ IsInjective(mModified')
      /\ \A x : Contains(mModified', x) <=> Contains(mModified, x) \/ x = o
  BY <1>1, <1>2, <1>3, NotifiedLemma DEF DatabaseTypeOK, DatabaseInv, Indexed
<1>6. \A x : Queried(x)' <=> Queried(x)
  BY <1>1, <1>3 DEF Queried, OnlyThread
<1>7. DatabaseTypeOK'
  <2>1. LocalsOK(t)'
    BY <1>3 DEF LocalsOK
  <2> QED
    BY <1>1, <1>3, <1>5, <2>1, OthersLocals DEF DatabaseTypeOK, dbVars, OnlyThread, IsTable
<1>8. Locked'
  BY <1>1, <1>3, <1>4 DEF DatabaseInv, Locked, OnlyThread, dbVars
<1>9. UsedByOne'
  <2>1. \A s \in Threads : s # t /\ pc[s] \in Working => loc[s].o # o
    BY <1>2 DEF Others, Working
  <2> QED
    BY <1>1, <1>2, <1>3, <2>1 DEF DatabaseInv, UsedByOne, OnlyThread, Live, Working
<1>10. Indexed'
  BY <1>1, <1>2, <1>5 DEF DatabaseInv, Indexed, Live, IsCreated, InTable
<1>11. Gathered'
  <2>1. ASSUME NEW s \in Threads
        PROVE  /\ pc'[s] = "set" => Contains(mModified', loc'[s].o)
               /\ pc'[s] \in {"gather", "save"} => loc'[s].fields = Modified(Fields(loc'[s].o))
               /\ pc'[s] = "save" => /\ loc'[s].fs = Fields(loc'[s].o)
                                     /\ loc'[s].created = IsCreated(loc'[s].o)
    <3>1. CASE s = t
      BY <1>3, <1>5, <3>1
    <3>2. CASE s # t
      BY <1>3, <1>5, <3>2 DEF DatabaseInv, Gathered, OnlyThread
    <3> QED
      BY <3>1, <3>2
  <2>2. \A x : Fields(x)' = Fields(x) /\ IsCreated(x)' = IsCreated(x)
    BY <1>1 DEF Fields, IsCreated
  <2> QED
    BY <2>1, <2>2 DEF Gathered
<1>12. Queued'
  BY <1>1, <1>5 DEF DatabaseInv, Queued, Live, Fields
<1>13. OnDisk'
  BY <1>1, <1>6 DEF DatabaseInv, dbVars, OnDisk, Differs, Live, IsCreated, Final
<1>14. InTransaction'
  <2>1. \A s \in Threads : pc'[s] # "all"
    BY <1>3, <1>4 DEF OnlyThread
  <2> QED
    BY <1>1, <1>4, <2>1 DEF InTransaction, dbVars
<1>15. Loading'
  <2>1. \A s \in Threads : pc'[s] = "load" => pc[s] = "load" /\ loc'[s] = loc[s]
    BY <1>3 DEF OnlyThread
  <2> QED
    BY <1>1, <1>6, <2>1 DEF DatabaseInv, dbVars, Loading, Live
<1> QED
  BY <1>7, <1>8, <1>9, <1>10, <1>11, <1>12, <1>13, <1>14, <1>15 DEF DatabaseInv

(* what SetValue() and DeltaValue() make of an object *)
Changed(b, c) ==
    /\ c \in Objects /\ c.id = b.id
    /\ \E d \in Nat : /\ c.count.mDelta = b.count.mDelta + d
                      /\ c.count.mValue = b.count.mValue + d
    /\ c.name.mRealValue = b.name.mRealValue \/ isModified(c.name)
    /\ isModified(b.name) => isModified(c.name)

(* the name of an object is set *)
LEMMA SetName ==
    ASSUME NEW b \in Objects, NEW v \in Values
    PROVE  Changed(b, [b EXCEPT !.name = ScalarSet(b.name, v, FALSE)])
<1> DEFINE n == ScalarSet(b.name, v, FALSE)
           c == [b EXCEPT !.name = n]
<1>1. b.name \in NameFields /\ b.count \in CountFields
  BY DEF Objects
<1>2. n \in NameFields /\ (n.mRealValue = b.name.mRealValue \/ isModified(n))
      /\ (isModified(b.name) => isModified(n))
  BY <1>1, ScalarSetLemma
<1> HIDE DEF n
<1>3. c \in Objects /\ c.id = b.id /\ c.name = n /\ c.count = b.count
  BY <1>1, <1>2 DEF Objects
<1> HIDE DEF c
<1>4. b.count.mDelta = b.count.mDelta + 0 /\ b.count.mValue = b.count.mValue + 0
  BY <1>1 DEF CountFields
<1>5. Changed(b, c)
  BY <1>2, <1>3, <1>4 DEF Changed
<1> QED
  BY <1>5 DEF c, n

(* the counter of an object is changed *)
LEMMA SetCount ==
    ASSUME NEW b \in Objects, NEW d \in Nat
    PROVE  Changed(b, [b EXCEPT !.count = DeltaValue(b.count, d)])
<1> DEFINE n == DeltaValue(b.count, d)
           c == [b EXCEPT !.count = n]
<1>1. b.name \in NameFields /\ b.count \in CountFields
  BY DEF Objects
<1>2. n \in CountFields /\ n.mDelta = b.count.mDelta + d /\ n.mValue = b.count.mValue + d
  BY <1>1, DeltaValueLemma
<1> HIDE DEF n
<1>3. c \in Objects /\ c.id = b.id /\ c.count = n /\ c.name = b.name
  BY <1>1, <1>2 DEF Objects
<1> HIDE DEF c
<1>4. Changed(b, c)
  BY <1>2, <1>3 DEF Changed
<1> QED
  BY <1>4 DEF c, n

(* the field is changed and its object is noted as modified *)
LEMMA SetEndStep ==
    ASSUME DatabaseOK, DatabaseInv, NEW t \in Threads, SetEnd(t)
    PROVE  DatabaseInv'
<1>1. PICK o, f, c : o = loc[t].o /\ f = loc[t].f /\ c = ChangedBy(obj[o], f)
  OBVIOUS
<1>2. /\ pc[t] = "set" /\ DatabaseTypeOK /\ ~mAtomicOp /\ ~inTx
      /\ UNCHANGED <<dbVars, mObjects, mCreated, mModified, holder, mAtomicOp>>
      /\ OnlyThread(t) /\ pc'[t] = "idle" /\ \A s \in Threads : pc[s] # "all"
  BY ReturnLemma DEF SetEnd, DatabaseInv, Locked, Working
<1>3. o \in Live /\ o \in Objs /\ f \in Changes /\ obj[o] \in Objects
  BY <1>2, <1>1 DEF DatabaseInv, UsedByOne, Working, Live, DatabaseTypeOK, LocalsOK
<1>4. Changed(obj[o], c)
  <2>1. CASE f.field = "name"
    <3>1. f.to \in Values
      BY <1>3, <2>1 DEF Changes
    <3>2. ChangedBy(obj[o], f) = [obj[o] EXCEPT !.name = ScalarSet(obj[o].name, f.to, FALSE)]
      BY <2>1 DEF ChangedBy
    <3>3. PICK b \in Objects, d \in Values : b = obj[o] /\ d = f.to
      BY <1>3, <3>1
    <3>4. c = [b EXCEPT !.name = ScalarSet(b.name, d, FALSE)]
      BY <1>1, <3>2, <3>3
    <3>5. Changed(b, [b EXCEPT !.name = ScalarSet(b.name, d, FALSE)])
      BY SetName
    <3> QED
      BY <3>3, <3>4, <3>5
  <2>2. CASE f.field # "name"
    <3>1. f.to \in Nat
      BY <1>3, <2>2 DEF Changes, DatabaseOK
    <3>2. ChangedBy(obj[o], f) = [obj[o] EXCEPT !.count = DeltaValue(obj[o].count, f.to)]
      BY <2>2 DEF ChangedBy
    <3>3. PICK b \in Objects, d \in Nat : b = obj[o] /\ d = f.to
      BY <1>3, <3>1
    <3>4. c = [b EXCEPT !.count = DeltaValue(b.count, d)]
      BY <1>1, <3>2, <3>3
    <3>5. Changed(b, [b EXCEPT !.count = DeltaValue(b.count, d)])
      BY SetCount
    <3> QED
      BY <3>3, <3>4, <3>5
  <2> QED
    BY <2>1, <2>2
<1>5. obj' = [obj EXCEPT ![o] = c]
  BY <1>1 DEF SetEnd
<1>6. c \in Objects /\ obj'[o] = c /\ c.id = obj[o].id
  BY <1>2, <1>3, <1>4, <1>5 DEF Changed, DatabaseTypeOK
<1>7. /\ obj' \in [Objs -> Objects \cup {None}] /\ Live' = Live
      /\ \A x \in Objs : x # o => obj'[x] = obj[x] /\ Fields(x)' = Fields(x) /\ Final(x)' = Final(x)
      /\ \A x \in Objs : obj'[x].id = obj[x].id
  BY <1>2, <1>3, <1>4, <1>6, <1>5 DEF DatabaseTypeOK, Live, DatabaseOK, Fields, Final
<1>8. \A x : Queried(x)' <=> Queried(x)
  BY <1>2 DEF Queried, OnlyThread
<1>9. ~Queried(o)
  BY <1>2, <1>1 DEF Queried, DatabaseInv, UsedByOne, Working
<1>10. Contains(mModified, o)
  BY <1>2, <1>1 DEF DatabaseInv, Gathered
<1>11. \A x : IsCreated(x)' <=> IsCreated(x)
  BY <1>2 DEF IsCreated
<1>12. DatabaseTypeOK'
  <2>1. LocalsOK(t)'
    BY <1>2 DEF LocalsOK
  <2> QED
    BY <1>2, <1>7, <2>1, OthersLocals DEF DatabaseTypeOK, dbVars, OnlyThread, IsTable
<1>13. Locked'
  BY <1>2 DEF DatabaseInv, Locked, OnlyThread, dbVars
<1>14. UsedByOne'
  BY <1>2, <1>7 DEF DatabaseInv, UsedByOne, OnlyThread, Working
<1>15. Indexed'
  <2>1. \A x \in Live : InTable(x)' <=> InTable(x)
    BY <1>2, <1>7 DEF InTable, Live
  <2>2. \A x, y \in Live : obj'[x].id = obj'[y].id => x = y
    BY <1>7 DEF DatabaseInv, Indexed, Live
  <2>3. \A i \in DOMAIN mObjects : mObjects[i] \in Live /\ obj'[mObjects[i]].id = i
    BY <1>7 DEF DatabaseInv, Indexed, Live
  <2> QED
    BY <1>2, <1>7, <1>11, <2>1, <2>2, <2>3 DEF DatabaseInv, Indexed
<1>16. Gathered'
  <2>1. ASSUME NEW s \in Threads, pc'[s] \in {"set", "gather", "save"}
        PROVE  pc[s] = pc'[s] /\ loc'[s] = loc[s] /\ loc[s].o # o /\ loc[s].o \in Objs
    BY <1>2, <1>1, <2>1 DEF OnlyThread, DatabaseInv, UsedByOne, Working, Live
  <2>2. ASSUME NEW s \in Threads
        PROVE  /\ pc'[s] = "set" => Contains(mModified', loc'[s].o)
               /\ pc'[s] \in {"gather", "save"} => loc'[s].fields = Modified(Fields(loc[s].o)')
               /\ pc'[s] = "save" => /\ loc'[s].fs = Fields(loc[s].o)'
                                     /\ loc'[s].created = IsCreated(loc[s].o)'
    BY <1>2, <1>7, <2>1 DEF DatabaseInv, Gathered, IsCreated
  <2> QED
    BY <2>2 DEF Gathered
<1>17. Queued'
  BY <1>2, <1>7, <1>10 DEF DatabaseInv, Queued, Live
<1>18. OnDisk'
  <2>1. ASSUME NEW x \in Live, x # o PROVE Differs(x)'
    <3>1. Differs(x) /\ x \in Objs
      BY DEF DatabaseInv, OnDisk, Live
    <3> QED
      BY <1>2, <1>7, <1>8, <1>11, <2>1, <3>1 DEF Differs, dbVars
  <2>2. /\ obj[o].count.mDelta \in Nat /\ obj[o].count.mValue \in Int
    BY <1>3 DEF Objects, CountFields
  <2>3. PICK d \in Nat : /\ c.count.mDelta = obj[o].count.mDelta + d
                         /\ c.count.mValue = obj[o].count.mValue + d
    BY <1>4 DEF Changed
  <2>4. Differs(o) /\ (IsCreated(o) => obj[o].count.mDelta = obj[o].count.mValue)
    BY <1>3 DEF DatabaseInv, OnDisk
  <2>5. ~IsCreated(o) => disk[obj[o].id].count \in Int
    BY <1>2, <1>9, <2>4 DEF Differs, DatabaseTypeOK, IsTable, Rows
  <2>6. ~IsCreated(o) => disk[obj[o].id].count + c.count.mDelta = c.count.mValue
    BY <1>9, <2>2, <2>3, <2>4, <2>5 DEF Differs
  <2>7. ~IsCreated(o) => disk[obj[o].id].name = c.name.mRealValue \/ isModified(c.name)
    BY <1>4, <1>9, <2>4 DEF Differs, Changed
  <2>8. IF IsCreated(o) THEN c.id \notin DOMAIN disk
        ELSE /\ c.id \in DOMAIN disk
             /\ disk[c.id].count + c.count.mDelta = c.count.mValue
             /\ disk[c.id].name = c.name.mRealValue \/ isModified(c.name)
    BY <1>6, <1>9, <2>4, <2>6, <2>7 DEF Differs
  <2>9. Differs(o)'
    <3>1. disk' = disk /\ obj'[o] = c /\ ~Queried(o)' /\ (IsCreated(o)' <=> IsCreated(o))
      BY <1>2, <1>6, <1>8, <1>9, <1>11 DEF dbVars
    <3> QED
      BY <2>8, <3>1 DEF Differs
  <2>10. IsCreated(o) => obj'[o].count.mDelta = obj'[o].count.mValue
    BY <1>6, <2>3, <2>4
  <2> QED
    <3>1. \A x \in Live : x # o => obj'[x] = obj[x]
      BY <1>7 DEF Live
    <3>2. \A x \in Live : IsCreated(x)' => obj'[x].count.mDelta = obj'[x].count.mValue
      BY <1>11, <2>10, <3>1 DEF DatabaseInv, OnDisk
    <3>3. \A x \in Live : Differs(x)'
      BY <2>1, <2>9
    <3> QED
      BY <1>7, <3>2, <3>3 DEF OnDisk
<1>19. InTransaction'
  <2>1. \A s \in Threads : pc'[s] # "all"
    BY <1>2 DEF OnlyThread
  <2> QED
    BY <1>2, <2>1 DEF DatabaseInv, InTransaction, dbVars
<1>20. Loading'
  <2>1. \A s \in Threads : pc'[s] = "load" => pc[s] = "load" /\ loc'[s] = loc[s]
    BY <1>2 DEF OnlyThread
  <2> QED
    BY <1>2, <1>7, <1>8, <2>1 DEF DatabaseInv, dbVars, Loading, Live
<1> QED
  BY <1>12, <1>13, <1>14, <1>15, <1>16, <1>17, <1>18, <1>19, <1>20 DEF DatabaseInv

-----------------------------------------------------------------------------
(* ConstructObject() goes on with the rows it has read, without the one it took. *)
LEMMA LoadGoesOn ==
    ASSUME DatabaseTypeOK, NEW t \in Threads, pc[t] = "load", NEW i,
           LET rest == Erase(loc[t].rows, i)
           IN  IF DOMAIN rest = {} THEN Return(t) ELSE Goto(t, "load", [rows |-> rest])
    PROVE  /\ OnlyThread(t) /\ pc'[t] \in {"idle", "load"} /\ LocalsOK(t)'
           /\ pc'[t] = "load" => \A j \in DOMAIN loc'[t].rows :
                  j \in DOMAIN loc[t].rows \ {i} /\ loc'[t].rows[j] = loc[t].rows[j]
<1> DEFINE rest == Erase(loc[t].rows, i)
<1>1. IsTable(loc[t].rows)
  BY DEF DatabaseTypeOK, LocalsOK
<1>2. /\ DOMAIN rest = DOMAIN loc[t].rows \ {i} /\ IsTable(rest)
      /\ \A j \in DOMAIN rest : rest[j] = loc[t].rows[j]
  BY <1>1 DEF Erase, IsTable
<1> HIDE DEF rest
<1>3. CASE Return(t)
  <2>1. OnlyThread(t) /\ pc'[t] = "idle"
    BY <1>3, ReturnLemma
  <2> QED
    BY <2>1 DEF LocalsOK
<1>4. CASE Goto(t, "load", [rows |-> rest])
  <2>1. OnlyThread(t) /\ pc'[t] = "load" /\ loc'[t] = [rows |-> rest]
    BY <1>4, GotoLemma DEF Steps
  <2>2. loc'[t].rows = rest
    BY <2>1
  <2>3. LocalsOK(t)'
    BY <1>2, <2>1, <2>2 DEF LocalsOK, IsTable
  <2> QED
    BY <1>2, <2>1, <2>2, <2>3
<1> QED
  BY <1>3, <1>4 DEF rest

(* an object as it is loaded *)
LEMMA LoadedLemma ==
    ASSUME NEW i \in Ids, NEW row \in Rows, NEW c,
           c = [id |-> i, name |-> ScalarInit(Scalar, row.name),
                count |-> CounterInit(Counter, row.count)]
    PROVE  /\ c \in Objects /\ c.id = i
           /\ ~isModified(c.name) /\ ~isModified(c.count) /\ c.count.mDelta = 0
           /\ c.name.mRealValue = row.name /\ c.count.mValue = row.count
<1>1. row.name \in Names /\ row.count \in Int
  BY DEF Rows
<1>2. /\ ScalarInit(Scalar, row.name) \in NameFields
      /\ ScalarInit(Scalar, row.name).mDelta = 0
      /\ ScalarInit(Scalar, row.name).mRealValue = row.name
  BY <1>1 DEF ScalarInit, Scalar, NameFields, Names
<1>3. /\ CounterInit(Counter, row.count) \in CountFields
      /\ CounterInit(Counter, row.count).mDelta = 0
      /\ CounterInit(Counter, row.count).mValue = row.count
  BY <1>1 DEF CounterInit, Counter, CountFields
<1> QED
  BY <1>2, <1>3 DEF Objects, isModified

(* A row is made an object only when there is none of it, and the row is then what it was
   when it was read. *)
LEMMA ConstructObjectStep ==
    ASSUME DatabaseOK, DatabaseInv, NEW t \in Threads, ConstructObject(t)
    PROVE  DatabaseInv'
<1>1. /\ pc[t] = "load" /\ MutexFree(t) /\ DatabaseTypeOK
      /\ UNCHANGED <<dbVars, mCreated, mModified, holder, mAtomicOp>>
  BY DEF ConstructObject, DatabaseInv
<1>2. PICK i \in DOMAIN loc[t].rows :
        /\ IF i \in DOMAIN mObjects THEN UNCHANGED <<obj, mObjects>>
           ELSE \E o \in Objs \ Live : obj' = Construct(o, i, loc[t].rows[i])
                                       /\ mObjects' = With(mObjects, i, o)
        /\ LET rest == Erase(loc[t].rows, i)
           IN  IF DOMAIN rest = {} THEN Return(t) ELSE Goto(t, "load", [rows |-> rest])
  BY DEF ConstructObject
<1>3. /\ OnlyThread(t) /\ pc'[t] \in {"idle", "load"} /\ LocalsOK(t)'
      /\ pc'[t] = "load" => \A j \in DOMAIN loc'[t].rows :
             j \in DOMAIN loc[t].rows \ {i} /\ loc'[t].rows[j] = loc[t].rows[j]
  BY <1>1, <1>2, LoadGoesOn
<1>4. /\ ~inTx /\ ~mAtomicOp /\ rows = disk /\ \A x : ~Queried(x)
      /\ \A s \in Threads : pc[s] \notin {"save", "query", "all"}
  BY <1>1, MutexFacts
<1>5. \A x : ~Queried(x)'
  BY <1>1, <1>3, <1>4 DEF Queried, OnlyThread
<1>6. Locked'
  BY <1>1, <1>3, <1>4 DEF DatabaseInv, Locked, OnlyThread, dbVars, Working
<1>7. \A s \in Threads : (s # t /\ pc'[s] = pc[s] /\ loc'[s] = loc[s]) \/ pc'[s] \notin Working
  BY <1>3 DEF OnlyThread, Working
<1>8. CASE i \in DOMAIN mObjects
  <2>1. UNCHANGED <<dbVars, memVars, mAtomicOp>>
    BY <1>1, <1>2, <1>8 DEF memVars
  <2>2. Indexed' /\ Queued' /\ OnDisk' /\ InTransaction' /\ Loading'
    <3>1. \A x : Queried(x)' <=> Queried(x)
      BY <1>4, <1>5
    <3>2. pc[t] # "all" /\ pc'[t] # "all"
      BY <1>1, <1>3
    <3> QED
      BY <1>1, <1>3, <2>1, <3>1, <3>2, NothingStored
  <2>3. DatabaseTypeOK'
    BY <1>1, <1>3, <2>1, OthersLocals DEF DatabaseTypeOK, dbVars, memVars, OnlyThread, IsTable
  <2>4. UsedByOne'
    BY <1>7, <2>1 DEF DatabaseInv, UsedByOne, memVars, Live
  <2>5. Gathered'
    BY <1>7, <2>1 DEF DatabaseInv, Gathered, memVars, IsCreated, Fields, Working
  <2> QED
    BY <1>6, <2>2, <2>3, <2>4, <2>5 DEF DatabaseInv
<1>9. CASE i \notin DOMAIN mObjects
  <2>1. PICK o, row, c :
          /\ o \in Objs \ Live
          /\ obj' = [obj EXCEPT ![o] = c] /\ mObjects' = With(mObjects, i, o)
          /\ row = loc[t].rows[i]
          /\ c = [id |-> i, name |-> ScalarInit(Scalar, row.name),
                  count |-> CounterInit(Counter, row.count)]
    BY <1>2, <1>9 DEF Construct
  <2>2. i \in Ids /\ row \in Rows
    BY <1>1, <1>2, <2>1 DEF DatabaseTypeOK, LocalsOK, IsTable
  <2>3. /\ i \in DOMAIN disk /\ disk[i] = row /\ \A x \in Live : obj[x].id # i
    BY <1>1, <1>2, <1>4, <1>9, <2>1 DEF DatabaseInv, Loading
  <2>4. /\ c \in Objects /\ c.id = i
        /\ ~isModified(c.name) /\ ~isModified(c.count) /\ c.count.mDelta = 0
        /\ c.name.mRealValue = row.name /\ c.count.mValue = row.count
    BY <2>1, <2>2, LoadedLemma
  <2>5. /\ obj' \in [Objs -> Objects \cup {None}] /\ obj'[o] = c /\ Live' = Live \cup {o}
        /\ \A x \in Objs : x # o => obj'[x] = obj[x] /\ Fields(x)' = Fields(x)
                                    /\ Final(x)' = Final(x)
    BY <1>1, <2>1, <2>4 DEF DatabaseTypeOK, Live, DatabaseOK, Fields, Final
  <2>6. /\ DOMAIN mObjects' = DOMAIN mObjects \cup {i} /\ mObjects'[i] = o
        /\ mObjects' = [j \in DOMAIN mObjects' |-> mObjects'[j]]
        /\ \A j \in DOMAIN mObjects : mObjects'[j] = mObjects[j]
    BY <1>9, <2>1 DEF With
  <2>7. ~Contains(mCreated, o) /\ ~Contains(mModified, o)
    BY <2>1 DEF DatabaseInv, Indexed
  <2>8. \A x : IsCreated(x)' <=> IsCreated(x)
    BY <1>1 DEF IsCreated
  <2>9. DatabaseTypeOK'
    BY <1>1, <1>3, <2>2, <2>5, <2>6, OthersLocals
       DEF DatabaseTypeOK, dbVars, OnlyThread, IsTable
  <2>10. UsedByOne'
    BY <1>7, <2>5 DEF DatabaseInv, UsedByOne
  <2>11. Indexed'
    <3>1. ASSUME NEW x \in Live' PROVE IsCreated(x)' <=> ~InTable(x)'
      <4>1. CASE x = o
        BY <2>4, <2>5, <2>6, <2>7, <2>8, <4>1 DEF IsCreated, InTable
      <4>2. CASE x # o
        <5>1. x \in Live /\ x \in Objs /\ (IsCreated(x) <=> ~InTable(x))
          BY <2>5, <3>1, <4>2 DEF DatabaseInv, Indexed, Live
        <5> QED
          BY <2>3, <2>5, <2>6, <2>8, <4>2, <5>1 DEF InTable
      <4> QED
        BY <4>1, <4>2
    <3>2. \A x, y \in Live' : obj'[x].id = obj'[y].id => x = y
      BY <2>3, <2>4, <2>5 DEF DatabaseInv, Indexed, Live
    <3>3. \A j \in DOMAIN mObjects' : mObjects'[j] \in Live' /\ obj'[mObjects'[j]].id = j
      BY <2>1, <2>4, <2>5, <2>6 DEF DatabaseInv, Indexed, Live
    <3> QED
      BY <1>1, <2>5, <3>1, <3>2, <3>3 DEF DatabaseInv, Indexed
  <2>12. Gathered'
    <3>1. ASSUME NEW s \in Threads, pc'[s] \in {"set", "gather", "save"}
          PROVE  pc[s] = pc'[s] /\ loc'[s] = loc[s] /\ loc[s].o # o /\ loc[s].o \in Objs
      BY <1>7, <2>1, <3>1 DEF DatabaseInv, UsedByOne, Working, Live
    <3>2. ASSUME NEW s \in Threads
          PROVE  /\ pc'[s] = "set" => Contains(mModified', loc'[s].o)
                 /\ pc'[s] \in {"gather", "save"} => loc'[s].fields = Modified(Fields(loc[s].o)')
                 /\ pc'[s] = "save" => /\ loc'[s].fs = Fields(loc[s].o)'
                                       /\ loc'[s].created = IsCreated(loc[s].o)'
      BY <1>1, <2>5, <3>1 DEF DatabaseInv, Gathered, IsCreated
    <3> QED
      BY <3>1, <3>2 DEF Gathered
  <2>13. Queued'
    <3>1. ASSUME NEW x \in Live', Modified(Fields(x)') # {} PROVE Contains(mModified', x)
      <4>1. x # o
        BY <2>4, <2>5, <3>1, ModifiedLemma DEF Fields
      <4> QED
        BY <1>1, <2>5, <3>1, <4>1 DEF DatabaseInv, Queued, Live
    <3> QED
      BY <3>1 DEF Queued, Modified, isModified
  <2>14. OnDisk'
    <3>1. ASSUME NEW x \in Live' PROVE Differs(x)'
      <4>1. CASE x = o
        <5>1. row.count \in Int
          BY <2>2 DEF Rows
        <5>2. disk[i].count + 0 = row.count /\ disk[i].name = row.name
          BY <2>3, <5>1
        <5> QED
          BY <1>1, <1>5, <2>3, <2>4, <2>5, <2>7, <2>8, <4>1, <5>2 DEF Differs, dbVars, IsCreated
      <4>2. CASE x # o
        <5>1. Differs(x) /\ x \in Objs
          BY <2>5, <4>2 DEF DatabaseInv, OnDisk, Live
        <5> QED
          BY <1>1, <1>4, <1>5, <2>5, <2>8, <4>2, <5>1 DEF Differs, dbVars
      <4> QED
        BY <4>1, <4>2
    <3>2. \A x \in Live' : IsCreated(x)' => obj'[x].count.mDelta = obj'[x].count.mValue
      BY <2>5, <2>7, <2>8 DEF DatabaseInv, OnDisk, Live, IsCreated
    <3> QED
      BY <3>1, <3>2 DEF OnDisk
  <2>15. InTransaction'
    <3>1. \A s \in Threads : pc'[s] # "all"
      BY <1>3, <1>4 DEF OnlyThread
    <3> QED
      BY <1>1, <1>4, <3>1 DEF InTransaction, dbVars
  <2>16. Loading'
    <3>1. ASSUME NEW s \in Threads, pc'[s] = "load", NEW j \in DOMAIN loc'[s].rows
          PROVE  /\ j \in DOMAIN disk
                 /\ \/ j \in DOMAIN mObjects'
                    \/ disk[j] = loc'[s].rows[j] /\ \A x \in Live' : obj'[x].id # j
      <4>1. pc[s] = "load" /\ j \in DOMAIN loc[s].rows /\ loc'[s].rows[j] = loc[s].rows[j]
        BY <1>1, <1>3, <3>1 DEF OnlyThread
      <4>2. /\ j \in DOMAIN disk
            /\ \/ j \in DOMAIN mObjects
               \/ disk[j] = loc[s].rows[j] /\ \A x \in Live : obj[x].id # j
        BY <1>4, <4>1 DEF DatabaseInv, Loading
      <4> QED
        BY <2>4, <2>5, <2>6, <4>1, <4>2 DEF Live
    <3> QED
      BY <1>1, <3>1 DEF Loading, dbVars
  <2> QED
    BY <1>6, <2>9, <2>10, <2>11, <2>12, <2>13, <2>14, <2>15, <2>16 DEF DatabaseInv
<1> QED
  BY <1>8, <1>9

(* DeleteObject(): the row, the object and its place in the queues go together. *)
LEMMA DeleteObjectStep ==
    ASSUME DatabaseOK, DatabaseInv, NEW t \in Threads, DeleteObject(t)
    PROVE  DatabaseInv'
<1>1. /\ pc[t] = "idle" /\ MutexFree(t) /\ DatabaseTypeOK
      /\ \A s \in Threads : pc[s] # "load"
      /\ UNCHANGED <<inTx, holder, mAtomicOp, pc, loc>>
  BY DEF DeleteObject, DatabaseInv
<1>2. /\ ~inTx /\ ~mAtomicOp /\ rows = disk /\ \A x : ~Queried(x)
      /\ \A s \in Threads : pc[s] \notin {"save", "query", "all"}
  BY <1>1, MutexFacts
<1>3. PICK o \in Live \ Others(t), i \in Ids :
        /\ i = obj[o].id
        /\ IF Contains(mCreated, o) THEN UNCHANGED <<rows, disk, mObjects>>
           ELSE /\ i \in DOMAIN rows
                /\ rows' = Erase(rows, i) /\ disk' = rows'
                /\ mObjects' = Erase(mObjects, i)
        /\ obj' = [obj EXCEPT ![o] = None]
        /\ mModified' = Without(mModified, o)
        /\ mCreated' = Without(mCreated, o)
  <2>1. \A o \in Live : obj[o].id \in Ids
    BY <1>1 DEF DatabaseTypeOK, Live, Objects
  <2> QED
    BY <1>2, <2>1 DEF DeleteObject
<1>4. /\ obj' \in [Objs -> Objects \cup {None}] /\ Live' = Live \ {o}
      /\ \A x \in Objs : x # o => obj'[x] = obj[x] /\ Fields(x)' = Fields(x)
                                  /\ Final(x)' = Final(x)
  BY <1>1, <1>3 DEF DatabaseTypeOK, Live, Fields, Final
<1>5. /\ mCreated' \in Seq(Objs) /\ IsInjective(mCreated')
      /\ \A x : Contains(mCreated', x) <=> Contains(mCreated, x) /\ x # o
      /\ mModified' \in Seq(Objs) /\ IsInjective(mModified')
      /\ \A x : Contains(mModified', x) <=> Contains(mModified, x) /\ x # o
  BY <1>1, <1>3, WithoutLemma DEF DatabaseTypeOK, DatabaseInv, Indexed
<1>6. \A x : ~Queried(x)'
  BY <1>1, <1>2 DEF Queried
<1>7. \A x \in Live : x # o => obj[x].id # i
  BY <1>3 DEF DatabaseInv, Indexed
<1>8. IsTable(rows)
  BY <1>1 DEF DatabaseTypeOK
<1>9. /\ disk' = rows' /\ IsTable(rows') /\ DOMAIN rows' \subseteq DOMAIN rows
      /\ \A j : j # i => (j \in DOMAIN rows' <=> j \in DOMAIN rows)
      /\ \A j \in DOMAIN rows : j # i => rows'[j] = rows[j]
  <2>1. CASE IsCreated(o)
    BY <1>2, <1>3, <1>8, <2>1 DEF IsCreated, IsTable
  <2>2. CASE ~IsCreated(o)
    BY <1>3, <1>8, <2>2 DEF IsCreated, IsTable, Erase
  <2> QED
    BY <2>1, <2>2
<1>10. /\ DOMAIN mObjects' = DOMAIN mObjects \ {i}
       /\ mObjects' = [j \in DOMAIN mObjects' |-> mObjects'[j]]
       /\ \A j \in DOMAIN mObjects' : mObjects'[j] = mObjects[j]
  <2>1. CASE IsCreated(o)
    <3>1. i \notin DOMAIN mObjects
      <4> SUFFICES ASSUME i \in DOMAIN mObjects PROVE FALSE
        OBVIOUS
      <4>1. mObjects[i] \in Live /\ obj[mObjects[i]].id = i
        BY DEF DatabaseInv, Indexed
      <4>2. InTable(o)
        BY <1>3, <1>7, <4>1 DEF InTable
      <4> QED
        BY <1>3, <2>1, <4>2 DEF DatabaseInv, Indexed
    <3> QED
      BY <1>1, <1>3, <2>1, <3>1 DEF IsCreated, DatabaseTypeOK
  <2>2. CASE ~IsCreated(o)
    BY <1>3, <2>2 DEF IsCreated, Erase
  <2> QED
    BY <2>1, <2>2
<1>11. DatabaseTypeOK'
  <2>1. \A s \in Threads : LocalsOK(s)'
    BY <1>1 DEF DatabaseTypeOK, LocalsOK, IsTable
  <2> QED
    BY <1>1, <1>4, <1>5, <1>9, <1>10, <2>1 DEF DatabaseTypeOK, IsTable
<1>12. Locked'
  BY <1>1 DEF DatabaseInv, Locked
<1>13. UsedByOne'
  <2>1. \A s \in Threads : pc[s] \in Working => loc[s].o # o
    BY <1>1, <1>3 DEF Others, Working
  <2> QED
    BY <1>1, <1>4, <2>1 DEF DatabaseInv, UsedByOne
<1>14. Indexed'
  <2>1. ASSUME NEW x \in Live' PROVE IsCreated(x)' <=> ~InTable(x)'
    <3>1. x \in Live /\ x \in Objs /\ x # o /\ (IsCreated(x) <=> ~InTable(x))
      BY <1>4, <2>1 DEF DatabaseInv, Indexed, Live
    <3> QED
      BY <1>4, <1>5, <1>7, <1>10, <3>1 DEF IsCreated, InTable
  <2>2. \A x, y \in Live' : obj'[x].id = obj'[y].id => x = y
    BY <1>4 DEF DatabaseInv, Indexed, Live
  <2>3. \A j \in DOMAIN mObjects' : mObjects'[j] \in Live' /\ obj'[mObjects'[j]].id = j
    <3>1. \A j \in DOMAIN mObjects : mObjects[j] \in Live /\ obj[mObjects[j]].id = j
      BY DEF DatabaseInv, Indexed
    <3> QED
      BY <1>3, <1>4, <1>10, <3>1 DEF Live
  <2>4. \A x \in Objs : Contains(mCreated', x) \/ Contains(mModified', x) => x \in Live'
    BY <1>4, <1>5 DEF DatabaseInv, Indexed
  <2> QED
    BY <1>5, <2>1, <2>2, <2>3, <2>4 DEF Indexed
<1>15. Gathered'
  <2>1. ASSUME NEW s \in Threads, pc[s] \in {"set", "gather", "save"}
        PROVE  loc[s].o # o /\ loc[s].o \in Objs
    BY <1>1, <1>3, <2>1 DEF Others, DatabaseInv, UsedByOne, Working, Live
  <2>2. ASSUME NEW s \in Threads
        PROVE  /\ pc'[s] = "set" => Contains(mModified', loc'[s].o)
               /\ pc'[s] \in {"gather", "save"} => loc'[s].fields = Modified(Fields(loc[s].o)')
               /\ pc'[s] # "save"
    BY <1>1, <1>2, <1>4, <1>5, <2>1 DEF DatabaseInv, Gathered
  <2> QED
    BY <1>1, <2>2 DEF Gathered
<1>16. Queued'
  BY <1>4, <1>5 DEF DatabaseInv, Queued, Live
<1>17. OnDisk'
  <2>1. ASSUME NEW x \in Live' PROVE Differs(x)'
    <3>1. x \in Live /\ x \in Objs /\ x # o /\ Differs(x) /\ obj[x].id # i
      BY <1>4, <1>7, <2>1 DEF DatabaseInv, OnDisk, Live
    <3>2. IsCreated(x)' <=> IsCreated(x)
      BY <1>5, <3>1 DEF IsCreated
    <3> QED
      BY <1>2, <1>4, <1>6, <1>9, <3>1, <3>2 DEF Differs
  <2>2. \A x \in Live' : IsCreated(x)' => obj'[x].count.mDelta = obj'[x].count.mValue
    BY <1>4, <1>5 DEF DatabaseInv, OnDisk, Live, IsCreated
  <2> QED
    BY <2>1, <2>2 DEF OnDisk
<1>18. InTransaction'
  <2>1. \A s \in Threads : pc'[s] # "all"
    BY <1>1, <1>2
  <2> QED
    BY <1>9, <2>1 DEF InTransaction
<1>19. Loading'
  BY <1>1 DEF Loading
<1> QED
  BY <1>11, <1>12, <1>13, <1>14, <1>15, <1>16, <1>17, <1>18, <1>19 DEF DatabaseInv

(* The program ends and starts again: what was committed is the table. *)
LEMMA RestartStep ==
    ASSUME DatabaseOK, DatabaseInv, Restart
    PROVE  DatabaseInv'
<1>1. IsTable(disk) /\ IsTable(rows)
  BY DEF DatabaseInv, DatabaseTypeOK
<1>2. /\ rows' = disk /\ disk' = disk /\ inTx' = FALSE /\ mAtomicOp' = FALSE /\ holder' = None
      /\ obj' = [o \in Objs |-> None] /\ mObjects' = << >>
      /\ mCreated' = << >> /\ mModified' = << >>
      /\ pc' = [t \in Threads |-> "idle"] /\ loc' = [t \in Threads |-> None]
  BY DEF Restart
<1>3. /\ \A x : ~Contains(mCreated', x) /\ ~Contains(mModified', x)
      /\ IsInjective(mCreated') /\ IsInjective(mModified') /\ DOMAIN mObjects' = {}
      /\ mCreated' \in Seq(Objs) /\ mModified' \in Seq(Objs)
  BY <1>2, EmptyContains
<1>4. Live' = {}
  BY <1>2 DEF Live
<1>5. DatabaseTypeOK'
  <2>1. /\ pc' \in [Threads -> Steps] /\ DOMAIN loc' = Threads
        /\ loc' = [t \in Threads |-> loc'[t]] /\ obj' \in [Objs -> Objects \cup {None}]
        /\ \A t \in Threads : LocalsOK(t)'
    BY <1>2 DEF Steps, LocalsOK
  <2>2. mObjects' = [i \in DOMAIN mObjects' |-> mObjects'[i]]
    BY <1>2
  <2> QED
    BY <1>1, <1>2, <1>3, <2>1, <2>2 DEF DatabaseTypeOK
<1>6. Locked' /\ UsedByOne' /\ Gathered'
  BY <1>2 DEF DatabaseOK, Locked, UsedByOne, Gathered, Working
<1>7. Indexed' /\ Queued' /\ OnDisk'
  BY <1>3, <1>4 DEF Indexed, Queued, OnDisk
<1>8. InTransaction' /\ Loading'
  BY <1>2 DEF InTransaction, Loading
<1> QED
  BY <1>5, <1>6, <1>7, <1>8 DEF DatabaseInv

(* an empty database keeps the invariant *)
LEMMA StartStep == ASSUME DatabaseOK, DatabaseInit PROVE DatabaseInv
<1>1. /\ \A x : ~Contains(mCreated, x) /\ ~Contains(mModified, x)
      /\ IsInjective(mCreated) /\ IsInjective(mModified) /\ DOMAIN mObjects = {}
      /\ mCreated \in Seq(Objs) /\ mModified \in Seq(Objs)
  BY EmptyContains DEF DatabaseInit
<1>2. Live = {}
  BY DEF DatabaseInit, Live
<1>3. DatabaseTypeOK
  <2>1. /\ pc \in [Threads -> Steps] /\ DOMAIN loc = Threads
        /\ loc = [t \in Threads |-> loc[t]] /\ obj \in [Objs -> Objects \cup {None}]
        /\ \A t \in Threads : LocalsOK(t)
    BY DEF DatabaseInit, Steps, LocalsOK
  <2>2. mObjects = [i \in DOMAIN mObjects |-> mObjects[i]]
    BY DEF DatabaseInit
  <2>3. IsTable(<< >>)
    BY EmptyContains DEF IsTable
  <2> QED
    BY <1>1, <2>1, <2>2, <2>3 DEF DatabaseInit, DatabaseTypeOK
<1>4. Locked /\ UsedByOne /\ Gathered /\ InTransaction /\ Loading
  BY DEF DatabaseInit, DatabaseOK, Locked, UsedByOne, Gathered, Working, InTransaction, Loading
<1>5. Indexed /\ Queued /\ OnDisk
  BY <1>1, <1>2 DEF Indexed, Queued, OnDisk
<1> QED
  BY <1>3, <1>4, <1>5 DEF DatabaseInv

-----------------------------------------------------------------------------
(* SaveObjects() begins: nobody else is saving or has a transaction open. *)
LEMMA SaveObjectsStep ==
    ASSUME DatabaseOK, DatabaseInv, NEW t \in Threads, SaveObjects(t)
    PROVE  DatabaseInv'
<1> DEFINE l == [todo |-> Todo, done |-> {}]
<1>1. /\ pc[t] = "idle" /\ MutexFree(t) /\ DatabaseTypeOK /\ UNCHANGED <<rows, disk, memVars>>
      /\ \A s \in Threads : pc[s] \notin Working
  BY DEF SaveObjects, DatabaseInv, DatabaseOK, Working
<1>2. /\ ~inTx /\ rows = disk /\ \A x : ~Queried(x)
      /\ \A s \in Threads : pc[s] \notin {"save", "query", "all"}
  BY <1>1, MutexFacts
<1>3. /\ holder' = t /\ mAtomicOp' = TRUE /\ inTx' = TRUE
      /\ OnlyThread(t) /\ pc'[t] = "all" /\ loc'[t] = l
  BY <1>1, <1>2, GotoLemma DEF SaveObjects, Steps
<1>4. /\ l \in [todo : Seq(Objs), done : SUBSET Objs] /\ l.done = {}
      /\ \A x : Contains(l.todo, x) <=> Contains(mCreated, x) \/ Contains(mModified, x)
  <2>1. mCreated \in Seq(Objs) /\ mModified \in Seq(Objs)
    BY <1>1 DEF DatabaseTypeOK
  <2> QED
    BY <2>1, ConcatContains DEF Todo
<1> HIDE DEF l
<1>5. \A x : ~Queried(x)'
  BY <1>1, <1>2, <1>3 DEF Queried, OnlyThread
<1>6. DatabaseTypeOK'
  <2>1. LocalsOK(t)'
    BY <1>3, <1>4 DEF LocalsOK
  <2> QED
    BY <1>1, <1>3, <2>1, OthersLocals DEF DatabaseTypeOK, memVars, OnlyThread, IsTable
<1>7. Locked'
  BY <1>1, <1>2, <1>3 DEF DatabaseOK, Locked, OnlyThread, Working
<1>8. UsedByOne' /\ Gathered'
  <2>1. \A s \in Threads : pc'[s] \notin Working
    BY <1>1, <1>3 DEF OnlyThread, Working
  <2> QED
    BY <2>1 DEF UsedByOne, Gathered, Working
<1>9. Indexed'
  BY <1>1 DEF DatabaseInv, memVars, Indexed, Live, IsCreated, InTable
<1>10. Queued'
  BY <1>1 DEF DatabaseInv, memVars, Queued, Live, Fields
<1>11. OnDisk'
  BY <1>1, <1>2, <1>5 DEF DatabaseInv, memVars, OnDisk, Differs, Live, IsCreated, Final
<1>12. InTransaction'
  <2>1. \A s \in Threads : pc'[s] = "all" => s = t
    BY <1>2, <1>3 DEF OnlyThread
  <2>2. /\ \A o \in Objs : (o \in loc'[t].done \/ Contains(loc'[t].todo, o))
                             <=> (Contains(mCreated, o) \/ Contains(mModified, o))
        /\ loc'[t].done = {}
    BY <1>3, <1>4
  <2> QED
    BY <1>1, <1>2, <1>3, <2>1, <2>2 DEF InTransaction, memVars
<1>13. Loading'
  <2>1. \A s \in Threads : pc'[s] = "load" => pc[s] = "load" /\ loc'[s] = loc[s]
    BY <1>3 DEF OnlyThread
  <2> QED
    BY <1>1, <1>2, <1>5, <2>1 DEF DatabaseInv, memVars, Loading, Live
<1> QED
  BY <1>6, <1>7, <1>8, <1>9, <1>10, <1>11, <1>12, <1>13 DEF DatabaseInv

(* what the thread in SaveObjects() knows: it is alone, and the objects it has to save are
   those that were created or modified *)
LEMMA AllFacts ==
    ASSUME DatabaseOK, DatabaseInv, NEW t \in Threads, pc[t] = "all"
    PROVE  /\ holder = t /\ mAtomicOp /\ inTx
           /\ \A s \in Threads : pc[s] \notin Working /\ (pc[s] = "all" => s = t)
           /\ \A x : ~Queried(x)
           /\ loc[t].todo \in Seq(Objs) /\ loc[t].done \in SUBSET Objs
           /\ loc[t].done \subseteq Live
           /\ \A o \in Objs : Contains(loc[t].todo, o) => o \in Live
           /\ \A o \in Objs : (o \in loc[t].done \/ Contains(loc[t].todo, o))
                                <=> (Contains(mCreated, o) \/ Contains(mModified, o))
<1>1. holder = t /\ mAtomicOp /\ inTx
  BY DEF DatabaseInv, Locked
<1>2. \A s \in Threads : pc[s] \notin Working /\ (pc[s] = "all" => s = t)
  BY <1>1 DEF DatabaseInv, Locked
<1>3. \A x : ~Queried(x)
  BY <1>2 DEF Queried, Working
<1>4. loc[t].todo \in Seq(Objs) /\ loc[t].done \in SUBSET Objs
  BY DEF DatabaseInv, DatabaseTypeOK, LocalsOK
<1>5. \A o \in Objs : (o \in loc[t].done \/ Contains(loc[t].todo, o))
                        <=> (Contains(mCreated, o) \/ Contains(mModified, o))
  BY DEF DatabaseInv, InTransaction
<1>6. \A o \in Objs : Contains(mCreated, o) \/ Contains(mModified, o) => o \in Live
  BY DEF DatabaseInv, Indexed
<1> QED
  BY <1>1, <1>2, <1>3, <1>4, <1>5, <1>6

(* One more object is saved: its row is as the object is, and the rows of the objects that
   are not saved yet are as they are on disk. *)
LEMMA SaveNextStep ==
    ASSUME DatabaseOK, DatabaseInv, NEW t \in Threads, SaveNext(t)
    PROVE  DatabaseInv'
<1>1. /\ pc[t] = "all" /\ loc[t].todo # << >> /\ DatabaseTypeOK
      /\ UNCHANGED <<disk, inTx, memVars, holder, mAtomicOp, pc>>
  BY DEF SaveNext, DatabaseInv
<1>2. PICK o, todo, done : o = Head(loc[t].todo) /\ todo = Tail(loc[t].todo)
                           /\ done = loc[t].done \cup {o}
  OBVIOUS
<1>3. /\ holder = t /\ mAtomicOp /\ inTx
      /\ \A s \in Threads : pc[s] \notin Working /\ (pc[s] = "all" => s = t)
      /\ \A x : ~Queried(x)
      /\ loc[t].todo \in Seq(Objs) /\ loc[t].done \in SUBSET Objs
      /\ loc[t].done \subseteq Live
      /\ \A x \in Objs : Contains(loc[t].todo, x) => x \in Live
      /\ \A x \in Objs : (x \in loc[t].done \/ Contains(loc[t].todo, x))
                           <=> (Contains(mCreated, x) \/ Contains(mModified, x))
  BY <1>1, AllFacts
<1>4. /\ o \in Objs /\ todo \in Seq(Objs)
      /\ \A x : Contains(loc[t].todo, x) <=> x = o \/ Contains(todo, x)
  BY <1>1, <1>2, <1>3, TailContains
<1>5. o \in Live /\ obj[o] \in Objects
  BY <1>1, <1>3, <1>4 DEF DatabaseTypeOK, Live
<1>6. OnlyThread(t) /\ loc'[t].todo = todo /\ loc'[t].done = done /\ LocalsOK(t)'
  <2>1. loc[t] \in [todo : Seq(Objs), done : SUBSET Objs]
    BY <1>1 DEF DatabaseTypeOK, LocalsOK
  <2>2. DOMAIN loc = Threads /\ loc = [s \in Threads |-> loc[s]] /\ pc \in [Threads -> Steps]
    BY <1>1 DEF DatabaseTypeOK
  <2>3. PICK l : l = [loc[t] EXCEPT !.todo = todo, !.done = done]
    OBVIOUS
  <2>4. l \in [todo : Seq(Objs), done : SUBSET Objs] /\ l.todo = todo /\ l.done = done
    BY <1>2, <1>4, <2>1, <2>3
  <2>5. loc' = [loc EXCEPT ![t] = [todo |-> Tail(@.todo), done |-> @.done \cup {Head(@.todo)}]]
    BY DEF SaveNext
  <2>6. loc'[t] = [todo |-> todo, done |-> done]
    BY <1>2, <2>2, <2>5
  <2>7. loc'[t] \in [todo : Seq(Objs), done : SUBSET Objs]
        /\ loc'[t].todo = todo /\ loc'[t].done = done
    BY <1>2, <1>3, <1>4, <2>6
  <2>8. LocalsOK(t)'
    BY <1>1, <2>7 DEF LocalsOK
  <2>9. OnlyThread(t)
    BY <1>1, <2>2, <2>5 DEF OnlyThread
  <2> QED
    BY <2>7, <2>8, <2>9
<1>7. PICK id \in Ids, fs \in [name : NameFields, count : CountFields] :
        id = obj[o].id /\ fs = Fields(o) /\ fs.name = obj[o].name /\ fs.count = obj[o].count
  <2>1. obj[o].id \in Ids /\ Fields(o) \in [name : NameFields, count : CountFields]
    BY <1>5 DEF Objects, Fields
  <2>2. Fields(o).name = obj[o].name /\ Fields(o).count = obj[o].count
    BY DEF Fields
  <2> QED
    BY <2>1, <2>2
<1>8. \A x \in Live : x # o => obj[x].id # id
  BY <1>5, <1>7 DEF DatabaseInv, Indexed
<1>9. \A i \in Ids : (\A x \in loc[t].done : obj[x].id # i) =>
             (i \in DOMAIN rows <=> i \in DOMAIN disk) /\ (i \in DOMAIN disk => rows[i] = disk[i])
  BY <1>1 DEF DatabaseInv, InTransaction
<1>10. \A x \in loc[t].done : obj[x].id \in DOMAIN rows /\ rows[obj[x].id] = Final(x)
  BY <1>1 DEF DatabaseInv, InTransaction
<1>11. IsTable(rows)
  BY <1>1 DEF DatabaseTypeOK
<1>12. /\ IsTable(rows') /\ DOMAIN rows' = DOMAIN rows \cup {id}
       /\ rows'[id] = Final(o)
       /\ \A i \in DOMAIN rows : i # id => rows'[i] = rows[i]
  <2>1. CASE o \in loc[t].done
    <3>1. rows' = rows
      BY <1>2, <2>1 DEF SaveNext
    <3> QED
      BY <1>7, <1>10, <1>11, <2>1, <3>1
  <2>2. CASE o \notin loc[t].done
    <3>1. /\ Stores(rows, id, IsCreated(o), Modified(fs))
          /\ rows' = Stored(rows, id, IsCreated(o), fs, Modified(fs))
      BY <1>2, <1>7, <2>2 DEF SaveNext, IsCreated
    <3>2. \A x \in loc[t].done : obj[x].id # id
      BY <1>3, <1>8, <2>2
    <3>3. (id \in DOMAIN rows <=> id \in DOMAIN disk) /\ (id \in DOMAIN disk => rows[id] = disk[id])
      BY <1>9, <3>2
    <3>4. /\ IsCreated(o) => /\ id \notin DOMAIN disk
                             /\ obj[o].count.mDelta = obj[o].count.mValue
          /\ ~IsCreated(o) => /\ id \in DOMAIN disk
                              /\ disk[id].count + obj[o].count.mDelta = obj[o].count.mValue
                              /\ disk[id].name = obj[o].name.mRealValue \/ isModified(obj[o].name)
      BY <1>3, <1>5, <1>7 DEF DatabaseInv, OnDisk, Differs
    <3>5. /\ IsCreated(o) => fs.count.mDelta = fs.count.mValue
          /\ ~IsCreated(o) => /\ id \in DOMAIN rows
                              /\ rows[id].count + fs.count.mDelta = fs.count.mValue
                              /\ rows[id].name = fs.name.mRealValue \/ isModified(fs.name)
      BY <1>7, <3>3, <3>4
    <3>6. IsCreated(o) \in BOOLEAN
      BY DEF IsCreated, Contains
    <3>7. LET after == Stored(rows, id, IsCreated(o), fs, Modified(fs))
          IN  /\ IsTable(after) /\ DOMAIN after = DOMAIN rows \cup {id}
              /\ after[id] = [name |-> fs.name.mRealValue, count |-> fs.count.mValue]
              /\ \A i \in DOMAIN rows : i # id => after[i] = rows[i]
      BY <1>11, <3>1, <3>5, <3>6, StoredLemma
    <3> QED
      BY <1>7, <3>1, <3>7 DEF Final
  <2> QED
    BY <2>1, <2>2
<1>13. Live' = Live /\ \A x : /\ obj'[x] = obj[x] /\ IsCreated(x)' = IsCreated(x)
                              /\ Final(x)' = Final(x) /\ Fields(x)' = Fields(x)
  BY <1>1 DEF memVars, Live, IsCreated, Final, Fields
<1>14. \A x : ~Queried(x)'
  BY <1>1, <1>3 DEF Queried, Working
<1>15. DatabaseTypeOK'
  BY <1>1, <1>6, <1>12, OthersLocals DEF DatabaseTypeOK, memVars, OnlyThread, IsTable
<1>16. Locked'
  BY <1>1 DEF DatabaseInv, Locked
<1>17. UsedByOne' /\ Gathered'
  <2>1. \A s \in Threads : pc'[s] \notin Working
    BY <1>1, <1>3
  <2> QED
    BY <2>1 DEF UsedByOne, Gathered, Working
<1>18. Indexed'
  BY <1>1 DEF DatabaseInv, memVars, Indexed, Live, IsCreated, InTable
<1>19. Queued'
  BY <1>1 DEF DatabaseInv, memVars, Queued, Live, Fields
<1>20. OnDisk'
  BY <1>1, <1>3, <1>14 DEF DatabaseInv, memVars, OnDisk, Differs, Live, IsCreated, Final
<1>21. InTransaction'
  <2>1. \A x \in Objs : (x \in done \/ Contains(todo, x))
                          <=> (Contains(mCreated, x) \/ Contains(mModified, x))
    BY <1>2, <1>3, <1>4
  <2>2. \A x \in done : obj[x].id \in DOMAIN rows' /\ rows'[obj[x].id] = Final(x)
    BY <1>2, <1>3, <1>7, <1>8, <1>10, <1>12
  <2>3. ASSUME NEW i \in Ids, \A x \in done : obj[x].id # i
        PROVE  /\ i \in DOMAIN rows' <=> i \in DOMAIN disk
               /\ i \in DOMAIN disk => rows'[i] = disk[i]
    <3>1. i # id /\ \A x \in loc[t].done : obj[x].id # i
      BY <1>2, <1>7, <2>3
    <3> QED
      BY <1>9, <1>12, <3>1
  <2>4. \A s \in Threads : pc'[s] = "all" => s = t
    BY <1>1, <1>3
  <2> QED
    BY <1>1, <1>3, <1>6, <1>13, <2>1, <2>2, <2>3, <2>4 DEF InTransaction, memVars
<1>22. Loading'
  <2>1. \A s \in Threads : pc'[s] = "load" => pc[s] = "load" /\ loc'[s] = loc[s]
    BY <1>1, <1>6 DEF OnlyThread
  <2> QED
    BY <1>1, <1>3, <1>14, <2>1 DEF DatabaseInv, memVars, Loading, Live
<1> QED
  BY <1>15, <1>16, <1>17, <1>18, <1>19, <1>20, <1>21, <1>22 DEF DatabaseInv

(* A query or the COMMIT fails: the table is again what it was, and the objects still are. *)
LEMMA RollbackStep ==
    ASSUME DatabaseOK, DatabaseInv, NEW t \in Threads, Rollback(t)
    PROVE  DatabaseInv'
<1>1. /\ pc[t] = "all" /\ rows' = disk /\ inTx' = FALSE /\ DatabaseTypeOK
      /\ holder' = None /\ mAtomicOp' = FALSE /\ UNCHANGED <<disk, memVars>>
      /\ OnlyThread(t) /\ pc'[t] = "idle"
  BY ReturnLemma DEF Rollback, DatabaseInv
<1>2. /\ holder = t /\ \A x : ~Queried(x)
      /\ \A s \in Threads : pc[s] \notin Working /\ (pc[s] = "all" => s = t)
  BY <1>1, AllFacts
<1>3. \A s \in Threads : pc'[s] \notin Working /\ pc'[s] # "all"
  BY <1>1, <1>2 DEF OnlyThread, Working
<1>4. \A x : ~Queried(x)'
  BY <1>3 DEF Queried, Working
<1>5. DatabaseTypeOK'
  <2>1. LocalsOK(t)'
    BY <1>1 DEF LocalsOK
  <2> QED
    BY <1>1, <2>1, OthersLocals DEF DatabaseTypeOK, memVars, OnlyThread, IsTable
<1>6. Locked'
  BY <1>1, <1>3 DEF DatabaseOK, Locked, Working
<1>7. UsedByOne' /\ Gathered'
  BY <1>3 DEF UsedByOne, Gathered, Working
<1>8. Indexed'
  BY <1>1 DEF DatabaseInv, memVars, Indexed, Live, IsCreated, InTable
<1>9. Queued'
  BY <1>1 DEF DatabaseInv, memVars, Queued, Live, Fields
<1>10. OnDisk'
  BY <1>1, <1>2, <1>4 DEF DatabaseInv, memVars, OnDisk, Differs, Live, IsCreated, Final
<1>11. InTransaction'
  BY <1>1, <1>3 DEF InTransaction
<1>12. Loading'
  <2>1. \A s \in Threads : pc'[s] = "load" => pc[s] = "load" /\ loc'[s] = loc[s]
    BY <1>1 DEF OnlyThread
  <2> QED
    BY <1>1, <1>2, <1>4, <2>1 DEF DatabaseInv, memVars, Loading, Live
<1> QED
  BY <1>5, <1>6, <1>7, <1>8, <1>9, <1>10, <1>11, <1>12 DEF DatabaseInv

(* Everything is saved: COMMIT makes the table what the objects are, and the objects count
   as saved. *)
LEMMA CommitFacts ==
    ASSUME DatabaseOK, DatabaseInv, NEW t \in Threads, Commit(t)
    PROVE  /\ \A x \in Objs : x \in loc[t].done <=> Contains(mCreated, x) \/ Contains(mModified, x)
           /\ obj' \in [Objs -> Objects \cup {None}] /\ Live' = Live
           /\ \A x \in Objs \ loc[t].done : obj'[x] = obj[x]
           /\ \A x \in Live : /\ obj'[x].id = obj[x].id /\ Final(x)' = Final(x)
                              /\ obj'[x].name.mRealValue = obj[x].name.mRealValue
                              /\ obj'[x].count.mValue = obj[x].count.mValue
           /\ \A x \in loc[t].done : /\ ~isModified(obj'[x].name) /\ ~isModified(obj'[x].count)
                                     /\ obj'[x].count.mDelta = 0
<1>1. /\ pc[t] = "all" /\ loc[t].todo = << >> /\ DatabaseTypeOK
      /\ obj' = [o \in Objs |->
                   IF Contains(mCreated \o mModified, o) THEN Clean(obj[o]) ELSE obj[o]]
  BY DEF Commit, DatabaseInv
<1>2. /\ loc[t].done \subseteq Live
      /\ \A x \in Objs : (x \in loc[t].done \/ Contains(loc[t].todo, x))
                           <=> (Contains(mCreated, x) \/ Contains(mModified, x))
  BY <1>1, AllFacts
<1>3. \A x \in Objs : x \in loc[t].done <=> Contains(mCreated, x) \/ Contains(mModified, x)
  <2>1. \A x : ~Contains(loc[t].todo, x)
    BY <1>1, EmptyContains
  <2> QED
    BY <1>2, <2>1
<1>4. \A x \in Objs : x \in loc[t].done <=> Contains(mCreated \o mModified, x)
  <2>1. mCreated \in Seq(Objs) /\ mModified \in Seq(Objs)
    BY <1>1 DEF DatabaseTypeOK
  <2> QED
    BY <1>3, <2>1, ConcatContains
<1>5. \A x \in Live : x \in Objs /\ obj[x] \in Objects /\ obj[x] # None
  BY <1>1 DEF DatabaseTypeOK, Live
<1>6. \A x \in Objs : obj'[x] = IF x \in loc[t].done THEN Clean(obj[x]) ELSE obj[x]
  BY <1>1, <1>4
<1>7. ASSUME NEW x \in loc[t].done
      PROVE  /\ obj'[x] \in Objects /\ obj'[x].id = obj[x].id /\ Final(x)' = Final(x)
             /\ obj'[x].name.mRealValue = obj[x].name.mRealValue
             /\ obj'[x].count.mValue = obj[x].count.mValue
             /\ ~isModified(obj'[x].name) /\ ~isModified(obj'[x].count)
             /\ obj'[x].count.mDelta = 0
  <2>1. x \in Objs /\ obj[x] \in Objects /\ obj'[x] = Clean(obj[x])
    BY <1>2, <1>5, <1>6
  <2>2. /\ Clean(obj[x]) \in Objects /\ Clean(obj[x]).id = obj[x].id
        /\ ~isModified(Clean(obj[x]).name) /\ ~isModified(Clean(obj[x]).count)
        /\ Clean(obj[x]).count.mDelta = 0
        /\ Clean(obj[x]).name.mRealValue = obj[x].name.mRealValue
        /\ Clean(obj[x]).count.mValue = obj[x].count.mValue
    BY <2>1, CleanLemma
  <2> QED
    BY <2>1, <2>2 DEF Final
<1>8. ASSUME NEW x \in Objs \ loc[t].done
      PROVE  obj'[x] = obj[x] /\ Final(x)' = Final(x)
  BY <1>6 DEF Final
<1>9. obj' \in [Objs -> Objects \cup {None}]
  <2>1. \A x \in Objs : obj'[x] \in Objects \cup {None}
    BY <1>1, <1>7, <1>8 DEF DatabaseTypeOK
  <2> QED
    BY <1>1, <2>1
<1>10. Live' = Live
  BY <1>2, <1>7, <1>8 DEF Live, DatabaseOK
<1> QED
  BY <1>3, <1>5, <1>7, <1>8, <1>9, <1>10

(* the created objects are in mObjects then *)
LEMMA CommitIndex ==
    ASSUME DatabaseOK, DatabaseInv, NEW t \in Threads, Commit(t)
    PROVE  /\ DOMAIN mObjects' \subseteq Ids
           /\ mObjects' = [i \in DOMAIN mObjects' |-> mObjects'[i]]
           /\ \A i \in DOMAIN mObjects : i \in DOMAIN mObjects' /\ mObjects'[i] = mObjects[i]
           /\ \A x \in Live : obj[x].id \in DOMAIN mObjects' /\ mObjects'[obj[x].id] = x
           /\ \A i \in DOMAIN mObjects' : mObjects'[i] \in Live /\ obj[mObjects'[i]].id = i
<1>1. mObjects' = [i \in DOMAIN mObjects \cup {obj[o].id : o \in ToSet(mCreated)} |->
           IF i \in DOMAIN mObjects THEN mObjects[i]
           ELSE CHOOSE o \in ToSet(mCreated) : obj[o].id = i]
  BY DEF Commit
<1>2. PICK S : S = ToSet(mCreated)
  OBVIOUS
<1>3. DatabaseTypeOK /\ mCreated \in Seq(Objs)
  BY DEF DatabaseInv, DatabaseTypeOK
<1>4. \A x : x \in S <=> Contains(mCreated, x)
  BY <1>2, <1>3 DEF ToSet, Contains
<1>5. S \subseteq Live
  <2>1. S \subseteq Objs
    BY <1>2, <1>3 DEF ToSet
  <2> QED
    BY <1>4, <2>1 DEF DatabaseInv, Indexed
<1>6. \A x, y \in Live : obj[x].id = obj[y].id => x = y
  BY DEF DatabaseInv, Indexed
<1>7. \A i \in DOMAIN mObjects : mObjects[i] \in Live /\ obj[mObjects[i]].id = i
  BY DEF DatabaseInv, Indexed
<1>8. \A x \in Live : x \in S <=> ~InTable(x)
  BY <1>4 DEF DatabaseInv, Indexed, IsCreated
<1>9. DOMAIN mObjects' = DOMAIN mObjects \cup {obj[o].id : o \in S}
  BY <1>1, <1>2
<1>10. ASSUME NEW i \in DOMAIN mObjects
       PROVE  i \in DOMAIN mObjects' /\ mObjects'[i] = mObjects[i]
  BY <1>1
<1>11. ASSUME NEW x \in S
       PROVE  obj[x].id \in DOMAIN mObjects' /\ mObjects'[obj[x].id] = x
  <2>1. obj[x].id \notin DOMAIN mObjects
    BY <1>5, <1>6, <1>7, <1>8 DEF InTable
  <2>2. mObjects'[obj[x].id] = CHOOSE o \in S : obj[o].id = obj[x].id
    BY <1>1, <1>2, <2>1
  <2>3. mObjects'[obj[x].id] \in S /\ obj[mObjects'[obj[x].id]].id = obj[x].id
    BY <2>2
  <2> QED
    BY <1>5, <1>6, <1>9, <2>3
<1>12. \A x \in Live : obj[x].id \in DOMAIN mObjects' /\ mObjects'[obj[x].id] = x
  BY <1>8, <1>10, <1>11 DEF InTable
<1>13. \A i \in DOMAIN mObjects' : mObjects'[i] \in Live /\ obj[mObjects'[i]].id = i
  BY <1>5, <1>7, <1>9, <1>10, <1>11
<1>14. DOMAIN mObjects' \subseteq Ids
  <2>1. \A x \in Live : obj[x].id \in Ids
    BY <1>3 DEF DatabaseTypeOK, Live, Objects
  <2> QED
    BY <1>13, <2>1
<1>15. mObjects' = [i \in DOMAIN mObjects' |-> mObjects'[i]]
  BY <1>1
<1> QED
  BY <1>10, <1>12, <1>13, <1>14, <1>15

(* saveObjects() commits its transaction *)
LEMMA CommitStep ==
    ASSUME DatabaseOK, DatabaseInv, NEW t \in Threads, Commit(t)
    PROVE  DatabaseInv'
<1>1. /\ pc[t] = "all" /\ disk' = rows /\ rows' = rows /\ inTx' = FALSE /\ DatabaseTypeOK
      /\ holder' = None /\ mAtomicOp' = FALSE /\ mCreated' = << >> /\ mModified' = << >>
      /\ OnlyThread(t) /\ pc'[t] = "idle"
  BY ReturnLemma DEF Commit, DatabaseInv
<1>2. /\ holder = t /\ \A x : ~Queried(x)
      /\ \A s \in Threads : pc[s] \notin Working /\ (pc[s] = "all" => s = t)
      /\ loc[t].done \subseteq Live
  BY <1>1, AllFacts
<1>3. PICK done : done = loc[t].done
  OBVIOUS
<1>4. /\ \A x \in Objs : x \in done <=> Contains(mCreated, x) \/ Contains(mModified, x)
      /\ obj' \in [Objs -> Objects \cup {None}] /\ Live' = Live
      /\ \A x \in Objs \ done : obj'[x] = obj[x]
      /\ \A x \in Live : /\ obj'[x].id = obj[x].id /\ Final(x)' = Final(x)
                         /\ obj'[x].name.mRealValue = obj[x].name.mRealValue
                         /\ obj'[x].count.mValue = obj[x].count.mValue
      /\ \A x \in done : /\ ~isModified(obj'[x].name) /\ ~isModified(obj'[x].count)
                         /\ obj'[x].count.mDelta = 0
  BY <1>3, CommitFacts
<1>5. /\ DOMAIN mObjects' \subseteq Ids
      /\ mObjects' = [i \in DOMAIN mObjects' |-> mObjects'[i]]
      /\ \A i \in DOMAIN mObjects : i \in DOMAIN mObjects' /\ mObjects'[i] = mObjects[i]
      /\ \A x \in Live : obj[x].id \in DOMAIN mObjects' /\ mObjects'[obj[x].id] = x
      /\ \A i \in DOMAIN mObjects' : mObjects'[i] \in Live /\ obj[mObjects'[i]].id = i
  BY CommitIndex
<1>6. /\ \A x : ~Contains(mCreated', x) /\ ~Contains(mModified', x)
      /\ IsInjective(mCreated') /\ IsInjective(mModified')
      /\ mCreated' \in Seq(Objs) /\ mModified' \in Seq(Objs)
  BY <1>1, EmptyContains
<1>7. \A s \in Threads : pc'[s] \notin Working /\ pc'[s] # "all"
  BY <1>1, <1>2 DEF OnlyThread, Working
<1>8. \A x : ~Queried(x)'
  BY <1>7 DEF Queried, Working
<1>9. \A x \in done : obj[x].id \in DOMAIN rows /\ rows[obj[x].id] = Final(x)
  BY <1>1, <1>3 DEF DatabaseInv, InTransaction
<1>10. \A i \in Ids : (\A x \in done : obj[x].id # i) =>
             (i \in DOMAIN rows <=> i \in DOMAIN disk) /\ (i \in DOMAIN disk => rows[i] = disk[i])
  BY <1>1, <1>3 DEF DatabaseInv, InTransaction
<1>11. \A x, y \in Live : obj[x].id = obj[y].id => x = y
  BY DEF DatabaseInv, Indexed
<1>12. DatabaseTypeOK'
  <2>1. LocalsOK(t)'
    BY <1>1 DEF LocalsOK
  <2> QED
    BY <1>1, <1>4, <1>5, <1>6, <2>1, OthersLocals, ZenonT(40)
       DEF DatabaseTypeOK, OnlyThread, IsTable
<1>13. Locked'
  BY <1>1, <1>7 DEF DatabaseOK, Locked, Working
<1>14. UsedByOne' /\ Gathered'
  BY <1>7 DEF UsedByOne, Gathered, Working
<1>15. Indexed'
  <2>1. \A x \in Live : ~IsCreated(x)' /\ InTable(x)'
    BY <1>4, <1>5, <1>6 DEF IsCreated, InTable
  <2>2. \A x, y \in Live : obj'[x].id = obj'[y].id => x = y
    BY <1>4, <1>11
  <2>3. \A i \in DOMAIN mObjects' : mObjects'[i] \in Live /\ obj'[mObjects'[i]].id = i
    BY <1>4, <1>5
  <2> QED
    BY <1>4, <1>6, <2>1, <2>2, <2>3 DEF Indexed
<1>16. \A x \in Live : Modified(Fields(x)') = {}
  <2>1. ASSUME NEW x \in Live, x \in done PROVE Modified(Fields(x)') = {}
    BY <1>4, <2>1 DEF Fields, Modified
  <2>2. ASSUME NEW x \in Live, x \notin done PROVE Modified(Fields(x)') = {}
    <3>1. x \in Objs /\ obj'[x] = obj[x] /\ ~Contains(mModified, x)
      BY <1>4, <2>2 DEF Live
    <3>2. Modified(Fields(x)) = {}
      BY <3>1 DEF DatabaseInv, Queued
    <3> QED
      BY <3>1, <3>2 DEF Fields
  <2> QED
    BY <2>1, <2>2
<1>17. Queued'
  BY <1>4, <1>16 DEF Queued
<1>18. OnDisk'
  <2>1. ASSUME NEW x \in Live PROVE Differs(x)'
    <3>1. CASE x \in done
      <4>1. obj[x].id \in DOMAIN rows /\ rows[obj[x].id] = Final(x)
        BY <1>9, <3>1
      <4>2. obj[x].count.mValue \in Int
        BY <1>1 DEF DatabaseTypeOK, Live, Objects, CountFields
      <4>3. rows[obj[x].id].count + 0 = obj[x].count.mValue
            /\ rows[obj[x].id].name = obj[x].name.mRealValue
        BY <4>1, <4>2 DEF Final
      <4> QED
        BY <1>1, <1>4, <1>6, <1>8, <3>1, <4>1, <4>3 DEF Differs, IsCreated
    <3>2. CASE x \notin done
      <4>1. x \in Objs /\ obj'[x] = obj[x] /\ ~IsCreated(x) /\ obj[x].id \in Ids
        BY <1>1, <1>4, <3>2 DEF IsCreated, Live, DatabaseTypeOK, Objects
      <4>2. Differs(x)
        BY DEF DatabaseInv, OnDisk
      <4>3. \A y \in done : obj[y].id # obj[x].id
        BY <1>2, <1>3, <1>11, <3>2
      <4>4. obj[x].id \in DOMAIN disk
        BY <1>2, <4>1, <4>2 DEF Differs
      <4>5. obj[x].id \in DOMAIN rows /\ rows[obj[x].id] = disk[obj[x].id]
        BY <1>10, <4>1, <4>3, <4>4
      <4> QED
        BY <1>1, <1>2, <1>6, <1>8, <4>1, <4>2, <4>5 DEF Differs, IsCreated
    <3> QED
      BY <3>1, <3>2
  <2> QED
    BY <1>4, <1>6, <2>1 DEF OnDisk, IsCreated
<1>19. InTransaction'
  BY <1>1, <1>7 DEF InTransaction
<1>20. Loading'
  <2>1. ASSUME NEW s \in Threads, pc'[s] = "load", NEW i \in DOMAIN loc'[s].rows
        PROVE  /\ i \in DOMAIN rows
               /\ \/ i \in DOMAIN mObjects'
                  \/ rows[i] = loc'[s].rows[i] /\ \A x \in Live : obj'[x].id # i
    <3>1. pc[s] = "load" /\ loc'[s] = loc[s]
      BY <1>1, <2>1 DEF OnlyThread
    <3>2. i \in Ids
      BY <1>1, <2>1, <3>1 DEF DatabaseTypeOK, LocalsOK, IsTable
    <3>3. /\ i \in DOMAIN disk
          /\ \/ i \in DOMAIN mObjects
             \/ disk[i] = loc[s].rows[i] /\ \A x \in Live : obj[x].id # i
      BY <1>2, <2>1, <3>1 DEF DatabaseInv, Loading
    <3>4. i \in DOMAIN rows
      BY <1>9, <1>10, <3>2, <3>3
    <3>5. (\A x \in Live : obj[x].id # i) => rows[i] = disk[i]
      BY <1>2, <1>3, <1>10, <3>2, <3>3
    <3> QED
      BY <1>4, <1>5, <3>1, <3>3, <3>4, <3>5
  <2> QED
    BY <1>1, <1>4, <2>1 DEF Loading
<1> QED
  BY <1>12, <1>13, <1>14, <1>15, <1>17, <1>18, <1>19, <1>20 DEF DatabaseInv

-----------------------------------------------------------------------------
(* No step of any thread, and no restart, breaks the invariant. *)
LEMMA StutterStep ==
    ASSUME DatabaseInv, UNCHANGED databaseVars
    PROVE  DatabaseInv'
<1> USE DEF databaseVars, dbVars, memVars
<1>1. DatabaseTypeOK'
  BY DEF DatabaseInv, DatabaseTypeOK, LocalsOK, IsTable
<1>2. Locked' /\ UsedByOne' /\ Gathered'
  BY DEF DatabaseInv, Locked, UsedByOne, Gathered, Live, IsCreated, Fields
<1>3. Indexed' /\ Queued'
  BY DEF DatabaseInv, Indexed, Queued, Live, IsCreated, InTable, Fields
<1>4. \A x : Queried(x)' <=> Queried(x)
  BY DEF Queried
<1>5. OnDisk' /\ Loading'
  BY <1>4 DEF DatabaseInv, OnDisk, Differs, Loading, Live, IsCreated, Final
<1>6. InTransaction'
  BY DEF DatabaseInv, InTransaction, Final
<1> QED
  BY <1>1, <1>2, <1>3, <1>5, <1>6 DEF DatabaseInv

(* Every step of every thread, a fault and a crash keep the invariant. *)
LEMMA DatabaseStep ==
    ASSUME DatabaseOK, DatabaseInv, [DatabaseNext]_databaseVars
    PROVE  DatabaseInv'
<1>1. ASSUME NEW t \in Threads, \/ CreateObject(t) \/ SetBegin(t) \/ SetEnd(t)
                                \/ SaveGather(t) \/ SaveLock(t) \/ SaveQuery(t)
      PROVE  DatabaseInv'
  BY <1>1, CreateObjectStep, SetBeginStep, SetEndStep, SaveGatherStep, SaveLockStep, SaveQueryStep
<1>2. ASSUME NEW t \in Threads, \/ SaveFails(t) \/ SaveRegister(t) \/ SaveObjects(t)
                                \/ SaveNext(t) \/ Commit(t) \/ Rollback(t)
      PROVE  DatabaseInv'
  BY <1>2, SaveFailsStep, SaveRegisterStep, SaveObjectsStep, SaveNextStep, CommitStep, RollbackStep
<1>3. ASSUME NEW t \in Threads, LoadQuery(t) \/ ConstructObject(t) \/ DeleteObject(t)
      PROVE  DatabaseInv'
  BY <1>3, LoadQueryStep, ConstructObjectStep, DeleteObjectStep
<1>4. CASE Restart
  BY <1>4, RestartStep
<1>5. CASE UNCHANGED databaseVars
  BY <1>5, StutterStep
<1> QED
  BY <1>1, <1>2, <1>3, <1>4, <1>5 DEF DatabaseNext

(* The invariant says at least what the run checks. *)
LEMMA IndexIsOneObject == ASSUME DatabaseInv PROVE OneObject
<1>1. DatabaseTypeOK /\ Indexed
  BY DEF DatabaseInv
<1>2. ASSUME NEW o \in Live
      PROVE  Contains(mCreated, o) #
               (obj[o].id \in DOMAIN mObjects /\ mObjects[obj[o].id] = o)
  BY <1>1 DEF Indexed, IsCreated, InTable, Contains
<1>3. ToSet(mCreated) \cup ToSet(mModified) \cup {mObjects[i] : i \in DOMAIN mObjects} \subseteq Live
  <2>1. \A o \in ToSet(mCreated) : o \in Objs /\ Contains(mCreated, o)
    BY <1>1 DEF DatabaseTypeOK, ToSet, Contains
  <2>2. \A o \in ToSet(mModified) : o \in Objs /\ Contains(mModified, o)
    BY <1>1 DEF DatabaseTypeOK, ToSet, Contains
  <2> QED
    BY <1>1, <2>1, <2>2 DEF Indexed
<1> QED
  BY <1>1, <1>2, <1>3 DEF OneObject, Indexed

(* An object that differs from its row will be saved: what the run checks. *)
LEMMA DiffersIsNothingLost == ASSUME DatabaseOK, DatabaseInv PROVE NothingLost
<1> SUFFICES ASSUME NEW i \in DOMAIN mObjects, NEW o, o = mObjects[i], ~InFlight(o)
             PROVE  /\ i \in DOMAIN rows
                    /\ rows[i].count + obj[o].count.mDelta = obj[o].count.mValue
                    /\ rows[i].name = obj[o].name.mRealValue \/ isModified(obj[o].name)
                    /\ Modified(Fields(o)) # {} => Contains(mModified, o)
  BY DEF NothingLost
<1>1. o \in Live /\ obj[o].id = i /\ o \in Objs /\ i \in Ids
  BY DEF DatabaseInv, Indexed, Live, DatabaseTypeOK
<1>2. ~IsCreated(o)
  BY <1>1 DEF DatabaseInv, Indexed, InTable
<1>3. ~Queried(o)
  BY DEF InFlight, Queried
<1>4. /\ i \in DOMAIN disk
      /\ disk[i].count + obj[o].count.mDelta = obj[o].count.mValue
      /\ disk[i].name = obj[o].name.mRealValue \/ isModified(obj[o].name)
  BY <1>1, <1>2, <1>3 DEF DatabaseInv, OnDisk, Differs
<1>5. i \in DOMAIN rows /\ rows[i] = disk[i]
  <2>1. CASE ~inTx
    BY <1>4, <2>1 DEF DatabaseInv, InTransaction
  <2>2. CASE inTx
    <3>1. PICK t \in Threads : pc[t] = "all"
      BY <2>2 DEF DatabaseInv, Locked
    <3>2. ~Contains(Todo, o)
      BY <3>1 DEF InFlight
    <3>3. ~Contains(mCreated, o) /\ ~Contains(mModified, o)
      <4>1. mCreated \in Seq(Objs) /\ mModified \in Seq(Objs)
        BY DEF DatabaseInv, DatabaseTypeOK
      <4> QED
        BY <3>2, <4>1, ConcatContains DEF Todo
    <3>4. /\ o \notin loc[t].done /\ loc[t].done \subseteq Live
      BY <1>1, <3>1, <3>3, AllFacts
    <3>5. \A x \in loc[t].done : obj[x].id # i
      BY <1>1, <3>4 DEF DatabaseInv, Indexed
    <3> QED
      BY <1>1, <1>4, <3>1, <3>5 DEF DatabaseInv, InTransaction
  <2> QED
    BY <2>1, <2>2
<1>6. Modified(Fields(o)) # {} => Contains(mModified, o)
  BY <1>1 DEF DatabaseInv, Queued
<1> QED
  BY <1>4, <1>5, <1>6

(* Without the lock there is no transaction: what the run checks. *)
LEMMA LockedIsNoOpenTransaction == ASSUME DatabaseInv PROVE NoOpenTransaction
BY DEF DatabaseInv, Locked, InTransaction, NoOpenTransaction

(* However many threads create, load, change, save and delete however many objects: each is
   in exactly one of mCreated and mObjects, there is no second object with its id, and the
   queues hold no object that was deleted. *)
THEOREM ObjectsAreUnique == ASSUME DatabaseOK PROVE DatabaseSpec => []OneObject
<1>1. DatabaseInit => DatabaseInv
  BY StartStep
<1>2. DatabaseInv /\ [DatabaseNext]_databaseVars => DatabaseInv'
  BY DatabaseStep
<1>3. DatabaseInv => OneObject
  BY IndexIsOneObject
<1> QED
  BY <1>1, <1>2, <1>3, PTL DEF DatabaseSpec

(* Whatever fails, in Save(), SaveObjects() or the program: an object whose thread is not
   just saving it differs from its row by what the next save will send and by nothing else,
   and it is queued for that save. *)
THEOREM NoChangeIsLost == ASSUME DatabaseOK PROVE DatabaseSpec => []NothingLost
<1>1. DatabaseInit => DatabaseInv
  BY StartStep
<1>2. DatabaseInv /\ [DatabaseNext]_databaseVars => DatabaseInv'
  BY DatabaseStep
<1>3. DatabaseInv => NothingLost
  BY DiffersIsNothingLost
<1> QED
  BY <1>1, <1>2, <1>3, PTL DEF DatabaseSpec

(* SqliteDatabase has a transaction open only while a thread is in SaveObjects(), which
   ends it however it ends. *)
THEOREM TransactionsEnd == ASSUME DatabaseOK PROVE DatabaseSpec => []NoOpenTransaction
<1>1. DatabaseInit => DatabaseInv
  BY StartStep
<1>2. DatabaseInv /\ [DatabaseNext]_databaseVars => DatabaseInv'
  BY DatabaseStep
<1>3. DatabaseInv => NoOpenTransaction
  BY LockedIsNoOpenTransaction
<1> QED
  BY <1>1, <1>2, <1>3, PTL DEF DatabaseSpec

(* only the end of SaveObjects() and the end of the program clear mAtomicOp *)
LEMMA EndsOfSaveObjects ==
    ASSUME DatabaseOK, DatabaseInv, DatabaseNext, mAtomicOp, ~mAtomicOp'
    PROVE  (\E t \in Threads : Commit(t) \/ Rollback(t)) \/ Restart
<1>1. ASSUME NEW t \in Threads, \/ CreateObject(t) \/ SetBegin(t) \/ SetEnd(t)
                                \/ SaveGather(t) \/ SaveLock(t) \/ SaveQuery(t)
                                \/ SaveFails(t) \/ SaveRegister(t) \/ SaveNext(t)
                                \/ LoadQuery(t) \/ ConstructObject(t) \/ DeleteObject(t)
      PROVE  UNCHANGED mAtomicOp
  BY <1>1 DEF CreateObject, SetBegin, SetEnd, SaveGather, SaveLock, SaveQuery, SaveFails,
              SaveRegister, SaveNext, LoadQuery, ConstructObject, DeleteObject
<1>2. ASSUME NEW t \in Threads, SaveObjects(t) PROVE mAtomicOp' = mAtomicOp \/ mAtomicOp' = TRUE
  BY <1>2 DEF SaveObjects
<1> QED
  BY <1>1, <1>2 DEF DatabaseNext

(* what a transaction has saved when it ends *)
LEMMA SavesAll ==
    ASSUME DatabaseOK, DatabaseInv, NEW t \in Threads, Commit(t)
    PROVE  /\ mCreated' = << >> /\ mModified' = << >>
           /\ \A o \in Live : /\ obj'[o].id \in DOMAIN disk'
                              /\ disk'[obj'[o].id] = [name |-> obj'[o].name.mRealValue,
                                                      count |-> obj'[o].count.mValue]
<1>1. pc[t] = "all" /\ disk' = rows /\ mCreated' = << >> /\ mModified' = << >>
  BY DEF Commit
<1>2. PICK done : done = loc[t].done
  OBVIOUS
<1>3. /\ \A x \in Objs : x \in done <=> Contains(mCreated, x) \/ Contains(mModified, x)
      /\ \A x \in Live : obj'[x].id = obj[x].id /\ Final(x)' = Final(x)
  BY <1>2, CommitFacts
<1>4. /\ \A x : ~Queried(x)
      /\ done \subseteq Live
  BY <1>1, <1>2, AllFacts
<1>5. ASSUME NEW o \in Live
      PROVE  obj[o].id \in DOMAIN rows /\ rows[obj[o].id] = Final(o)
  <2>1. CASE o \in done
    BY <1>1, <1>2, <2>1 DEF DatabaseInv, InTransaction
  <2>2. CASE o \notin done
    <3>1. o \in Objs /\ ~Contains(mCreated, o) /\ ~Contains(mModified, o)
      BY <1>3, <2>2 DEF Live
    <3>2. obj[o] \in Objects
      BY <3>1 DEF Live, DatabaseInv, DatabaseTypeOK
    <3>3. \A x \in done : obj[x].id # obj[o].id
      BY <1>4, <2>2 DEF DatabaseInv, Indexed
    <3>4. obj[o].id \in Ids /\ IsTable(disk)
      BY <3>2 DEF Objects, DatabaseInv, DatabaseTypeOK
    <3>5. /\ obj[o].id \in DOMAIN disk
          /\ disk[obj[o].id].count + obj[o].count.mDelta = obj[o].count.mValue
          /\ disk[obj[o].id].name = obj[o].name.mRealValue \/ isModified(obj[o].name)
      BY <1>4, <3>1 DEF IsCreated, DatabaseInv, OnDisk, Differs
    <3>6. ~isModified(obj[o].name) /\ ~isModified(obj[o].count)
      <4>1. Modified(Fields(o)) = {}
        BY <3>1 DEF DatabaseInv, Queued
      <4>2. Fields(o).name = obj[o].name /\ Fields(o).count = obj[o].count
        BY DEF Fields
      <4> QED
        BY <4>1, <4>2, ModifiedLemma
    <3>7. obj[o].count.mDelta = 0
      BY <3>2, <3>6 DEF Objects, CountFields, isModified
    <3>8. disk[obj[o].id] \in Rows /\ obj[o].count.mValue \in Int
      BY <3>2, <3>4, <3>5 DEF IsTable, Objects, CountFields
    <3>9. /\ disk[obj[o].id].count = obj[o].count.mValue
          /\ disk[obj[o].id].name = obj[o].name.mRealValue
      BY <3>5, <3>6, <3>7, <3>8 DEF Rows
    <3>10. disk[obj[o].id] = Final(o)
      BY <3>8, <3>9 DEF Rows, Final
    <3> QED
      BY <1>1, <1>2, <3>3, <3>4, <3>5, <3>10 DEF DatabaseInv, InTransaction
  <2> QED
    BY <2>1, <2>2
<1>6. \A o \in Live : Final(o)' = [name |-> obj'[o].name.mRealValue, count |-> obj'[o].count.mValue]
  BY DEF Final
<1> QED
  BY <1>1, <1>3, <1>5, <1>6

(* "If an exception is thrown, nothing is changed": SaveObjects() leaves the database and
   the objects as they were, or every object is in the database as its users see it. *)
THEOREM SavesAreAtomic == ASSUME DatabaseOK PROVE DatabaseSpec => AllOrNothing
<1>1. DatabaseInit => DatabaseInv
  BY StartStep
<1>2. DatabaseInv /\ [DatabaseNext]_databaseVars => DatabaseInv'
  BY DatabaseStep
<1>3. DatabaseInv /\ [DatabaseNext]_databaseVars => [SavesAllOrNothing]_databaseVars
  <2> SUFFICES ASSUME DatabaseInv, DatabaseNext, mAtomicOp, ~mAtomicOp' PROVE SavesAllOrNothing
    BY DEF SavesAllOrNothing
  <2>1. CASE Restart
    BY <2>1 DEF Restart, SavesAllOrNothing
  <2>2. ASSUME NEW t \in Threads, Rollback(t) PROVE SavesAllOrNothing
    BY <2>2 DEF Rollback, SavesAllOrNothing
  <2>3. ASSUME NEW t \in Threads, Commit(t) PROVE SavesAllOrNothing
    BY <2>3, SavesAll DEF SavesAllOrNothing
  <2> QED
    BY <2>1, <2>2, <2>3, EndsOfSaveObjects
<1> QED
  BY <1>1, <1>2, <1>3, PTL DEF DatabaseSpec, AllOrNothing

-----------------------------------------------------------------------------
(* A field and its column.  A counter is counted up; NULL is no value, and neither it nor
   the empty string is the id of an object. *)
FieldOK ==
    /\ FieldDeltas \subseteq Nat
    /\ Null \notin FieldValues \cup RefIds \cup {Zero} \cup [id : RefIds, address : Nat]
    /\ Zero \notin RefIds

ScalarValues == FieldValues \cup {Zero}
NullScalarFields == [type : {"NullScalar"}, mDelta : Nat, mTempNull : BOOLEAN,
                     mTempValue : ScalarValues, mRealNull : BOOLEAN, mRealValue : ScalarValues]
ScalarFields == [type : {"Scalar"}, mDelta : Nat, mTempInitd : BOOLEAN,
                 mTempValue : ScalarValues, mRealInitd : BOOLEAN, mRealValue : ScalarValues]
JsonFields == [type : {"Json"}, mDelta : Nat, mJsonPtr : FieldValues \cup {Null}]
Targets == [id : RefIds, address : Nat]
RefFields == [type : {"NullRef", "Ref"}, mDelta : Nat, mObjId : RefIds \cup {Null},
              mObjPtr : Targets \cup {Null}]

(* Real, of a field f *)
RealOf(f) ==
    CASE f.type = "NullScalar" -> NullScalarTryGet(f, FALSE)
      [] f.type = "Scalar" -> IF ScalarInitialized(f, FALSE) THEN ScalarGet(f, FALSE) ELSE Null
      [] f.type = "Counter" -> f.mValue
      [] OTHER -> GetDBValue(f)

(* f with the value c of its column: s says whether the column was ever stored, l is what the
   owner set last *)
KindOK(f, c, s) ==
    \/ f \in NullScalarFields /\ c \in ScalarValues \cup {Null}
    \/ f \in ScalarFields /\ c \in ScalarValues \cup {Null}
    \/ f \in CountFields /\ (s => c \in Int)
    \/ f \in JsonFields /\ c \in FieldValues \cup {Null}
    \/ f \in RefFields /\ c \in RefIds \cup {Null}

Base(f, c, s) == IF s THEN c ELSE IF f.type = "Counter" THEN 0 ELSE Null
Same(f, b) == b = RealOf(f) \/ (f.type = "NullScalar" /\ is_null(b) /\ RealOf(f) = Null)

Kept(f, c, s, l) ==
    /\ s \in BOOLEAN /\ (~s => c = Null) /\ KindOK(f, c, s)
    /\ ~isModified(f) => Same(f, Base(f, c, s))
    /\ f.type = "Counter" => Base(f, c, s) + f.mDelta = f.mValue
    /\ f.type = "Scalar" /\ isModified(f) => f.mRealInitd
    /\ RealOf(f) = l \/ (f.type = "NullScalar" /\ f.mRealNull /\ f.mRealValue = l)

PointsTo(f, objects) ==
    f.type \in {"NullRef", "Ref"} /\ f.mObjPtr # Null => f.mObjPtr \in objects
                                                        /\ f.mObjPtr.id = f.mObjId

FieldInv ==
    /\ Kept(field, column, saved, last) /\ PointsTo(field, target)
    /\ target \subseteq Targets /\ \A id \in RefIds : \E x \in target : x.id = id

(* what the database has to get for each kind of field *)
LEMMA RealOfKinds ==
    ASSUME NEW f
    PROVE  /\ f \in NullScalarFields => /\ f.type = "NullScalar"
                                        /\ RealOf(f) = IF f.mRealNull THEN Null ELSE f.mRealValue
           /\ f \in ScalarFields => /\ f.type = "Scalar"
                                    /\ RealOf(f) = IF f.mRealInitd THEN f.mRealValue ELSE Null
           /\ f \in CountFields => f.type = "Counter" /\ RealOf(f) = f.mValue
           /\ f \in JsonFields => f.type = "Json" /\ RealOf(f) = f.mJsonPtr
           /\ f \in RefFields => f.type \in {"NullRef", "Ref"} /\ RealOf(f) = f.mObjId
           /\ f.type = "NullScalar" /\ KindOK(f, Null, FALSE) => f \in NullScalarFields
<1>1. f \in NullScalarFields => /\ f.type = "NullScalar"
                                /\ RealOf(f) = IF f.mRealNull THEN Null ELSE f.mRealValue
  BY DEF NullScalarFields, RealOf, NullScalarTryGet, NullScalarGetDBValue
<1>2. f \in ScalarFields => /\ f.type = "Scalar"
                            /\ RealOf(f) = IF f.mRealInitd THEN f.mRealValue ELSE Null
  BY DEF ScalarFields, RealOf, ScalarInitialized, ScalarGet
<1>3. f \in CountFields => f.type = "Counter" /\ RealOf(f) = f.mValue
  BY DEF CountFields, RealOf
<1>4. f \in JsonFields => f.type = "Json" /\ RealOf(f) = f.mJsonPtr
  BY DEF JsonFields, RealOf, GetDBValue, JsonGetDBValue
<1>5. f \in RefFields => f.type \in {"NullRef", "Ref"} /\ RealOf(f) = f.mObjId
  BY DEF RefFields, RealOf, GetDBValue, RefGetDBValue
<1>6. f.type = "NullScalar" /\ KindOK(f, Null, FALSE) => f \in NullScalarFields
  BY <1>2, <1>3, <1>4, <1>5 DEF KindOK
<1> QED
  BY <1>1, <1>2, <1>3, <1>4, <1>5, <1>6

(* which kind a field is of, by its type *)
LEMMA KindOfType ==
    ASSUME NEW f, NEW c, NEW s, KindOK(f, c, s)
    PROVE  /\ f.type = "NullScalar" => f \in NullScalarFields /\ c \in ScalarValues \cup {Null}
           /\ f.type = "Scalar" => f \in ScalarFields /\ c \in ScalarValues \cup {Null}
           /\ f.type = "Counter" => f \in CountFields /\ (s => c \in Int)
           /\ f.type = "Json" => f \in JsonFields /\ c \in FieldValues \cup {Null}
           /\ f.type \in {"NullRef", "Ref"} => f \in RefFields /\ c \in RefIds \cup {Null}
           /\ f.mDelta \in Nat
<1>1. /\ f \in NullScalarFields => f.type = "NullScalar" /\ f.mDelta \in Nat
      /\ f \in ScalarFields => f.type = "Scalar" /\ f.mDelta \in Nat
      /\ f \in CountFields => f.type = "Counter" /\ f.mDelta \in Nat
      /\ f \in JsonFields => f.type = "Json" /\ f.mDelta \in Nat
      /\ f \in RefFields => f.type \in {"NullRef", "Ref"} /\ f.mDelta \in Nat
  BY DEF NullScalarFields, ScalarFields, CountFields, JsonFields, RefFields
<1> QED
  BY <1>1 DEF KindOK

(* NullScalarType::SetValue(), SetNull() *)
LEMMA NullScalarSetLemma ==
    ASSUME NEW f \in NullScalarFields, NEW v \in FieldValues, NEW isTemp \in BOOLEAN
    PROVE  /\ NullScalarSet(f, v, isTemp) \in NullScalarFields
           /\ isTemp \/ f.mRealValue = v =>
                /\ NullScalarSet(f, v, isTemp).mDelta = f.mDelta
                /\ NullScalarSet(f, v, isTemp).mRealNull = f.mRealNull
                /\ NullScalarSet(f, v, isTemp).mRealValue = f.mRealValue
           /\ ~isTemp /\ f.mRealValue # v =>
                /\ NullScalarSet(f, v, isTemp).mDelta = f.mDelta + 1
                /\ ~NullScalarSet(f, v, isTemp).mRealNull
                /\ NullScalarSet(f, v, isTemp).mRealValue = v
<1> DEFINE temp == [f EXCEPT !.mTempNull = FALSE, !.mTempValue = v]
           new == [temp EXCEPT !.mRealNull = FALSE, !.mRealValue = v, !.mDelta = @ + 1]
<1>1. /\ temp \in NullScalarFields /\ temp.mDelta = f.mDelta
      /\ temp.mRealNull = f.mRealNull /\ temp.mRealValue = f.mRealValue
  BY DEF NullScalarFields, ScalarValues
<1>2. temp.mDelta + 1 \in Nat
  BY <1>1 DEF NullScalarFields
<1>3. /\ new \in NullScalarFields /\ new.mDelta = f.mDelta + 1
      /\ ~new.mRealNull /\ new.mRealValue = v
  <2> HIDE DEF temp
  <2>1. PICK d \in Nat : d = temp.mDelta + 1
    BY <1>2
  <2>2. new = [temp EXCEPT !.mRealNull = FALSE, !.mRealValue = v, !.mDelta = d]
    BY <2>1
  <2> QED
    BY <1>1, <2>1, <2>2 DEF NullScalarFields, ScalarValues
<1>4. NullScalarSet(f, v, isTemp) = IF ~isTemp /\ f.mRealValue # v THEN new ELSE temp
  BY DEF NullScalarSet, NullScalarDiffers
<1> HIDE DEF new, temp
<1> QED
  BY <1>1, <1>3, <1>4

(* a field of type NullScalar that is set to null *)
LEMMA NullScalarSetNullLemma ==
    ASSUME NEW f \in NullScalarFields, NEW isTemp \in BOOLEAN
    PROVE  /\ NullScalarSetNull(f, isTemp) \in NullScalarFields
           /\ NullScalarSetNull(f, isTemp).mRealValue = f.mRealValue
           /\ isTemp \/ f.mRealNull =>
                /\ NullScalarSetNull(f, isTemp).mDelta = f.mDelta
                /\ NullScalarSetNull(f, isTemp).mRealNull = f.mRealNull
           /\ ~isTemp /\ ~f.mRealNull =>
                /\ NullScalarSetNull(f, isTemp).mDelta = f.mDelta + 1
                /\ NullScalarSetNull(f, isTemp).mRealNull
<1> DEFINE temp == [f EXCEPT !.mTempNull = TRUE]
           new == [temp EXCEPT !.mRealNull = TRUE, !.mDelta = @ + 1]
<1>1. /\ temp \in NullScalarFields /\ temp.mDelta = f.mDelta
      /\ temp.mRealNull = f.mRealNull /\ temp.mRealValue = f.mRealValue
  BY DEF NullScalarFields
<1>2. temp.mDelta + 1 \in Nat
  BY <1>1 DEF NullScalarFields
<1>3. /\ new \in NullScalarFields /\ new.mDelta = f.mDelta + 1
      /\ new.mRealNull /\ new.mRealValue = f.mRealValue
  <2> HIDE DEF temp
  <2>1. PICK d \in Nat : d = temp.mDelta + 1
    BY <1>2
  <2>2. new = [temp EXCEPT !.mRealNull = TRUE, !.mDelta = d]
    BY <2>1
  <2> QED
    BY <1>1, <2>1, <2>2 DEF NullScalarFields
<1>4. NullScalarSetNull(f, isTemp) = IF ~isTemp /\ ~f.mRealNull THEN new ELSE temp
  BY DEF NullScalarSetNull
<1> HIDE DEF new, temp
<1> QED
  BY <1>1, <1>3, <1>4

(* ScalarType::SetValue() *)
LEMMA FieldScalarSetLemma ==
    ASSUME NEW f \in ScalarFields, NEW v \in FieldValues, NEW isTemp \in BOOLEAN
    PROVE  /\ ScalarSet(f, v, isTemp) \in ScalarFields
           /\ isTemp \/ (f.mRealInitd /\ f.mRealValue = v) =>
                /\ ScalarSet(f, v, isTemp).mDelta = f.mDelta
                /\ ScalarSet(f, v, isTemp).mRealInitd = f.mRealInitd
                /\ ScalarSet(f, v, isTemp).mRealValue = f.mRealValue
           /\ ~(isTemp \/ (f.mRealInitd /\ f.mRealValue = v)) =>
                /\ ScalarSet(f, v, isTemp).mDelta = f.mDelta + 1
                /\ ScalarSet(f, v, isTemp).mRealInitd
                /\ ScalarSet(f, v, isTemp).mRealValue = v
<1> DEFINE temp == [f EXCEPT !.mTempInitd = TRUE, !.mTempValue = v]
           new == [temp EXCEPT !.mRealInitd = TRUE, !.mRealValue = v, !.mDelta = @ + 1]
<1>1. /\ temp \in ScalarFields /\ temp.mDelta = f.mDelta
      /\ temp.mRealInitd = f.mRealInitd /\ temp.mRealValue = f.mRealValue
  BY DEF ScalarFields, ScalarValues
<1>2. temp.mDelta + 1 \in Nat
  BY <1>1 DEF ScalarFields
<1>3. /\ new \in ScalarFields /\ new.mDelta = f.mDelta + 1
      /\ new.mRealInitd /\ new.mRealValue = v
  <2> HIDE DEF temp
  <2>1. PICK d \in Nat : d = temp.mDelta + 1
    BY <1>2
  <2>2. new = [temp EXCEPT !.mRealInitd = TRUE, !.mRealValue = v, !.mDelta = d]
    BY <2>1
  <2> QED
    BY <1>1, <2>1, <2>2 DEF ScalarFields, ScalarValues
<1>4. ScalarSet(f, v, isTemp) =
        IF ~isTemp /\ (~f.mRealInitd \/ f.mRealValue # v) THEN new ELSE temp
  BY DEF ScalarSet
<1> HIDE DEF new, temp
<1> QED
  BY <1>1, <1>3, <1>4

(* JsonType::SetJson() *)
LEMMA SetJsonLemma ==
    ASSUME NEW f \in JsonFields, NEW v \in FieldValues \cup {Null}
    PROVE  /\ SetJson(f, v) \in JsonFields /\ SetJson(f, v).mDelta = f.mDelta + 1
           /\ SetJson(f, v).mJsonPtr = v
<1>1. PICK d \in Nat : d = f.mDelta + 1
  BY DEF JsonFields
<1>2. SetJson(f, v) = [f EXCEPT !.mDelta = d, !.mJsonPtr = v]
  BY <1>1 DEF SetJson
<1> QED
  BY <1>1, <1>2 DEF JsonFields

(* NullObjectRef::SetObject() *)
LEMMA SetObjectLemma ==
    ASSUME NEW f \in RefFields, NEW object \in Targets
    PROVE  /\ SetObject(f, object) \in RefFields
           /\ SetObject(f, object).mObjId = object.id
           /\ SetObject(f, object).mObjPtr = object
           /\ f.mObjId = object.id => SetObject(f, object).mDelta = f.mDelta
           /\ f.mObjId # object.id => SetObject(f, object).mDelta = f.mDelta + 1
<1> DEFINE cached == [f EXCEPT !.mObjPtr = object]
           new == [cached EXCEPT !.mObjId = object.id, !.mDelta = @ + 1]
<1>1. /\ cached \in RefFields /\ cached.mDelta = f.mDelta /\ cached.mObjId = f.mObjId
      /\ cached.mObjPtr = object
  BY DEF RefFields
<1>2. cached.mDelta + 1 \in Nat /\ object.id \in RefIds
  BY <1>1 DEF RefFields, Targets
<1>3. /\ new \in RefFields /\ new.mDelta = f.mDelta + 1 /\ new.mObjId = object.id
      /\ new.mObjPtr = object
  <2> HIDE DEF cached
  <2>1. PICK d \in Nat, id \in RefIds : d = cached.mDelta + 1 /\ id = object.id
    BY <1>2
  <2>2. new = [cached EXCEPT !.mObjId = id, !.mDelta = d]
    BY <2>1
  <2> QED
    BY <1>1, <2>1, <2>2 DEF RefFields
<1>4. SetObject(f, object) = IF f.mObjId = object.id THEN cached ELSE new
  BY DEF SetObject
<1> HIDE DEF new, cached
<1> QED
  BY <1>1, <1>3, <1>4

(* an object reference that is set to null *)
LEMMA SetObjectNullLemma ==
    ASSUME NEW f \in RefFields
    PROVE  /\ SetObjectNull(f) \in RefFields
           /\ f.mObjId = Null => SetObjectNull(f) = f
           /\ f.mObjId # Null => /\ SetObjectNull(f).mDelta = f.mDelta + 1
                                 /\ SetObjectNull(f).mObjId = Null
                                 /\ SetObjectNull(f).mObjPtr = Null
<1>1. CASE f.mObjId = Null
  BY <1>1 DEF SetObjectNull
<1>2. CASE f.mObjId # Null
  <2>1. PICK d \in Nat : d = f.mDelta + 1
    BY DEF RefFields
  <2>2. SetObjectNull(f) = [f EXCEPT !.mObjId = Null, !.mObjPtr = Null, !.mDelta = d]
    BY <1>2, <2>1 DEF SetObjectNull
  <2> QED
    BY <1>2, <2>1, <2>2 DEF RefFields
<1> QED
  BY <1>1, <1>2

-----------------------------------------------------------------------------
(* Each setter leaves a field that is modified, or one that has the value it had; the owner
   finds what was set. *)
LEMMA KeptNullScalar ==
    ASSUME FieldOK, NEW f \in NullScalarFields, NEW c, NEW s, NEW l, Kept(f, c, s, l),
           NEW g \in NullScalarFields, NEW m,
           \/ /\ g.mDelta = f.mDelta /\ g.mRealNull = f.mRealNull /\ g.mRealValue = f.mRealValue
              /\ m = l \/ m = RealOf(f) \/ (f.mRealNull /\ m = f.mRealValue)
           \/ g.mDelta = f.mDelta + 1 /\ m = RealOf(g)
    PROVE  Kept(g, c, s, m)
<1>1. /\ f.type = "NullScalar" /\ g.type = "NullScalar"
      /\ RealOf(f) = IF f.mRealNull THEN Null ELSE f.mRealValue
      /\ RealOf(g) = IF g.mRealNull THEN Null ELSE g.mRealValue
  BY RealOfKinds
<1>2. KindOK(g, c, s)
  BY <1>1, KindOfType DEF Kept, KindOK
<1>3. Base(g, c, s) = Base(f, c, s)
  BY <1>1 DEF Base
<1>4. f.mDelta \in Nat
  BY DEF NullScalarFields
<1>5. CASE /\ g.mDelta = f.mDelta /\ g.mRealNull = f.mRealNull /\ g.mRealValue = f.mRealValue
           /\ m = l \/ m = RealOf(f) \/ (f.mRealNull /\ m = f.mRealValue)
  BY <1>1, <1>2, <1>3, <1>5 DEF Kept, Same, isModified
<1>6. CASE g.mDelta = f.mDelta + 1 /\ m = RealOf(g)
  BY <1>1, <1>2, <1>3, <1>4, <1>6 DEF Kept, isModified
<1> QED
  BY <1>5, <1>6

(* the same for the other kinds: nothing is done, or the field is modified *)
LEMMA KeptOther ==
    ASSUME FieldOK, NEW f, NEW c, NEW s, NEW l, Kept(f, c, s, l), NEW g, NEW m, KindOK(g, c, s),
           g.type = f.type, f.type \notin {"NullScalar", "Counter"},
           f.type = "Scalar" /\ isModified(g) => g.mRealInitd,
           \/ g.mDelta = f.mDelta /\ RealOf(g) = RealOf(f) /\ (m = l \/ m = RealOf(f))
           \/ g.mDelta = f.mDelta + 1 /\ m = RealOf(g)
    PROVE  Kept(g, c, s, m)
<1>1. Base(g, c, s) = Base(f, c, s)
  BY DEF Base
<1>2. f.mDelta \in Nat
  BY KindOfType DEF Kept
<1>3. CASE g.mDelta = f.mDelta /\ RealOf(g) = RealOf(f) /\ (m = l \/ m = RealOf(f))
  BY <1>1, <1>3 DEF Kept, Same, isModified
<1>4. CASE g.mDelta = f.mDelta + 1 /\ m = RealOf(g)
  BY <1>1, <1>2, <1>4 DEF Kept, isModified
<1> QED
  BY <1>3, <1>4

(* SetValue of a scalar field *)
LEMMA SetScalarStep == ASSUME FieldOK, FieldInv, SetScalar PROVE FieldInv'
<1>1. PICK v \in FieldValues, isTemp \in BOOLEAN :
        \E g, m :
          /\ \/ field.type = "NullScalar" /\ g = NullScalarSet(field, v, isTemp)
             \/ field.type = "Scalar" /\ g = ScalarSet(field, v, isTemp)
          /\ m = IF isTemp THEN last ELSE v
          /\ field' = g /\ last' = m /\ UNCHANGED <<column, saved, target>>
  BY DEF SetScalar, Assign
<1>2. PICK g, m :
        /\ \/ field.type = "NullScalar" /\ g = NullScalarSet(field, v, isTemp)
           \/ field.type = "Scalar" /\ g = ScalarSet(field, v, isTemp)
        /\ m = IF isTemp THEN last ELSE v
        /\ field' = g /\ last' = m /\ UNCHANGED <<column, saved, target>>
  BY <1>1
<1>3. Kept(field, column, saved, last) /\ KindOK(field, column, saved)
  BY DEF FieldInv, Kept
<1>4. Kept(g, column, saved, m) /\ g.type \notin {"NullRef", "Ref"}
  <2>1. CASE field.type = "NullScalar"
    <3>1. field \in NullScalarFields /\ g = NullScalarSet(field, v, isTemp)
      BY <1>2, <1>3, <2>1, KindOfType
    <3>2. g \in NullScalarFields /\ g.type = "NullScalar"
      BY <3>1, NullScalarSetLemma DEF NullScalarFields
    <3>3. \/ /\ g.mDelta = field.mDelta /\ g.mRealNull = field.mRealNull
             /\ g.mRealValue = field.mRealValue /\ (isTemp \/ field.mRealValue = v)
          \/ g.mDelta = field.mDelta + 1 /\ ~g.mRealNull /\ g.mRealValue = v /\ ~isTemp
      BY <3>1, NullScalarSetLemma
    <3>4. /\ RealOf(g) = IF g.mRealNull THEN Null ELSE g.mRealValue
          /\ RealOf(field) = IF field.mRealNull THEN Null ELSE field.mRealValue
      BY <3>1, <3>2, RealOfKinds
    <3>5. CASE /\ g.mDelta = field.mDelta /\ g.mRealNull = field.mRealNull
               /\ g.mRealValue = field.mRealValue /\ (isTemp \/ field.mRealValue = v)
      <4>1. m = last \/ m = RealOf(field) \/ (field.mRealNull /\ m = field.mRealValue)
        BY <1>2, <3>4, <3>5
      <4> QED
        BY <1>3, <3>1, <3>2, <3>5, <4>1, KeptNullScalar
    <3>6. CASE g.mDelta = field.mDelta + 1 /\ ~g.mRealNull /\ g.mRealValue = v /\ ~isTemp
      <4>1. m = RealOf(g)
        BY <1>2, <3>4, <3>6
      <4> QED
        BY <1>3, <3>1, <3>2, <3>6, <4>1, KeptNullScalar
    <3> QED
      BY <3>3, <3>5, <3>6
  <2>2. CASE field.type = "Scalar"
    <3>1. /\ field \in ScalarFields /\ g = ScalarSet(field, v, isTemp)
          /\ column \in ScalarValues \cup {Null}
      BY <1>2, <1>3, <2>2, KindOfType
    <3>2. g \in ScalarFields /\ g.type = "Scalar" /\ KindOK(g, column, saved)
      BY <3>1, FieldScalarSetLemma DEF ScalarFields, KindOK
    <3>3. /\ RealOf(g) = IF g.mRealInitd THEN g.mRealValue ELSE Null
          /\ RealOf(field) = IF field.mRealInitd THEN field.mRealValue ELSE Null
      BY <3>1, <3>2, RealOfKinds
    <3>4. CASE isTemp \/ (field.mRealInitd /\ field.mRealValue = v)
      <4>1. /\ g.mDelta = field.mDelta /\ g.mRealInitd = field.mRealInitd
            /\ g.mRealValue = field.mRealValue
        BY <3>1, <3>4, FieldScalarSetLemma
      <4>2. RealOf(g) = RealOf(field) /\ (m = last \/ m = RealOf(field))
        BY <1>2, <3>3, <3>4, <4>1
      <4>3. isModified(g) => g.mRealInitd
        BY <1>3, <2>2, <4>1 DEF Kept, isModified
      <4> QED
        BY <1>3, <2>2, <3>2, <4>1, <4>2, <4>3, KeptOther
    <3>5. CASE ~(isTemp \/ (field.mRealInitd /\ field.mRealValue = v))
      <4>1. g.mDelta = field.mDelta + 1 /\ g.mRealInitd /\ g.mRealValue = v
        BY <3>1, <3>5, FieldScalarSetLemma
      <4>2. m = RealOf(g)
        BY <1>2, <3>3, <3>5, <4>1
      <4> QED
        BY <1>3, <2>2, <3>2, <4>1, <4>2, KeptOther
    <3> QED
      BY <3>4, <3>5
  <2> QED
    BY <1>2, <2>1, <2>2
<1> QED
  BY <1>2, <1>4 DEF FieldInv, PointsTo

(* SetNull of a field *)
LEMMA SetNullStep == ASSUME FieldOK, FieldInv, SetNull PROVE FieldInv'
<1>1. Kept(field, column, saved, last) /\ KindOK(field, column, saved)
      /\ PointsTo(field, target)
  BY DEF FieldInv, Kept
<1>2. ASSUME field.type = "NullScalar", NEW isTemp \in BOOLEAN,
             Assign(NullScalarSetNull(field, isTemp), IF isTemp THEN last ELSE Null)
      PROVE  FieldInv'
  <2>1. PICK g, m : g = NullScalarSetNull(field, isTemp) /\ m = IF isTemp THEN last ELSE Null
    OBVIOUS
  <2>2. field' = g /\ last' = m /\ UNCHANGED <<column, saved, target>>
    BY <1>2, <2>1 DEF Assign
  <2>3. field \in NullScalarFields
    BY <1>1, <1>2, KindOfType
  <2>4. g \in NullScalarFields /\ g.type = "NullScalar"
    BY <2>1, <2>3, NullScalarSetNullLemma DEF NullScalarFields
  <2>5. /\ RealOf(g) = IF g.mRealNull THEN Null ELSE g.mRealValue
        /\ RealOf(field) = IF field.mRealNull THEN Null ELSE field.mRealValue
    BY <2>3, <2>4, RealOfKinds
  <2>6. CASE isTemp \/ field.mRealNull
    <3>1. /\ g.mDelta = field.mDelta /\ g.mRealNull = field.mRealNull
          /\ g.mRealValue = field.mRealValue
      BY <2>1, <2>3, <2>6, NullScalarSetNullLemma
    <3>2. m = last \/ m = RealOf(field)
      BY <2>1, <2>5, <2>6
    <3>3. Kept(g, column, saved, m)
      BY <1>1, <2>3, <2>4, <3>1, <3>2, KeptNullScalar
    <3> QED
      BY <2>2, <2>4, <3>3 DEF FieldInv, PointsTo
  <2>7. CASE ~(isTemp \/ field.mRealNull)
    <3>1. g.mDelta = field.mDelta + 1 /\ g.mRealNull
      BY <2>1, <2>3, <2>7, NullScalarSetNullLemma
    <3>2. m = RealOf(g)
      BY <2>1, <2>5, <2>7, <3>1
    <3>3. Kept(g, column, saved, m)
      BY <1>1, <2>3, <2>4, <3>1, <3>2, KeptNullScalar
    <3> QED
      BY <2>2, <2>4, <3>3 DEF FieldInv, PointsTo
  <2> QED
    BY <2>6, <2>7
<1>3. ASSUME field.type = "Json", Assign(SetJsonNull(field), Null)
      PROVE  FieldInv'
  <2>1. PICK g : g = SetJson(field, Null)
    OBVIOUS
  <2>2. field' = g /\ last' = Null /\ UNCHANGED <<column, saved, target>>
    BY <1>3, <2>1 DEF Assign, SetJsonNull, SetJson
  <2>3. field \in JsonFields /\ column \in FieldValues \cup {Null}
    BY <1>1, <1>3, KindOfType
  <2>4. g \in JsonFields /\ g.mDelta = field.mDelta + 1 /\ g.mJsonPtr = Null
    BY <2>1, <2>3, SetJsonLemma
  <2>5. g.type = "Json" /\ RealOf(g) = Null /\ KindOK(g, column, saved)
    BY <2>3, <2>4, RealOfKinds DEF KindOK
  <2>6. Kept(g, column, saved, Null)
    BY <1>1, <1>3, <2>4, <2>5, KeptOther
  <2> QED
    BY <2>2, <2>5, <2>6 DEF FieldInv, PointsTo
<1>4. ASSUME field.type = "NullRef", Assign(SetObjectNull(field), Null)
      PROVE  FieldInv'
  <2>1. PICK g : g = SetObjectNull(field)
    OBVIOUS
  <2>2. field' = g /\ last' = Null /\ UNCHANGED <<column, saved, target>>
    BY <1>4, <2>1 DEF Assign
  <2>3. field \in RefFields /\ column \in RefIds \cup {Null} /\ RealOf(field) = field.mObjId
    BY <1>1, <1>4, KindOfType, RealOfKinds
  <2>4. CASE field.mObjId = Null
    <3>1. g = field
      BY <2>1, <2>3, <2>4, SetObjectNullLemma
    <3>2. Kept(g, column, saved, Null)
      BY <1>1, <1>4, <2>3, <2>4, <3>1, KeptOther
    <3> QED
      BY <2>2, <3>1, <3>2 DEF FieldInv, PointsTo
  <2>5. CASE field.mObjId # Null
    <3>1. /\ g \in RefFields /\ g.mDelta = field.mDelta + 1 /\ g.mObjId = Null
          /\ g.mObjPtr = Null
      BY <2>1, <2>3, <2>5, SetObjectNullLemma
    <3>2. RealOf(g) = Null /\ KindOK(g, column, saved) /\ g.type = field.type
      <4>1. g.type = field.type
        BY <1>4, <2>1 DEF SetObjectNull
      <4> QED
        BY <2>3, <3>1, <4>1, RealOfKinds DEF KindOK
    <3>3. Kept(g, column, saved, Null)
      BY <1>1, <1>4, <3>1, <3>2, KeptOther
    <3> QED
      BY <2>2, <3>1, <3>3 DEF FieldInv, PointsTo
  <2> QED
    BY <2>4, <2>5
<1> QED
  BY <1>2, <1>3, <1>4 DEF SetNull

(* SetJson of a JSON field *)
LEMMA SetJsonStep == ASSUME FieldOK, FieldInv, SetJsonValue PROVE FieldInv'
<1>1. PICK v \in FieldValues :
        \E g :
          /\ g = SetJson(field, v) /\ field' = g /\ last' = v
          /\ field.type = "Json" /\ UNCHANGED <<column, saved, target>>
  BY DEF SetJsonValue, Assign
<1>2. PICK g :
        /\ g = SetJson(field, v) /\ field' = g /\ last' = v
        /\ field.type = "Json" /\ UNCHANGED <<column, saved, target>>
  BY <1>1
<1>3. Kept(field, column, saved, last) /\ KindOK(field, column, saved)
  BY DEF FieldInv, Kept
<1>4. field \in JsonFields /\ column \in FieldValues \cup {Null}
  BY <1>2, <1>3, KindOfType
<1>5. g \in JsonFields /\ g.mDelta = field.mDelta + 1 /\ g.mJsonPtr = v
  BY <1>2, <1>4, SetJsonLemma
<1>6. g.type = "Json" /\ RealOf(g) = v /\ KindOK(g, column, saved)
  BY <1>4, <1>5, RealOfKinds DEF KindOK
<1>7. Kept(g, column, saved, v)
  BY <1>2, <1>3, <1>5, <1>6, KeptOther
<1> QED
  BY <1>2, <1>6, <1>7 DEF FieldInv, PointsTo

(* DeltaValue of a counter *)
LEMMA IncrementStep == ASSUME FieldOK, FieldInv, Increment PROVE FieldInv'
<1>1. PICK d \in Nat :
        \E g :
          /\ g = DeltaValue(field, d) /\ field' = g /\ last' = field.mValue + d
          /\ field.type = "Counter" /\ UNCHANGED <<column, saved, target>>
  BY DEF Increment, Assign, FieldOK
<1>2. PICK g :
        /\ g = DeltaValue(field, d) /\ field' = g /\ last' = field.mValue + d
        /\ field.type = "Counter" /\ UNCHANGED <<column, saved, target>>
  BY <1>1
<1>3. Kept(field, column, saved, last) /\ KindOK(field, column, saved)
  BY DEF FieldInv, Kept
<1>4. field \in CountFields /\ (saved => column \in Int)
  BY <1>2, <1>3, KindOfType
<1>5. g \in CountFields /\ g.mDelta = field.mDelta + d /\ g.mValue = field.mValue + d
  BY <1>2, <1>4, DeltaValueLemma
<1>6. /\ g.type = "Counter" /\ RealOf(g) = g.mValue /\ RealOf(field) = field.mValue
      /\ KindOK(g, column, saved)
  BY <1>4, <1>5, RealOfKinds DEF KindOK
<1>7. field.mDelta \in Nat /\ field.mValue \in Int
  BY <1>4 DEF CountFields
<1>8. PICK b \in Int : b = Base(field, column, saved) /\ b = Base(g, column, saved)
  BY <1>2, <1>3, <1>4, <1>6 DEF Base, Kept
<1>9. b + field.mDelta = field.mValue
  BY <1>2, <1>3, <1>8 DEF Kept
<1>10. b + g.mDelta = g.mValue
  BY <1>5, <1>7, <1>9
<1>11. ~isModified(g) => b = g.mValue
  BY <1>5, <1>7, <1>10 DEF isModified
<1>12. Kept(g, column, saved, g.mValue)
  BY <1>3, <1>6, <1>8, <1>10, <1>11 DEF Kept, Same
<1> QED
  BY <1>2, <1>5, <1>6, <1>12 DEF FieldInv, PointsTo

(* SetObject of a reference *)
LEMMA SetRefStep == ASSUME FieldOK, FieldInv, SetRef PROVE FieldInv'
<1>1. PICK object \in target :
        \E g :
          /\ g = SetObject(field, object) /\ field' = g /\ last' = object.id
          /\ field.type \in {"NullRef", "Ref"} /\ UNCHANGED <<column, saved, target>>
  BY DEF SetRef, Assign
<1>2. PICK g :
        /\ g = SetObject(field, object) /\ field' = g /\ last' = object.id
        /\ field.type \in {"NullRef", "Ref"} /\ UNCHANGED <<column, saved, target>>
  BY <1>1
<1>3. Kept(field, column, saved, last) /\ KindOK(field, column, saved)
      /\ object \in Targets
  BY DEF FieldInv, Kept
<1>4. field \in RefFields /\ column \in RefIds \cup {Null} /\ RealOf(field) = field.mObjId
  BY <1>2, <1>3, KindOfType, RealOfKinds
<1>5. /\ g \in RefFields /\ g.mObjId = object.id /\ g.mObjPtr = object
      /\ field.mObjId = object.id => g.mDelta = field.mDelta
      /\ field.mObjId # object.id => g.mDelta = field.mDelta + 1
  BY <1>2, <1>3, <1>4, SetObjectLemma
<1>6. /\ RealOf(g) = object.id /\ KindOK(g, column, saved) /\ g.type = field.type
  <2>1. g.type = field.type
    BY <1>2, <1>4 DEF SetObject, RefFields
  <2> QED
    BY <1>4, <1>5, <2>1, RealOfKinds DEF KindOK
<1>7. Kept(g, column, saved, object.id)
  BY <1>2, <1>3, <1>4, <1>5, <1>6, KeptOther
<1> QED
  BY <1>2, <1>5, <1>7 DEF FieldInv, PointsTo

(* A reference looks up the object that is loaded for its id, or is given it. *)
LEMMA GetRefStep == ASSUME FieldOK, FieldInv, GetRef PROVE FieldInv'
<1>1. /\ field.type \in {"NullRef", "Ref"} /\ field.mObjId # Null
      /\ UNCHANGED <<column, saved, last, target>>
      /\ Kept(field, column, saved, last) /\ KindOK(field, column, saved)
      /\ PointsTo(field, target) /\ target \subseteq Targets
      /\ \A id \in RefIds : \E x \in target : x.id = id
  BY DEF GetRef, FieldInv, Kept
<1>2. field \in RefFields /\ column \in RefIds \cup {Null} /\ RealOf(field) = field.mObjId
  BY <1>1, KindOfType, RealOfKinds
<1>3. PICK object \in target : object = Object(field.mObjId) /\ object.id = field.mObjId
  <2>1. \E x \in target : x.id = field.mObjId
    BY <1>1, <1>2 DEF RefFields
  <2> QED
    BY <2>1 DEF Object
<1>4. CASE field' = field
  BY <1>1, <1>4 DEF FieldInv
<1>5. CASE field' # field
  <2>1. PICK g : g = [field EXCEPT !.mObjPtr = object] /\ field' = g
    BY <1>3, <1>5 DEF GetRef, RefGetObject, NullRefTryGetObject
  <2>2. object \in Targets
    BY <1>1
  <2>3. /\ g \in RefFields /\ g.mDelta = field.mDelta /\ g.mObjId = field.mObjId
        /\ g.mObjPtr = object /\ g.type = field.type
    BY <1>2, <2>1, <2>2 DEF RefFields
  <2>4. RealOf(g) = RealOf(field) /\ KindOK(g, column, saved)
    BY <1>2, <2>3, RealOfKinds DEF KindOK
  <2>5. Kept(g, column, saved, last)
    BY <1>1, <2>3, <2>4, KeptOther
  <2> QED
    BY <1>1, <1>3, <2>1, <2>3, <2>5 DEF FieldInv, PointsTo
<1> QED
  BY <1>4, <1>5

(* the object a reference points to is loaded anew *)
LEMMA ReplaceTargetStep == ASSUME FieldOK, FieldInv, ReplaceTarget PROVE FieldInv'
<1>1. /\ field.type \in {"NullRef", "Ref"} /\ field.mObjId # Null
      /\ UNCHANGED <<column, saved, last>>
      /\ Kept(field, column, saved, last) /\ KindOK(field, column, saved)
      /\ target \subseteq Targets /\ \A id \in RefIds : \E x \in target : x.id = id
  BY DEF ReplaceTarget, FieldInv, Kept
<1>2. PICK x \in target :
        \E object, g :
          /\ x.id = field.mObjId /\ object = [x EXCEPT !.address = @ + 1]
          /\ target' = (target \ {x}) \cup {object}
          /\ g = SetObject(field, object) /\ field' = g
  BY DEF ReplaceTarget
<1>3. PICK object, g :
        /\ x.id = field.mObjId /\ object = [x EXCEPT !.address = @ + 1]
        /\ target' = (target \ {x}) \cup {object}
        /\ g = SetObject(field, object) /\ field' = g
  BY <1>2
<1>4. object \in Targets /\ object.id = x.id
  <2>1. x \in Targets
    BY <1>1
  <2>2. PICK a \in Nat : a = x.address + 1
    BY <2>1 DEF Targets
  <2>3. object = [x EXCEPT !.address = a]
    BY <1>3, <2>2
  <2> QED
    BY <2>1, <2>3 DEF Targets
<1>5. field \in RefFields /\ column \in RefIds \cup {Null} /\ RealOf(field) = field.mObjId
  BY <1>1, KindOfType, RealOfKinds
<1>6. /\ g \in RefFields /\ g.mObjId = field.mObjId /\ g.mObjPtr = object
      /\ g.mDelta = field.mDelta
  BY <1>3, <1>4, <1>5, SetObjectLemma, ZenonT(40)
<1>7. /\ RealOf(g) = RealOf(field) /\ KindOK(g, column, saved) /\ g.type = field.type
  <2>1. g.type = field.type
    BY <1>3, <1>5 DEF SetObject, RefFields
  <2> QED
    BY <1>5, <1>6, <2>1, RealOfKinds DEF KindOK
<1>8. Kept(g, column, saved, last)
  BY <1>1, <1>6, <1>7, KeptOther
<1>9. target' \subseteq Targets /\ \A id \in RefIds : \E y \in target' : y.id = id
  BY <1>1, <1>3, <1>4
<1> QED
  BY <1>1, <1>3, <1>4, <1>6, <1>8, <1>9 DEF FieldInv, PointsTo

(* what SetUnmodified() leaves of a field of each kind *)
LEMMA UnmodifiedLemma ==
    ASSUME NEW f, NEW c, NEW s, KindOK(f, c, s), NEW g, g = SetUnmodified(f)
    PROVE  /\ KindOK(g, c, s) /\ g.type = f.type /\ g.mDelta = 0 /\ ~isModified(g)
           /\ RealOf(g) = RealOf(f)
           /\ g.type = "NullScalar" => g.mRealNull = f.mRealNull /\ g.mRealValue = f.mRealValue
           /\ g.type \in {"NullRef", "Ref"} => g.mObjId = f.mObjId /\ g.mObjPtr = f.mObjPtr
<1>1. g = [f EXCEPT !.mDelta = 0]
  BY DEF SetUnmodified
<1>2. CASE f \in NullScalarFields /\ c \in ScalarValues \cup {Null}
  <2>1. /\ g \in NullScalarFields /\ g.mDelta = 0 /\ g.mRealNull = f.mRealNull
        /\ g.mRealValue = f.mRealValue
    BY <1>1, <1>2 DEF NullScalarFields
  <2> QED
    BY <1>2, <2>1, RealOfKinds DEF KindOK, isModified
<1>3. CASE f \in ScalarFields /\ c \in ScalarValues \cup {Null}
  <2>1. /\ g \in ScalarFields /\ g.mDelta = 0 /\ g.mRealInitd = f.mRealInitd
        /\ g.mRealValue = f.mRealValue
    BY <1>1, <1>3 DEF ScalarFields
  <2> QED
    BY <1>3, <2>1, RealOfKinds DEF KindOK, isModified
<1>4. CASE f \in CountFields /\ (s => c \in Int)
  <2>1. g \in CountFields /\ g.mDelta = 0 /\ g.mValue = f.mValue
    BY <1>1, <1>4 DEF CountFields
  <2> QED
    BY <1>4, <2>1, RealOfKinds DEF KindOK, isModified
<1>5. CASE f \in JsonFields /\ c \in FieldValues \cup {Null}
  <2>1. g \in JsonFields /\ g.mDelta = 0 /\ g.mJsonPtr = f.mJsonPtr
    BY <1>1, <1>5 DEF JsonFields
  <2> QED
    BY <1>5, <2>1, RealOfKinds DEF KindOK, isModified
<1>6. CASE f \in RefFields /\ c \in RefIds \cup {Null}
  <2>1. /\ g \in RefFields /\ g.mDelta = 0 /\ g.mObjId = f.mObjId /\ g.mObjPtr = f.mObjPtr
        /\ g.type = f.type
    BY <1>1, <1>6 DEF RefFields
  <2> QED
    BY <1>6, <2>1, RealOfKinds DEF KindOK, isModified
<1> QED
  BY <1>2, <1>3, <1>4, <1>5, <1>6 DEF KindOK

(* what the column is after a save *)
Sent(f, c, s) ==
    LET before == IF ~s /\ f.type = "Counter" THEN 0 ELSE c
    IN  IF ~isModified(f) THEN before ELSE IF s THEN Updated(before, f) ELSE Inserted(f)

(* What a field sends to its column is its value. *)
LEMMA SentIsReal ==
    ASSUME FieldOK, NEW f, NEW c, NEW s, NEW l, Kept(f, c, s, l), NEW sent,
           f.type \in {"Scalar", "Ref"} => s \/ isModified(f),
           sent = Sent(f, c, s)
    PROVE  Same(f, sent) /\ KindOK(f, sent, TRUE) /\ (f.type = "Counter" => sent = f.mValue)
<1>1. KindOK(f, c, s) /\ s \in BOOLEAN /\ (~s => c = Null) /\ f.mDelta \in Nat
  BY KindOfType DEF Kept
<1>2. CASE f.type = "Counter"
  <2>1. f \in CountFields /\ (s => c \in Int) /\ RealOf(f) = f.mValue
    BY <1>1, <1>2, KindOfType, RealOfKinds
  <2>2. f.mDelta \in Nat /\ f.mValue \in Int
    BY <2>1 DEF CountFields
  <2>3. PICK b \in Int : b = Base(f, c, s)
    BY <1>1, <1>2, <2>1 DEF Base
  <2>4. b + f.mDelta = f.mValue
    BY <1>2, <2>3 DEF Kept
  <2>5. GetDBValue(f) = f.mDelta /\ UseDBIncrement(f)
    BY <1>2 DEF GetDBValue, CounterGetDBValue, UseDBIncrement
  <2>6. sent = f.mValue
    <3>1. CASE ~isModified(f)
      BY <1>1, <1>2, <2>2, <2>3, <2>4, <3>1 DEF isModified, Base, Sent
    <3>2. CASE isModified(f) /\ s
      BY <1>2, <2>3, <2>4, <2>5, <3>2 DEF Updated, Base, Sent
    <3>3. CASE isModified(f) /\ ~s
      BY <1>2, <2>2, <2>3, <2>4, <2>5, <3>3 DEF Inserted, Base, Sent
    <3> QED
      BY <1>1, <3>1, <3>2, <3>3
  <2> QED
    BY <2>1, <2>2, <2>6 DEF Same, KindOK
<1>3. CASE f.type # "Counter"
  <2>1. CASE ~isModified(f)
    <3>1. sent = c /\ sent = Base(f, c, s)
      BY <1>1, <1>3, <2>1 DEF Base, Sent
    <3>2. KindOK(f, sent, TRUE)
      BY <1>1, <1>3, <3>1 DEF KindOK, CountFields
    <3> QED
      BY <1>3, <2>1, <3>1, <3>2 DEF Kept
  <2>2. CASE isModified(f)
    <3>1. sent = GetDBValue(f)
      BY <1>1, <1>3, <2>2 DEF Updated, Inserted, UseDBIncrement, Sent
    <3>2. CASE f.type = "NullScalar"
      <4>1. f \in NullScalarFields /\ RealOf(f) = IF f.mRealNull THEN Null ELSE f.mRealValue
        BY <1>1, <3>2, KindOfType, RealOfKinds
      <4>2. sent = RealOf(f) /\ sent \in ScalarValues \cup {Null}
        BY <3>1, <3>2, <4>1 DEF GetDBValue, NullScalarGetDBValue, NullScalarFields
      <4> QED
        BY <1>3, <4>1, <4>2 DEF Same, KindOK
    <3>3. CASE f.type = "Scalar"
      <4>1. f \in ScalarFields /\ RealOf(f) = IF f.mRealInitd THEN f.mRealValue ELSE Null
        BY <1>1, <3>3, KindOfType, RealOfKinds
      <4>2. f.mRealInitd
        BY <2>2, <3>3 DEF Kept
      <4>3. sent = RealOf(f) /\ sent \in ScalarValues \cup {Null}
        BY <3>1, <3>3, <4>1, <4>2 DEF GetDBValue, ScalarGetDBValue, ScalarFields
      <4> QED
        BY <1>3, <4>1, <4>3 DEF Same, KindOK
    <3>4. CASE f.type = "Json"
      <4>1. f \in JsonFields /\ RealOf(f) = f.mJsonPtr
        BY <1>1, <3>4, KindOfType, RealOfKinds
      <4>2. sent = RealOf(f) /\ sent \in FieldValues \cup {Null}
        BY <3>1, <3>4, <4>1 DEF GetDBValue, JsonGetDBValue, JsonFields
      <4> QED
        BY <1>3, <4>1, <4>2 DEF Same, KindOK
    <3>5. CASE f.type \in {"NullRef", "Ref"}
      <4>1. f \in RefFields /\ RealOf(f) = f.mObjId
        BY <1>1, <3>5, KindOfType, RealOfKinds
      <4>2. sent = RealOf(f) /\ sent \in RefIds \cup {Null}
        BY <3>1, <3>5, <4>1 DEF GetDBValue, RefGetDBValue, RefFields
      <4> QED
        BY <1>3, <4>1, <4>2 DEF Same, KindOK
    <3>6. f.type \in {"NullScalar", "Scalar", "Json", "NullRef", "Ref"}
      BY <1>1, <1>3
         DEF KindOK, NullScalarFields, ScalarFields, CountFields, JsonFields, RefFields
    <3> QED
      BY <3>2, <3>3, <3>4, <3>5, <3>6
  <2> QED
    BY <2>1, <2>2
<1> QED
  BY <1>2, <1>3

(* a save of the object, done or failed *)
LEMMA SaveFieldStep == ASSUME FieldOK, FieldInv, SaveField PROVE FieldInv'
<1>1. PICK g, sent :
        /\ g = SetUnmodified(field) /\ field' = g /\ saved' = TRUE /\ column' = sent
        /\ UNCHANGED <<last, target>>
        /\ field.type \in {"Scalar", "Ref"} => saved \/ isModified(field)
        /\ sent = Sent(field, column, saved)
  BY DEF SaveField, Sent
<1>2. Kept(field, column, saved, last) /\ PointsTo(field, target)
  BY DEF FieldInv
<1>3. /\ Same(field, sent) /\ KindOK(field, sent, TRUE)
      /\ field.type = "Counter" => sent = field.mValue
  BY <1>1, <1>2, SentIsReal
<1>4. /\ KindOK(g, sent, TRUE) /\ g.type = field.type /\ g.mDelta = 0 /\ ~isModified(g)
      /\ RealOf(g) = RealOf(field)
      /\ g.type = "NullScalar" => g.mRealNull = field.mRealNull /\ g.mRealValue = field.mRealValue
      /\ g.type \in {"NullRef", "Ref"} => g.mObjId = field.mObjId /\ g.mObjPtr = field.mObjPtr
  BY <1>1, <1>3, UnmodifiedLemma
<1>5. g.type = "Counter" => sent + g.mDelta = g.mValue
  <2>1. ASSUME g.type = "Counter" PROVE sent + g.mDelta = g.mValue
    <3>1. field \in CountFields /\ g \in CountFields
      BY <1>3, <1>4, <2>1, KindOfType
    <3>2. g.mValue = field.mValue /\ g.mValue \in Int
      BY <1>4, <3>1, RealOfKinds DEF CountFields
    <3> QED
      BY <1>3, <1>4, <2>1, <3>2
  <2> QED
    BY <2>1
<1>6. Kept(g, sent, TRUE, last)
  BY <1>2, <1>3, <1>4, <1>5 DEF Kept, Base, Same
<1> QED
  BY <1>1, <1>2, <1>4, <1>6 DEF FieldInv, PointsTo

(* a field as it is loaded from the column c *)
LEMMA LoadFieldStep == ASSUME FieldOK, FieldInv, LoadField PROVE FieldInv'
<1>1. PICK g, c, m :
        /\ saved /\ c = column /\ field' = g /\ last' = m /\ UNCHANGED <<column, saved, target>>
        /\ field.type \in {"Scalar", "Ref"} => ~is_null(c)
        /\ LET f == New(field.type)
           IN  g = CASE f.type = "NullScalar" -> NullScalarInit(f, c)
                     [] f.type = "Scalar" -> ScalarInit(f, c)
                     [] f.type = "Counter" -> CounterInit(f, c)
                     [] f.type = "Json" -> JsonInit(f, c)
                     [] f.type = "NullRef" -> NullRefInit(f, c)
                     [] f.type = "Ref" -> RefInit(f, c)
        /\ m = IF field.type = "NullScalar" /\ is_null(c) THEN Null ELSE c
  BY DEF LoadField
<1>2. KindOK(field, c, TRUE) /\ saved = TRUE
  BY <1>1 DEF FieldInv, Kept
<1>3. field.type \in {"Scalar", "Ref"} => c # Null /\ c # Zero
  BY <1>1 DEF is_null
<1> SUFFICES Kept(g, c, TRUE, m) /\ PointsTo(g, target)
  BY <1>1, <1>2 DEF FieldInv
<1>4. CASE field.type = "NullScalar"
  <2>1. c \in ScalarValues \cup {Null}
    BY <1>2, <1>4, KindOfType
  <2>2. g = NullScalarInit(NullScalar, c)
    BY <1>1, <1>4 DEF New, NullScalar
  <2>3. /\ g \in NullScalarFields /\ g.mDelta = 0
        /\ is_null(c) => g.mRealNull
        /\ ~is_null(c) => ~g.mRealNull /\ g.mRealValue = c
    BY <2>1, <2>2 DEF NullScalarInit, NullScalar, NullScalarFields, is_null, ScalarValues
  <2>4. /\ KindOK(g, c, TRUE) /\ g.type = "NullScalar"
        /\ RealOf(g) = IF g.mRealNull THEN Null ELSE g.mRealValue
    BY <2>1, <2>3, RealOfKinds DEF KindOK
  <2> QED
    BY <1>1, <1>4, <2>3, <2>4 DEF Kept, Same, Base, isModified, PointsTo
<1>5. CASE field.type = "Scalar"
  <2>1. c \in ScalarValues \cup {Null}
    BY <1>2, <1>5, KindOfType
  <2>2. c \in ScalarValues
    BY <1>5, <1>3, <2>1
  <2>3. g = ScalarInit(Scalar, c)
    BY <1>1, <1>5 DEF New, Scalar
  <2>4. g \in ScalarFields /\ g.mDelta = 0 /\ g.mRealInitd /\ g.mRealValue = c
    BY <2>2, <2>3 DEF ScalarInit, Scalar, ScalarFields, ScalarValues
  <2>5. /\ KindOK(g, c, TRUE) /\ g.type = "Scalar" /\ RealOf(g) = c
    BY <2>2, <2>4, RealOfKinds DEF KindOK
  <2> QED
    BY <1>1, <1>5, <2>4, <2>5 DEF Kept, Same, Base, isModified, PointsTo
<1>6. CASE field.type = "Counter"
  <2>1. c \in Int
    BY <1>2, <1>6, KindOfType
  <2>2. g = CounterInit(Counter, c)
    BY <1>1, <1>6 DEF New, Counter
  <2>3. g \in CountFields /\ g.mDelta = 0 /\ g.mValue = c
    BY <2>1, <2>2 DEF CounterInit, Counter, CountFields
  <2>4. KindOK(g, c, TRUE) /\ g.type = "Counter" /\ RealOf(g) = c /\ c + g.mDelta = g.mValue
    BY <2>1, <2>3, RealOfKinds DEF KindOK
  <2> QED
    BY <1>1, <1>6, <2>3, <2>4 DEF Kept, Same, Base, isModified, PointsTo
<1>7. CASE field.type = "Json"
  <2>1. c \in FieldValues \cup {Null}
    BY <1>2, <1>7, KindOfType
  <2>2. g = JsonInit(Json, c)
    BY <1>1, <1>7 DEF New, Json
  <2>3. g \in JsonFields /\ g.mDelta = 0 /\ g.mJsonPtr = c
    BY <2>1, <2>2 DEF JsonInit, Json, JsonFields
  <2>4. KindOK(g, c, TRUE) /\ g.type = "Json" /\ RealOf(g) = c
    BY <2>1, <2>3, RealOfKinds DEF KindOK
  <2> QED
    BY <1>1, <1>7, <2>3, <2>4 DEF Kept, Same, Base, isModified, PointsTo
<1>8. CASE field.type \in {"NullRef", "Ref"}
  <2>1. c \in RefIds \cup {Null} /\ (c # Null => ~is_null(c)) /\ is_null(Null)
    BY <1>2, <1>8, KindOfType DEF FieldOK, is_null
  <2>2. \/ g = NullRefInit(NullRef, c)
        \/ g = RefInit(Ref, c) /\ c # Null
    BY <1>1, <1>8, <2>1 DEF New, NullRef, Ref
  <2>3. /\ g \in RefFields /\ g.mDelta = 0 /\ g.mObjId = c /\ g.mObjPtr = Null
    <3>1. NullRef \in RefFields /\ NullRef.mObjId = Null /\ NullRef.mObjPtr = Null
      BY DEF NullRef, RefFields
    <3>2. Ref \in RefFields /\ Ref.mObjId = Null /\ Ref.mObjPtr = Null
      BY <3>1 DEF Ref, RefFields
    <3>3. CASE g = NullRefInit(NullRef, c)
      <4>1. g = [NullRef EXCEPT !.mDelta = 0, !.mObjId = c]
        BY <2>1, <3>1, <3>3 DEF NullRefInit
      <4> QED
        BY <2>1, <3>1, <4>1 DEF RefFields
    <3>4. CASE g = RefInit(Ref, c)
      BY <2>1, <3>2, <3>4 DEF RefInit, RefFields
    <3> QED
      BY <2>2, <3>3, <3>4
  <2>4. KindOK(g, c, TRUE) /\ g.type \in {"NullRef", "Ref"} /\ RealOf(g) = c
    BY <2>1, <2>3, RealOfKinds DEF KindOK
  <2> QED
    BY <1>1, <1>8, <2>3, <2>4 DEF Kept, Same, Base, isModified, PointsTo
<1>9. field.type \in {"NullScalar", "Scalar", "Counter", "Json", "NullRef", "Ref"}
  BY <1>2 DEF KindOK, NullScalarFields, ScalarFields, CountFields, JsonFields, RefFields
<1> QED
  BY <1>4, <1>5, <1>6, <1>7, <1>8, <1>9

(* the fields that are constructed with a default *)
LEMMA DefaultLemma ==
    ASSUME NEW v \in FieldValues
    PROVE  /\ NullScalarDefault(v) \in NullScalarFields /\ isModified(NullScalarDefault(v))
           /\ \/ RealOf(NullScalarDefault(v)) = v
              \/ NullScalarDefault(v).mRealNull /\ NullScalarDefault(v).mRealValue = v
           /\ ScalarDefault(v) \in ScalarFields /\ isModified(ScalarDefault(v))
           /\ ScalarDefault(v).mRealInitd /\ RealOf(ScalarDefault(v)) = v
           /\ JsonDefault(v) \in JsonFields /\ isModified(JsonDefault(v))
           /\ RealOf(JsonDefault(v)) = v
<1>1. FALSE \in BOOLEAN
  OBVIOUS
<1>2. /\ NullScalarDefault(v) \in NullScalarFields /\ isModified(NullScalarDefault(v))
      /\ \/ RealOf(NullScalarDefault(v)) = v
         \/ NullScalarDefault(v).mRealNull /\ NullScalarDefault(v).mRealValue = v
  <2>1. PICK n : n = [NullScalar EXCEPT !.mDelta = 1]
    OBVIOUS
  <2>2. n \in NullScalarFields /\ n.mDelta = 1 /\ n.mRealNull
    BY <2>1 DEF NullScalar, NullScalarFields, ScalarValues
  <2>3. PICK g : g = NullScalarSet(n, v, FALSE) /\ g = NullScalarDefault(v)
    BY <2>1 DEF NullScalarDefault
  <2>4. n \in NullScalarFields
    BY <2>2
  <2>5. /\ NullScalarSet(n, v, FALSE) \in NullScalarFields
        /\ FALSE \/ n.mRealValue = v =>
             /\ NullScalarSet(n, v, FALSE).mDelta = n.mDelta
             /\ NullScalarSet(n, v, FALSE).mRealNull = n.mRealNull
             /\ NullScalarSet(n, v, FALSE).mRealValue = n.mRealValue
        /\ ~FALSE /\ n.mRealValue # v =>
             /\ NullScalarSet(n, v, FALSE).mDelta = n.mDelta + 1
             /\ ~NullScalarSet(n, v, FALSE).mRealNull
             /\ NullScalarSet(n, v, FALSE).mRealValue = v
    BY <1>1, <2>4, NullScalarSetLemma, Zenon
  <2>6. g \in NullScalarFields
    BY <2>3, <2>5, Zenon
  <2>7. RealOf(g) = IF g.mRealNull THEN Null ELSE g.mRealValue
    BY <2>6, RealOfKinds
  <2>8. isModified(g) /\ (RealOf(g) = v \/ (g.mRealNull /\ g.mRealValue = v))
    <3>1. CASE n.mRealValue = v
      <4>1. g.mDelta = 1 /\ g.mRealNull /\ g.mRealValue = v
        BY <2>2, <2>3, <2>5, <3>1
      <4> QED
        BY <4>1 DEF isModified
    <3>2. CASE n.mRealValue # v
      <4>1. g.mDelta = n.mDelta + 1 /\ ~g.mRealNull /\ g.mRealValue = v
        BY <2>3, <2>5, <3>2
      <4>2. g.mDelta = 2 /\ RealOf(g) = v
        BY <2>2, <2>7, <4>1
      <4> QED
        BY <4>2 DEF isModified
    <3> QED
      BY <3>1, <3>2
  <2> QED
    BY <2>3, <2>6, <2>8, Zenon
<1>3. /\ ScalarDefault(v) \in ScalarFields /\ isModified(ScalarDefault(v))
      /\ ScalarDefault(v).mRealInitd /\ RealOf(ScalarDefault(v)) = v
  <2>1. PICK n : n = [Scalar EXCEPT !.mDelta = 1]
    OBVIOUS
  <2>2. n \in ScalarFields /\ n.mDelta = 1 /\ ~n.mRealInitd
    BY <2>1 DEF Scalar, ScalarFields, ScalarValues
  <2>3. PICK g : g = ScalarSet(n, v, FALSE) /\ g = ScalarDefault(v)
    BY <2>1 DEF ScalarDefault
  <2>4. n \in ScalarFields
    BY <2>2
  <2>5. ~(FALSE \/ (n.mRealInitd /\ n.mRealValue = v))
    BY <2>2
  <2>6. ScalarSet(n, v, FALSE) \in ScalarFields
    BY <1>1, <2>4, FieldScalarSetLemma, Zenon
  <2>7. g \in ScalarFields
    BY <2>3, <2>6
  <2>8. /\ ScalarSet(n, v, FALSE).mDelta = n.mDelta + 1
        /\ ScalarSet(n, v, FALSE).mRealInitd
        /\ ScalarSet(n, v, FALSE).mRealValue = v
    BY <1>1, <2>4, <2>5, FieldScalarSetLemma, Zenon
  <2>9. g.mDelta = n.mDelta + 1 /\ g.mRealInitd /\ g.mRealValue = v
    BY <2>3, <2>8
  <2>10. RealOf(g) = IF g.mRealInitd THEN g.mRealValue ELSE Null
    BY <2>7, RealOfKinds
  <2>11. RealOf(g) = v
    BY <2>9, <2>10
  <2>12. g.mDelta = 2
    BY <2>2, <2>9
  <2>13. isModified(g)
    BY <2>12 DEF isModified
  <2> QED
    BY <2>3, <2>7, <2>9, <2>11, <2>13, Zenon
<1>4. /\ JsonDefault(v) \in JsonFields /\ isModified(JsonDefault(v))
      /\ RealOf(JsonDefault(v)) = v
  <2>1. PICK n : n = [Json EXCEPT !.mDelta = 1]
    OBVIOUS
  <2>2. n \in JsonFields /\ n.mDelta = 1
    BY <2>1 DEF Json, JsonFields
  <2>3. PICK g : g = SetJson(n, v) /\ g = JsonDefault(v)
    BY <2>1 DEF JsonDefault
  <2>4. g \in JsonFields /\ g.mDelta = n.mDelta + 1 /\ g.mJsonPtr = v
    BY <2>2, <2>3, SetJsonLemma, ZenonT(40)
  <2>5. RealOf(g) = v
    BY <2>4, RealOfKinds
  <2>6. g.mDelta = 2
    BY <2>2, <2>4
  <2> QED
    BY <2>3, <2>4, <2>5, <2>6 DEF isModified
<1> QED
  BY <1>2, <1>3, <1>4

(* An object starts with fields that have no value, or with those of its constructor. *)
LEMMA FieldStarts == ASSUME FieldOK, FieldInit PROVE FieldInv
<1>1. column = Null /\ saved = FALSE /\ target = [id : RefIds, address : {0}]
  BY DEF FieldInit
<1>2. target \subseteq Targets /\ \A id \in RefIds : \E x \in target : x.id = id
  <2>1. ASSUME NEW id \in RefIds PROVE \E x \in target : x.id = id
    <3>1. [id |-> id, address |-> 0] \in target
      BY <1>1
    <3> QED
      BY <3>1
  <2> QED
    BY <1>1, <2>1 DEF Targets
<1>3. CASE \E v \in FieldValues :
              /\ field \in {NullScalarDefault(v), ScalarDefault(v), JsonDefault(v)}
              /\ last = v
  <2>1. PICK v \in FieldValues :
              /\ field \in {NullScalarDefault(v), ScalarDefault(v), JsonDefault(v)}
              /\ last = v
    BY <1>3
  <2>2. CASE field = NullScalarDefault(v)
    <3>1. /\ field \in NullScalarFields /\ isModified(field)
          /\ RealOf(field) = v \/ (field.mRealNull /\ field.mRealValue = v)
      BY <2>2, DefaultLemma
    <3>2. field.type = "NullScalar" /\ KindOK(field, column, saved)
      BY <1>1, <3>1, RealOfKinds DEF KindOK
    <3> QED
      BY <1>1, <1>2, <2>1, <3>1, <3>2 DEF FieldInv, Kept, PointsTo
  <2>3. CASE field = ScalarDefault(v)
    <3>1. field \in ScalarFields /\ isModified(field) /\ field.mRealInitd /\ RealOf(field) = v
      BY <2>3, DefaultLemma
    <3>2. field.type = "Scalar" /\ KindOK(field, column, saved)
      BY <1>1, <3>1, RealOfKinds DEF KindOK
    <3> QED
      BY <1>1, <1>2, <2>1, <3>1, <3>2 DEF FieldInv, Kept, PointsTo
  <2>4. CASE field = JsonDefault(v)
    <3>1. field \in JsonFields /\ isModified(field) /\ RealOf(field) = v
      BY <2>4, DefaultLemma
    <3>2. field.type = "Json" /\ KindOK(field, column, saved)
      BY <1>1, <3>1, RealOfKinds DEF KindOK
    <3> QED
      BY <1>1, <1>2, <2>1, <3>1, <3>2 DEF FieldInv, Kept, PointsTo
  <2> QED
    BY <2>1, <2>2, <2>3, <2>4
<1>4. CASE \E type \in Types : /\ field = New(type)
                               /\ last = IF type = "Counter" THEN 0 ELSE Null
  <2>1. PICK type \in Types : /\ field = New(type)
                              /\ last = IF type = "Counter" THEN 0 ELSE Null
    BY <1>4
  <2>2. CASE type = "NullScalar"
    <3>1. field \in NullScalarFields /\ field.mDelta = 0 /\ field.mRealNull
      BY <2>1, <2>2 DEF New, NullScalar, NullScalarFields, ScalarValues
    <3>2. field.type = "NullScalar" /\ RealOf(field) = Null /\ KindOK(field, column, saved)
      BY <1>1, <3>1, RealOfKinds DEF KindOK
    <3> QED
      BY <1>1, <1>2, <2>1, <2>2, <3>1, <3>2
         DEF FieldInv, Kept, Same, Base, PointsTo, isModified
  <2>3. CASE type = "Scalar"
    <3>1. field \in ScalarFields /\ field.mDelta = 0 /\ ~field.mRealInitd
      BY <2>1, <2>3 DEF New, Scalar, ScalarFields, ScalarValues
    <3>2. field.type = "Scalar" /\ RealOf(field) = Null /\ KindOK(field, column, saved)
      BY <1>1, <3>1, RealOfKinds DEF KindOK
    <3>3. ~isModified(field) /\ last = Null /\ Base(field, column, saved) = Null
      BY <1>1, <2>1, <2>3, <3>1, <3>2 DEF isModified, Base
    <3> QED
      BY <1>1, <1>2, <3>2, <3>3 DEF FieldInv, Kept, Same, PointsTo
  <2>4. CASE type = "Counter"
    <3>1. field \in CountFields /\ field.mDelta = 0 /\ field.mValue = 0
      BY <2>1, <2>4 DEF New, Counter, CountFields
    <3>2. field.type = "Counter" /\ RealOf(field) = 0 /\ KindOK(field, column, saved)
      BY <1>1, <3>1, RealOfKinds DEF KindOK
    <3>3. ~isModified(field) /\ last = 0 /\ Base(field, column, saved) = 0
      BY <1>1, <2>1, <2>4, <3>1, <3>2 DEF isModified, Base
    <3>4. Base(field, column, saved) + field.mDelta = field.mValue
      BY <3>1, <3>3
    <3>5. RealOf(field) = last /\ Same(field, Base(field, column, saved))
      BY <3>2, <3>3 DEF Same
    <3>6. Kept(field, column, saved, last)
      BY <1>1, <3>2, <3>3, <3>4, <3>5 DEF Kept
    <3> QED
      BY <1>2, <3>2, <3>6 DEF FieldInv, PointsTo
  <2>5. CASE type = "Json"
    <3>1. field \in JsonFields /\ field.mDelta = 0 /\ field.mJsonPtr = Null
      BY <2>1, <2>5 DEF New, Json, JsonFields
    <3>2. field.type = "Json" /\ RealOf(field) = Null /\ KindOK(field, column, saved)
      BY <1>1, <3>1, RealOfKinds DEF KindOK
    <3> QED
      BY <1>1, <1>2, <2>1, <2>5, <3>1, <3>2
         DEF FieldInv, Kept, Same, Base, PointsTo, isModified
  <2>6. CASE type \in {"NullRef", "Ref"}
    <3>1. field \in RefFields /\ field.mDelta = 0 /\ field.mObjId = Null /\ field.mObjPtr = Null
      BY <2>1, <2>6 DEF New, NullRef, Ref, RefFields
    <3>2. /\ field.type \in {"NullRef", "Ref"} /\ RealOf(field) = Null
          /\ KindOK(field, column, saved)
      BY <1>1, <3>1, RealOfKinds DEF KindOK
    <3> QED
      BY <1>1, <1>2, <2>1, <2>6, <3>1, <3>2
         DEF FieldInv, Kept, Same, Base, PointsTo, isModified
  <2> QED
    BY <2>1, <2>2, <2>3, <2>4, <2>5, <2>6 DEF Types
<1> QED
  BY <1>3, <1>4 DEF FieldInit

(* Every change of a field, and every save, keeps the invariant. *)
LEMMA FieldStep == ASSUME FieldOK, FieldInv, [FieldNext]_fieldVars PROVE FieldInv'
<1>1. CASE UNCHANGED fieldVars
  BY <1>1 DEF fieldVars, FieldInv
<1> QED
  BY <1>1, SetScalarStep, SetNullStep, SetJsonStep, IncrementStep, SetRefStep, GetRefStep,
     ReplaceTargetStep, SaveFieldStep, LoadFieldStep DEF FieldNext

(* The invariant says at least what the run checks of a field. *)
LEMMA KeptIsStored == ASSUME FieldOK, FieldInv PROVE FieldIsStored
<1>1. Real = RealOf(field)
  BY DEF Real, RealOf
<1>2. Kept(field, column, saved, last) /\ PointsTo(field, target)
  BY DEF FieldInv
<1>3. saved /\ ~isModified(field) =>
        column = Real \/ (field.type = "NullScalar" /\ is_null(column) /\ Real = Null)
  BY <1>1, <1>2 DEF Kept, Same, Base
<1>4. Real = last \/ TakenForOld
  BY <1>1, <1>2 DEF Kept, TakenForOld
<1> QED
  BY <1>2, <1>3, <1>4 DEF FieldIsStored, PointsTo

(* Whatever values a field of any of the six types is given, in whatever order it is set,
   unset, saved and loaded: one that does not count as modified is what its column has, it
   is what its owner set last, and a reference has the object that is loaded for its id. *)
THEOREM FieldsAreStored == ASSUME FieldOK PROVE FieldSpec => []FieldIsStored
<1>1. FieldInit => FieldInv
  BY FieldStarts
<1>2. FieldInv /\ [FieldNext]_fieldVars => FieldInv'
  BY FieldStep
<1>3. FieldInv => FieldIsStored
  BY KeptIsStored
<1> QED
  BY <1>1, <1>2, <1>3, PTL DEF FieldSpec
=============================================================================
