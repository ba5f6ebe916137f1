----------------------------- MODULE FieldTypes -----------------------------
(* The columns of a database object: database/fieldtypes.  A field keeps the value its
   owner sees, what the database is to get (GetDBValue) and mDelta, how often it was
   changed since it was loaded or saved.  Every operator takes and gives such a record.
   A setter calls notifyModified() before it assigns: see ObjectDatabase. *)
EXTENDS Integers

CONSTANTS
    Zero,      \* T{}: the empty string
    Null       \* SQL NULL, nullptr, an empty id

(* MixedValue::is_null() of a value that was read: the test is for no bytes, and an empty
   string has none either *)
is_null(v) == v \in {Null, Zero}

-----------------------------------------------------------------------------
(* BaseField *)
isModified(f) == f.mDelta > 0
SetUnmodified(f) == [f EXCEPT !.mDelta = 0]
UseDBIncrement(f) == f.type = "Counter"

-----------------------------------------------------------------------------
(* NullScalarType *)
NullScalar == [type |-> "NullScalar", mDelta |-> 0, mTempNull |-> TRUE, mTempValue |-> Zero,
               mRealNull |-> TRUE, mRealValue |-> Zero]

NullScalarInit(f, v) ==
    IF is_null(v) THEN [f EXCEPT !.mDelta = 0, !.mTempNull = TRUE, !.mRealNull = TRUE]
    ELSE [f EXCEPT !.mDelta = 0, !.mTempNull = FALSE, !.mRealNull = FALSE,
                   !.mTempValue = v, !.mRealValue = v]

NullScalarGetDBValue(f) == IF f.mRealNull THEN Null ELSE f.mRealValue

NullScalarTryGet(f, allowTemp) ==
    IF allowTemp THEN IF f.mTempNull THEN Null ELSE f.mTempValue
    ELSE NullScalarGetDBValue(f)

(* mutant of NullScalarDiffers: a value that is there already is taken for a change of NULL only *)
NullScalarDiffersNull(f, v) == f.mRealNull /\ f.mRealValue # v

(* whether SetValue() changes the real value: mRealNull is not looked at *)
NullScalarDiffers(f, v) == f.mRealValue # v

NullScalarSet(f, v, isTemp) ==
    LET temp == [f EXCEPT !.mTempNull = FALSE, !.mTempValue = v]
    IN  IF ~isTemp /\ NullScalarDiffers(f, v)
        THEN [temp EXCEPT !.mRealNull = FALSE, !.mRealValue = v, !.mDelta = @ + 1]
        ELSE temp

NullScalarSetNull(f, isTemp) ==
    LET temp == [f EXCEPT !.mTempNull = TRUE]
    IN  IF ~isTemp /\ ~f.mRealNull
        THEN [temp EXCEPT !.mRealNull = TRUE, !.mDelta = @ + 1]
        ELSE temp

(* the constructor with a default: modified from the start, and once more by SetValue() *)
NullScalarDefault(v) == NullScalarSet([NullScalar EXCEPT !.mDelta = 1], v, FALSE)

-----------------------------------------------------------------------------
(* ScalarType: not initialized until it is set or loaded *)
Scalar == [type |-> "Scalar", mDelta |-> 0, mTempInitd |-> FALSE, mTempValue |-> Zero,
           mRealInitd |-> FALSE, mRealValue |-> Zero]

ScalarInit(f, v) ==      \* ~is_null(v), or DBValueNullException
    [f EXCEPT !.mDelta = 0, !.mTempInitd = TRUE, !.mRealInitd = TRUE,
              !.mTempValue = v, !.mRealValue = v]

ScalarInitialized(f, allowTemp) == IF allowTemp THEN f.mTempInitd ELSE f.mRealInitd

ScalarGetDBValue(f) == f.mRealValue      \* ScalarInitialized(f, FALSE), or UninitializedException

ScalarGet(f, allowTemp) == IF allowTemp THEN f.mTempValue ELSE f.mRealValue

ScalarSet(f, v, isTemp) ==
    LET temp == [f EXCEPT !.mTempInitd = TRUE, !.mTempValue = v]
    IN  IF ~isTemp /\ (~f.mRealInitd \/ f.mRealValue # v)
        THEN [temp EXCEPT !.mRealInitd = TRUE, !.mRealValue = v, !.mDelta = @ + 1]
        ELSE temp

ScalarDefault(v) == ScalarSet([Scalar EXCEPT !.mDelta = 1], v, FALSE)

-----------------------------------------------------------------------------
(* CounterType: the database gets the difference *)
Counter == [type |-> "Counter", mDelta |-> 0, mValue |-> 0]

CounterInit(f, v) == [f EXCEPT !.mDelta = 0, !.mValue = v]

CounterGetDBValue(f) == f.mDelta

DeltaValue(f, delta) ==
    IF delta = 0 THEN f ELSE [f EXCEPT !.mValue = @ + delta, !.mDelta = @ + delta]

-----------------------------------------------------------------------------
(* JsonType: every SetJson() counts as a change *)
Json == [type |-> "Json", mDelta |-> 0, mJsonPtr |-> Null]

JsonInit(f, v) == [f EXCEPT !.mDelta = 0, !.mJsonPtr = v]

JsonGetDBValue(f) == f.mJsonPtr

SetJson(f, v) == [f EXCEPT !.mDelta = @ + 1, !.mJsonPtr = v]

SetJsonNull(f) == [f EXCEPT !.mDelta = @ + 1, !.mJsonPtr = Null]

JsonDefault(v) == SetJson([Json EXCEPT !.mDelta = 1], v)

-----------------------------------------------------------------------------
(* NullObjectRef, ObjectRef: the id, and the object once it was looked up.  An object is
   a record with its id. *)
NullRef == [type |-> "NullRef", mDelta |-> 0, mObjId |-> Null, mObjPtr |-> Null]
Ref == [NullRef EXCEPT !.type = "Ref"]

NullRefInit(f, id) == [f EXCEPT !.mDelta = 0, !.mObjId = IF is_null(id) THEN @ ELSE id]
RefInit(f, id) == [f EXCEPT !.mDelta = 0, !.mObjId = id]     \* ~is_null(id)

RefGetDBValue(f) == f.mObjId

(* object: what LoadUniqueByQuery finds for the id *)
NullRefTryGetObject(f, object) ==
    IF f.mObjId = Null \/ f.mObjPtr # Null THEN f ELSE [f EXCEPT !.mObjPtr = object]
RefGetObject(f, object) == IF f.mObjPtr # Null THEN f ELSE [f EXCEPT !.mObjPtr = object]

SetObject(f, object) ==
    LET cached == [f EXCEPT !.mObjPtr = object]
    IN  IF f.mObjId = object.id THEN cached
        ELSE [cached EXCEPT !.mObjId = object.id, !.mDelta = @ + 1]

SetObjectNull(f) ==
    IF f.mObjId = Null THEN f
    ELSE [f EXCEPT !.mObjId = Null, !.mObjPtr = Null, !.mDelta = @ + 1]

-----------------------------------------------------------------------------
(* what a save sends for a field, and what the column is then *)
GetDBValue(f) ==
    CASE f.type = "NullScalar" -> NullScalarGetDBValue(f)
      [] f.type = "Scalar" -> ScalarGetDBValue(f)
      [] f.type = "Counter" -> CounterGetDBValue(f)
      [] f.type = "Json" -> JsonGetDBValue(f)
      [] f.type \in {"NullRef", "Ref"} -> RefGetDBValue(f)

Inserted(f) == GetDBValue(f)

Updated(column, f) ==
    IF UseDBIncrement(f) THEN column + GetDBValue(f) ELSE GetDBValue(f)
=============================================================================
