------------------------------ MODULE FieldLife ------------------------------
(* One field and its column over the life of an object: constructed with or without a
   default, changed, saved, dropped and loaded again.  `last' is what the owner set last
   for the database, `target' the loaded objects that references point to. *)
EXTENDS FieldTypes

CONSTANTS
    FieldValues,     \* values of scalars and JSON
    FieldDeltas,     \* what DeltaValue() is called with
    RefIds,          \* ids of objects that references name
    MaxDelta         \* bound on mDelta, on counters and on addresses

VARIABLES field, column, saved, last, target

fieldVars == <<field, column, saved, last, target>>

Types == {"NullScalar", "Scalar", "Counter", "Json", "NullRef", "Ref"}

New(type) ==
    CASE type = "NullScalar" -> NullScalar [] type = "Scalar" -> Scalar
      [] type = "Counter" -> Counter [] type = "Json" -> Json
      [] type = "NullRef" -> NullRef [] type = "Ref" -> Ref

(* an object by its id and its address *)
Object(id) == CHOOSE x \in target : x.id = id

FieldInit ==
    /\ column = Null /\ saved = FALSE
    /\ target = [id : RefIds, address : {0}]
    /\ \/ \E type \in Types : /\ field = New(type)
                              /\ last = IF type = "Counter" THEN 0 ELSE Null
       \/ \E v \in FieldValues :
            /\ field \in {NullScalarDefault(v), ScalarDefault(v), JsonDefault(v)}
            /\ last = v

Assign(f, v) == field' = f /\ last' = v /\ UNCHANGED <<column, saved, target>>
Bounded == field.mDelta < MaxDelta

SetScalar ==
    /\ Bounded
    /\ \E v \in FieldValues, isTemp \in BOOLEAN :
         \/ /\ field.type = "NullScalar"
            /\ Assign(NullScalarSet(field, v, isTemp), IF isTemp THEN last ELSE v)
         \/ /\ field.type = "Scalar"
            /\ Assign(ScalarSet(field, v, isTemp), IF isTemp THEN last ELSE v)

SetNull ==
    /\ Bounded
    /\ \/ /\ field.type = "NullScalar"
          /\ \E isTemp \in BOOLEAN :
               Assign(NullScalarSetNull(field, isTemp), IF isTemp THEN last ELSE Null)
       \/ field.type = "Json" /\ Assign(SetJsonNull(field), Null)
       \/ field.type = "NullRef" /\ Assign(SetObjectNull(field), Null)

SetJsonValue ==
    /\ Bounded /\ field.type = "Json"
    /\ \E v \in FieldValues : Assign(SetJson(field, v), v)

Increment ==
    /\ field.type = "Counter"
    /\ \E delta \in FieldDeltas :
         /\ field.mValue + delta <= MaxDelta
         /\ Assign(DeltaValue(field, delta), field.mValue + delta)

SetRef ==
    /\ Bounded /\ field.type \in {"NullRef", "Ref"}
    /\ \E object \in target : Assign(SetObject(field, object), object.id)

GetRef ==
    /\ field.type \in {"NullRef", "Ref"} /\ field.mObjId # Null
    /\ field' = IF field.type = "Ref" THEN RefGetObject(field, Object(field.mObjId))
                ELSE NullRefTryGetObject(field, Object(field.mObjId))
    /\ UNCHANGED <<column, saved, last, target>>

(* the owner gives the field the object it has now for an id: the one it had is unloaded,
   and SetObject() is called for the one loaded instead *)
ReplaceTarget ==
    /\ field.type \in {"NullRef", "Ref"} /\ field.mObjId # Null
    /\ \E x \in target :
         /\ x.id = field.mObjId /\ x.address < MaxDelta
         /\ LET object == [x EXCEPT !.address = @ + 1]
            IN  /\ target' = (target \ {x}) \cup {object}
                /\ field' = SetObject(field, object)
    /\ UNCHANGED <<column, saved, last>>

(* INSERT the first time, then UPDATE of a modified field; a column without a value is
   NULL, or 0 for a counter *)
SaveField ==
    /\ field.type \in {"Scalar", "Ref"} => saved \/ isModified(field)
    /\ LET before == IF ~saved /\ field.type = "Counter" THEN 0 ELSE column
       IN  column' = IF ~isModified(field) THEN before
                     ELSE IF saved THEN Updated(before, field) ELSE Inserted(field)
    /\ saved' = TRUE /\ field' = SetUnmodified(field)
    /\ UNCHANGED <<last, target>>

(* another run of the program: what was not saved is gone.  A column that reads as NULL
   cannot be loaded into a field that is never NULL. *)
LoadField ==
    /\ saved
    /\ field.type \in {"Scalar", "Ref"} => ~is_null(column)
    /\ LET f == New(field.type)
       IN  field' = CASE f.type = "NullScalar" -> NullScalarInit(f, column)
                      [] f.type = "Scalar" -> ScalarInit(f, column)
                      [] f.type = "Counter" -> CounterInit(f, column)
                      [] f.type = "Json" -> JsonInit(f, column)
                      [] f.type = "NullRef" -> NullRefInit(f, column)
                      [] f.type = "Ref" -> RefInit(f, column)
    /\ last' = IF field.type = "NullScalar" /\ is_null(column) THEN Null ELSE column
    /\ UNCHANGED <<column, saved, target>>

FieldNext == \/ SetScalar \/ SetNull \/ SetJsonValue \/ Increment \/ SetRef \/ GetRef
             \/ ReplaceTarget \/ SaveField \/ LoadField

FieldSpec == FieldInit /\ [][FieldNext]_fieldVars

-----------------------------------------------------------------------------
(* what the database has to get so that a load finds the field as it is *)
Real ==
    CASE field.type = "NullScalar" -> NullScalarTryGet(field, FALSE)
      [] field.type = "Scalar" ->
            IF ScalarInitialized(field, FALSE) THEN ScalarGet(field, FALSE) ELSE Null
      [] field.type = "Counter" -> field.mValue
      [] OTHER -> GetDBValue(field)

(* ScalarType.hpp:81 compares with the last value although it was replaced by NULL *)
TakenForOld == field.type = "NullScalar" /\ field.mRealNull /\ field.mRealValue = last

(* Setting, unsetting and temporary values in any order: a field that counts as saved is
   what its column has, so what is not marked modified needs no save; it is the value its
   owner set last; and a reference that has an object at hand has the loaded one with its
   id (isModified, SetValue, DeltaValue, SetJson, SetObject, GetObject).  An empty string
   that was stored reads as NULL (MixedValue.cpp:96). *)
FieldIsStored ==
    /\ saved /\ ~isModified(field) =>
         column = Real \/ (field.type = "NullScalar" /\ is_null(column) /\ Real = Null)
    /\ Real = last \/ TakenForOld
    /\ field.type \in {"NullRef", "Ref"} /\ field.mObjPtr # Null =>
         field.mObjPtr \in target /\ field.mObjPtr.id = field.mObjId
=============================================================================
