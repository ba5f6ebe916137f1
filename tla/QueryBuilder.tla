---------------------------- MODULE QueryBuilder ----------------------------
(* QueryBuilder: conditions with a placeholder for each value, the values beside them, and
   the clauses of the query.  A condition is kept as its tree, not as its text; what SQL
   makes of it, with the third truth value that a comparison with NULL has, is Truth.
   Only TLC uses this module. *)
EXTENDS Integers, Sequences, SequencesExt

CONSTANTS
    Columns, Vals,    \* Vals: what is compared with, a set of integers
    Null, Empty,      \* Empty: a WHERE or ORDER BY that is not set
    MaxParams,        \* bound on the values of one query
    MaxWhere          \* bound on the conditions since a reset

VARIABLES query, meant      \* meant: the conditions since the last reset, with their values

queryVars == <<query, meant>>

NewQuery == [mWhere |-> Empty, mParams |-> << >>, mParamIdx |-> 0,
             mOrderBy |-> Empty, mOrderDesc |-> FALSE, mLimit |-> Null, mOffset |-> Null]

QueryInit == query = NewQuery /\ meant = <<>>

(* map::emplace keeps the value of a key that is there *)
AddParam(q, val) ==
    [q EXCEPT !.mParamIdx = @ + 1,
              !.mParams = [i \in DOMAIN @ \cup {q.mParamIdx} |->
                              IF i \in DOMAIN @ THEN @[i] ELSE val]]

Compare(op, key, idx) == [op |-> op, key |-> key, idx |-> idx]
IsNull(key) == [op |-> "IS NULL", key |-> key]
Not(arg) == [op |-> "NOT", arg |-> arg]
Or(a, b) == [op |-> "OR", a |-> a, b |-> b]
And(a, b) == [op |-> "AND", a |-> a, b |-> b]

Operators == {"=", "<>", "<", "<=", ">", ">="}

(* what a caller can build with one call or with Not(): the query with its new values, the
   condition, and the condition over the values themselves *)
Built(q) ==
    {<<AddParam(q, val), Compare(op, key, q.mParamIdx), Compare(op, key, val)>> :
        op \in Operators, key \in Columns, val \in Vals}                  \* Equals, LessThan, ...
    \cup {<<AddParam(q, 0), Compare(">", key, q.mParamIdx), Compare(">", key, 0)>> :
             key \in Columns}                                             \* IsTrue
    \cup {<<q, IsNull(key), IsNull(key)>> : key \in Columns}              \* Equals(key, nullptr)
    \cup {<<q, Not(IsNull(key)), Not(IsNull(key))>> : key \in Columns}    \* NotEquals(key, nullptr)
    \cup {<<AddParam(AddParam(q, v), w),
            Or(Compare("=", key, q.mParamIdx), Compare("=", key, q.mParamIdx + 1)),
            Or(Compare("=", key, v), Compare("=", key, w))>> :
             key \in Columns, v, w \in Vals}                              \* ManyEqualsOr
    \cup {<<AddParam(q, val), Not(Compare("=", key, q.mParamIdx)), Not(Compare("=", key, val))>> :
             key \in Columns, val \in Vals}

Where ==
    /\ Len(meant) < MaxWhere
    /\ \E b \in Built(query) :
        /\ b[1].mParamIdx <= MaxParams
        /\ query' = [b[1] EXCEPT !.mWhere = IF @ = Empty THEN b[2] ELSE And(@, b[2])]
        /\ meant' = Append(meant, b[3])

(* mutant of WhereReset: the next value gets the placeholder of one that is still there *)
WhereRestart ==
    /\ query' = [query EXCEPT !.mWhere = Empty, !.mParamIdx = 0]
    /\ meant' = <<>>

(* Where(nullptr); the values of the conditions that are gone stay *)
WhereReset ==
    /\ query' = [query EXCEPT !.mWhere = Empty]
    /\ meant' = <<>>

OrderBy ==
    \/ \E key \in Columns, desc \in BOOLEAN :
         query' = [query EXCEPT !.mOrderBy = key, !.mOrderDesc = desc] /\ UNCHANGED meant
    \/ query' = [query EXCEPT !.mOrderBy = Empty, !.mOrderDesc = FALSE] /\ UNCHANGED meant

(* LIMIT and OFFSET, each set or reset without the other *)
Limit == \E l \in {Null, 0, 1} : query' = [query EXCEPT !.mLimit = l] /\ UNCHANGED meant
Offset == \E o \in {Null, 0, 1} : query' = [query EXCEPT !.mOffset = o] /\ UNCHANGED meant

QueryNext == Where \/ WhereReset \/ OrderBy \/ Limit \/ Offset

-----------------------------------------------------------------------------
(* SQL: "T", "F" or "N" for a condition, `value' giving the value of a placeholder *)
Holds(b) == IF b THEN "T" ELSE "F"

Comparison(op, x, y) ==
    CASE op = "=" -> x = y [] op = "<>" -> x # y [] op = "<" -> x < y
      [] op = "<=" -> x <= y [] op = ">" -> x > y [] op = ">=" -> x >= y

RECURSIVE Truth(_, _, _)
Truth(cond, row, value) ==
    CASE cond.op \in Operators ->
            IF row[cond.key] = Null THEN "N" ELSE Holds(Comparison(cond.op, row[cond.key], value[cond.idx]))
      [] cond.op = "IS NULL" -> Holds(row[cond.key] = Null)
      [] cond.op = "NOT" -> LET t == Truth(cond.arg, row, value)
                            IN  CASE t = "T" -> "F" [] t = "F" -> "T" [] OTHER -> "N"
      [] cond.op = "OR" -> LET t == {Truth(cond.a, row, value), Truth(cond.b, row, value)}
                           IN  IF "T" \in t THEN "T" ELSE IF "N" \in t THEN "N" ELSE "F"
      [] cond.op = "AND" -> LET t == {Truth(cond.a, row, value), Truth(cond.b, row, value)}
                            IN  IF "F" \in t THEN "F" ELSE IF "N" \in t THEN "N" ELSE "T"

Rows == [Columns -> Vals \cup {Null}]

(* A query selects the rows for which each condition given since the last reset is true,
   with the values it was given: no condition is compared with another one's value
   (AddParam, Where).  A row with NULL in the column is selected by IS NULL alone. *)
SelectsMeant ==
    \A row \in Rows :
        (query.mWhere = Empty \/ Truth(query.mWhere, row, query.mParams) = "T")
        <=> \A c \in ToSet(meant) : Truth(c, row, [v \in Vals \cup {0} |-> v]) = "T"
=============================================================================
