------------------------------- MODULE Strings -------------------------------
(* StringUtil and the LIKE of QueryBuilder, on sequences of characters.  Only TLC uses this
   module: the loops of the source are recursive operators here. *)
EXTENDS Integers, SequencesExt

Unlimited == 1000      \* the default max of explode(): more than any string has parts

(* find(): the first position from `pos' on where `what' starts, 0 for npos *)
Find(str, what, pos) ==
    LET at == {i \in pos .. Len(str) - Len(what) + 1 :
                  SubSeq(str, i, i + Len(what) - 1) = what}
    IN  IF at = {} THEN 0 ELSE CHOOSE i \in at : \A j \in at : i <= j

implode(glue, arr) ==
    IF arr = <<>> THEN <<>>
    ELSE arr[1] \o FlattenSeq([i \in 1 .. Len(arr) - 1 |-> glue \o arr[i + 1]])

-----------------------------------------------------------------------------
(* explode(), its loop on what is left of the string: `el' is the element that grows over
   delimiters that are to be skipped *)
RECURSIVE ExplodeFrom(_, _, _, _, _, _)
ExplodeFrom(str, delim, el, list, skip, max) ==
    LET end == Find(str, delim, 1)
        rest == SubSeq(str, end + Len(delim), Len(str))
        head == el \o SubSeq(str, 1, end - 1)
    IN  IF Len(list) + 1 >= max \/ end = 0 THEN Append(list, el \o str)
        ELSE IF skip = 0 THEN ExplodeFrom(rest, delim, <<>>, Append(list, head), 0, max)
        ELSE ExplodeFrom(rest, delim, head \o delim, list, skip - 1, max)

explode(str, delim, skip, reverse, max) ==
    IF str = <<>> THEN <<>>
    ELSE IF delim = <<>> THEN <<str>>
    ELSE IF ~reverse THEN ExplodeFrom(str, delim, <<>>, <<>>, skip, max)
    ELSE LET list == ExplodeFrom(Reverse(str), delim, <<>>, <<>>, skip, max)
         IN  Reverse([i \in 1 .. Len(list) |-> Reverse(list[i])])

split(str, delim, skip, reverse) ==
    LET list == explode(str, delim, skip, reverse, 2)
        padding == [i \in 1 .. 2 - Len(list) |-> <<>>]
    IN  IF reverse THEN padding \o list ELSE list \o padding

RECURSIVE splitPath(_)
splitPath(str) ==
    IF str # <<>> /\ Last(str) = "/" THEN splitPath(Front(str))
    ELSE split(str, <<"/">>, 0, TRUE)

RECURSIVE ReplaceFrom(_, _, _, _)
ReplaceFrom(str, from, repl, pos) ==
    LET at == Find(str, from, pos)
    IN  IF at = 0 THEN str
        ELSE ReplaceFrom(SubSeq(str, 1, at - 1) \o repl \o SubSeq(str, at + Len(from), Len(str)),
                         from, repl, at + Len(repl))

replaceAll(str, from, repl) == IF from = <<>> THEN str ELSE ReplaceFrom(str, from, repl, 1)

(* mutant of escapeAll: the escape itself is not escaped *)
escapeDelims(str, delims, escape) ==
    FoldLeft(LAMBDA s, d : replaceAll(s, <<d>>, <<escape, d>>), str, delims)

escapeAll(str, delims, escape) ==
    FoldLeft(LAMBDA s, d : replaceAll(s, <<d>>, <<escape, d>>),
             replaceAll(str, <<escape>>, <<escape, escape>>), delims)

-----------------------------------------------------------------------------
(* QueryBuilder: EscapeWildcards and Like *)
EscapeWildcards(q) == escapeAll(q, <<"_", "%">>, "\\")

LikePattern(val, hasMatch) == IF hasMatch THEN val ELSE <<"%">> \o EscapeWildcards(val) \o <<"%">>

(* x LIKE pattern ESCAPE '\' in SQL *)
RECURSIVE Matches(_, _)
Matches(x, pattern) ==
    IF pattern = <<>> THEN x = <<>>
    ELSE LET p == Head(pattern)
             more == Tail(pattern)
         IN  CASE p = "%" -> \E n \in 0 .. Len(x) : Matches(SubSeq(x, n + 1, Len(x)), more)
               [] p = "_" -> x # <<>> /\ Matches(Tail(x), more)
               [] p = "\\" -> /\ x # <<>> /\ more # <<>> /\ Head(x) = Head(more)
                              /\ Matches(Tail(x), Tail(more))
               [] OTHER -> x # <<>> /\ Head(x) = p /\ Matches(Tail(x), more)

-----------------------------------------------------------------------------
(* Sizes: a text is a number and the index of its unit in "", K, M, G, T, P.  bytesMul is
   1024 in the source and the number one of 64 bits. *)
CONSTANTS bytesMul, Width

bytesToString(bytes) ==
    LET divides(u) == bytes % bytesMul ^ u = 0
        unit == CHOOSE u \in 0 .. 5 :
                   /\ divides(u) /\ (u > 0 => bytes > 0)
                   /\ \A v \in 0 .. 5 : divides(v) /\ (v > 0 => bytes > 0) => v <= u
    IN  [num |-> bytes \div bytesMul ^ unit, unit |-> unit]

stringToBytes(text) == (text.num * bytesMul ^ text.unit) % 2 ^ Width

-----------------------------------------------------------------------------
VARIABLES str, other

CONSTANTS Characters, MaxLen

Words(n) == UNION {[1 .. k -> Characters] : k \in 0 .. n}

StringInit == str \in Words(MaxLen) /\ other \in Words(2)
StringNext == UNCHANGED <<str, other>>

(* explode() gives all of the string, in parts that have no delimiter but the first, which
   has the ones that were skipped; split() cuts at one of them, the first or the last
   that is not skipped, or not at all. *)
PartsAreWhole ==
    \A skip \in 0 .. 2 :
        LET parts == explode(str, <<"/">>, skip, FALSE, Unlimited)
            first == split(str, <<"/">>, skip, FALSE)
            last == split(str, <<"/">>, 0, TRUE)
            slashes(s) == Cardinality({i \in 1 .. Len(s) : s[i] = "/"})
        IN  /\ implode(<<"/">>, parts) = str
            /\ \A i \in 2 .. Len(parts) : slashes(parts[i]) = 0
            /\ parts # <<>> => slashes(parts[1]) <= skip
            /\ str = first[1] \o (IF slashes(str) > skip THEN <<"/">> ELSE <<>>) \o first[2]
            /\ str = last[1] \o (IF slashes(str) > 0 THEN <<"/">> ELSE <<>>) \o last[2]
            /\ slashes(last[2]) = 0
            /\ slashes(splitPath(str)[2]) = 0

(* A size that is printed is read back as the same size. *)
SizeRoundTrip ==
    stringToBytes(bytesToString(Len(str) * bytesMul ^ Len(other))) = Len(str) * bytesMul ^ Len(other)

(* A search for a text finds the strings that contain it and no others, whatever wildcards
   and escapes it has (EscapeWildcards, Like); and what is taken apart or printed can be put
   together or read again. *)
TextIsKept ==
    /\ Matches(str, LikePattern(other, FALSE)) <=> other = <<>> \/ Find(str, other, 1) # 0
    /\ PartsAreWhole /\ SizeRoundTrip
=============================================================================
