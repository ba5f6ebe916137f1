----------------------------- MODULE OrderedMap ------------------------------
(* OrderedMapAnyEntry: a list of entries and a table that finds an entry's place in the list
   by its key.  A place (an iterator) is the address of a node; `map' is the history
   variable the table and list are to implement, a sequence of pairs without a key twice. *)
EXTENDS Integers, SequencesExt

CONSTANTS Keys, Entries, MaxSize    \* MaxSize: addresses in use at a time

VARIABLES mQueue, mLookup, node, map

mapVars == <<mQueue, mLookup, node, map>>

Addresses == 1 .. MaxSize
NewAddress == CHOOSE a \in Addresses : \A i \in DOMAIN mQueue : mQueue[i] # a

MapInit == mQueue = <<>> /\ mLookup = <<>> /\ node = <<>> /\ map = <<>>

exists(key) == key \in DOMAIN mLookup

Drop(f, x) == [k \in DOMAIN f \ {x} |-> f[k]]
Add(f, x, v) == [k \in DOMAIN f \cup {x} |-> IF k = x THEN v ELSE f[k]]

enqueue(front) ==
    \E key \in Keys, value \in Entries :
        LET a == NewAddress
        IN  /\ ~exists(key) /\ Len(mQueue) < MaxSize      \* the callers' duty
            /\ mQueue' = IF front THEN <<a>> \o mQueue ELSE Append(mQueue, a)
            /\ node' = Add(node, a, <<key, value>>)
            /\ mLookup' = Add(mLookup, key, a)
            /\ map' = IF front THEN <<<<key, value>>>> \o map ELSE Append(map, <<key, value>>)

enqueue_front == enqueue(TRUE)
enqueue_back == enqueue(FALSE)

EraseNode(a) ==
    /\ mQueue' = RemoveAt(mQueue, CHOOSE i \in DOMAIN mQueue : mQueue[i] = a)
    /\ node' = Drop(node, a)

(* erase(key), erase(lookup(key)) and pop(key, value) *)
erase ==
    \E key \in Keys :
        /\ exists(key)
        /\ EraseNode(mLookup[key])
        /\ mLookup' = Drop(mLookup, key)
        /\ map' = RemoveAt(map, CHOOSE i \in DOMAIN map : map[i][1] = key)

(* mutant of pop: the table keeps the key *)
popEntry(a, rest) ==
    /\ mQueue # <<>>
    /\ EraseNode(a)
    /\ mLookup' = mLookup
    /\ map' = rest

pop(a, rest) ==
    /\ mQueue # <<>>
    /\ mLookup' = Drop(mLookup, node[a][1])
    /\ EraseNode(a)
    /\ map' = rest

pop_front == mQueue # <<>> /\ pop(Head(mQueue), Tail(map))
pop_back == mQueue # <<>> /\ pop(Last(mQueue), Front(map))

clear == mQueue' = <<>> /\ mLookup' = <<>> /\ node' = <<>> /\ map' = <<>>

MapNext == enqueue_front \/ enqueue_back \/ erase \/ pop_front \/ pop_back \/ clear

MapSpec == MapInit /\ [][MapNext]_mapVars

(* what find(key) gives, None of the queue's places for end() *)
find(key) == IF exists(key) THEN {node[mLookup[key]]} ELSE {}

(* The list in its order is the map, and find() gives for every key the entry the list has
   for it: no place of the table is one of an entry that is gone. *)
TableIsList ==
    /\ [i \in DOMAIN mQueue |-> node[mQueue[i]]] = map
    /\ DOMAIN mLookup = {map[i][1] : i \in DOMAIN map}
    /\ \A key \in Keys : exists(key) => mLookup[key] \in DOMAIN node
    /\ \A key \in Keys : find(key) = {map[i] : i \in {j \in DOMAIN map : map[j][1] = key}}
=============================================================================
