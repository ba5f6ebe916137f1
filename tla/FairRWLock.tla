----------------------------- MODULE FairRWLock -----------------------------
(***************************************************************************)
(* What SharedMutex promises to its callers: a readers/writer lock that is  *)
(* both readers-priority and a fair queue (SharedMutex.hpp:12-16).          *)
(* Requests are either fair (writers "W" and plain readers "R"), served in  *)
(* the order they arrive, or hurried (priority readers "RP"), served before *)
(* every fair request.  How a waiter sleeps, wakes and looks again is the   *)
(* business of the implementation and is not visible here.                  *)
(***************************************************************************)
EXTENDS Sequences

CONSTANT Threads

VARIABLES
    held,       \* held[t]: "none", or the kind of lock the thread owns
    line,       \* the fair requests waiting, in order of arrival: <<thread, kind>>
    hurried     \* the priority readers waiting, in no order

vars == <<held, line, hurried>>

Fair == {"W", "R"}
Holders == {t \in Threads : held[t] # "none"}
Reading == {t \in Threads : held[t] \in {"R", "RP"}}

(* a lock of this kind may be held beside the locks held now *)
Compatible(kind) == IF kind = "W" THEN Holders = {} ELSE Holders = Reading

Waiting(t) == t \in hurried \/ \E i \in DOMAIN line : line[i][1] = t
Idle(t) == held[t] = "none" /\ ~Waiting(t)

Init ==
    /\ held = [t \in Threads |-> "none"]
    /\ line = <<>>
    /\ hurried = {}

Request(t, kind) ==
    /\ Idle(t)
    /\ IF kind \in Fair
       THEN line' = Append(line, <<t, kind>>) /\ UNCHANGED hurried
       ELSE hurried' = hurried \cup {t} /\ UNCHANGED line
    /\ UNCHANGED held

(* a fair request is granted when it is the first of the line and no hurried
   request waits, a hurried one whenever no writer holds the lock *)
GrantFair(t) ==
    /\ line # <<>> /\ Head(line)[1] = t
    /\ hurried = {}
    /\ Compatible(Head(line)[2])
    /\ held' = [held EXCEPT ![t] = Head(line)[2]]
    /\ line' = Tail(line)
    /\ UNCHANGED hurried

GrantHurried(t) ==
    /\ t \in hurried
    /\ Compatible("RP")
    /\ held' = [held EXCEPT ![t] = "RP"]
    /\ hurried' = hurried \ {t}
    /\ UNCHANGED line

(* a request that is granted on arrival overtakes nobody it may not overtake *)
GrantAtOnce(t, kind) ==
    /\ Idle(t)
    /\ kind \in Fair => line = <<>> /\ hurried = {}
    /\ Compatible(kind)
    /\ held' = [held EXCEPT ![t] = kind]
    /\ UNCHANGED <<line, hurried>>

Release(t) ==
    /\ held[t] # "none"
    /\ held' = [held EXCEPT ![t] = "none"]
    /\ UNCHANGED <<line, hurried>>

Next == \E t \in Threads :
    \/ \E kind \in {"W", "R", "RP"} : Request(t, kind) \/ GrantAtOnce(t, kind)
    \/ GrantFair(t)
    \/ GrantHurried(t)
    \/ Release(t)

Spec == Init /\ [][Next]_vars
=============================================================================
