---------------------------- MODULE NumberLemmas ----------------------------
(***************************************************************************)
(* Facts about natural numbers and about sequences that the proofs about   *)
(* the components need and the library states only with an operator as a   *)
(* parameter, or not at all: induction, the least and the largest element  *)
(* of a set, division into pages, and what a sequence contains when        *)
(* elements are added, removed or put after others.                        *)
(***************************************************************************)
EXTENDS Integers, SequencesExt, FiniteSetTheorems, WellFoundedInduction, TLAPS

(* a set of natural numbers has a least element *)
LEMMA LeastElement ==
    ASSUME NEW S, S \subseteq Nat, S # {}
    PROVE  \E n \in S : \A m \in S : n <= m
<1> DEFINE R == OpToRel(<, Nat)
<1>1. IsWellFoundedOn(R, Nat)
  BY NatLessThanWellFounded
<1>2. \A m, n \in Nat : m < n => <<m, n>> \in R
  BY DEF OpToRel
<1> HIDE DEF R
<1>3. PICK n \in S : \A m \in S : ~ (<<m, n>> \in R)
  BY <1>1, WFMin
<1>4. ASSUME NEW m \in S PROVE n <= m
  <2>1. m \in Nat /\ n \in Nat /\ ~(m < n)
    BY <1>2, <1>3
  <2> QED
    BY <2>1
<1> QED
  BY <1>4

(* and, when it is bounded, a largest one *)
LEMMA LargestElement ==
    ASSUME NEW S, S \subseteq Nat, S # {}, NEW b \in Nat, \A m \in S : m <= b
    PROVE  \E n \in S : \A m \in S : m <= n
<1> DEFINE T == {b - m : m \in S}
<1>1. T \subseteq Nat /\ T # {}
  <2>1. \A m \in S : b - m \in Nat
    OBVIOUS
  <2> QED
    BY <2>1
<1>2. PICK t \in T : \A u \in T : t <= u
  <2> HIDE DEF T
  <2> QED
    BY <1>1, LeastElement
<1>3. PICK n \in S : t = b - n
  BY <1>2
<1>4. ASSUME NEW m \in S PROVE m <= n
  <2>1. b - n <= b - m /\ m \in Nat /\ n \in Nat
    BY <1>2, <1>3
  <2> QED
    BY <2>1
<1> QED
  BY <1>4

(* induction: a set with 0 and with the successor of each of its members *)
LEMMA SetInduction ==
    ASSUME NEW S, 0 \in S, \A n \in Nat : n \in S => n + 1 \in S
    PROVE  Nat \subseteq S
<1> DEFINE T == Nat \ S
<1> SUFFICES ASSUME T # {} PROVE FALSE
  OBVIOUS
<1>1. PICK n \in T : \A m \in T : n <= m
  BY LeastElement
<1>2. n \in Nat /\ n # 0 /\ n - 1 \in Nat /\ n - 1 \notin T
  BY <1>1
<1> QED
  BY <1>1, <1>2

(* a function that is defined by recursion over an initial segment exists *)
StepFunctions(N, S) == [1 .. N -> [S -> S]]
Iterates(f, N, S, b, next) ==
    f \in [0 .. N -> S] /\ f[0] = b /\ \A n \in 1 .. N : f[n] = next[n][f[n - 1]]

(* a function may be defined by recursion, step by step *)
LEMMA Recursion ==
    ASSUME NEW S, NEW N \in Nat, NEW b \in S, NEW next \in StepFunctions(N, S)
    PROVE  \E f : Iterates(f, N, S, b, next)
<1> DEFINE Rec(f, m) == /\ f \in [0 .. m -> S] /\ f[0] = b
                        /\ \A n \in 1 .. m : f[n] = next[n][f[n - 1]]
           T == {m \in Nat : m <= N => \E f : Rec(f, m)}
<1>1. 0 \in T
  <2>1. Rec([n \in 0 .. 0 |-> b], 0)
    OBVIOUS
  <2> QED
    BY <2>1
<1>2. ASSUME NEW m \in Nat, m \in T PROVE m + 1 \in T
  <2> SUFFICES ASSUME m + 1 <= N PROVE \E f : Rec(f, m + 1)
    OBVIOUS
  <2>1. PICK f : Rec(f, m)
    BY <1>2
  <2> DEFINE last == next[m + 1][f[m]]
             g == [n \in 0 .. m + 1 |-> IF n = m + 1 THEN last ELSE f[n]]
  <2>2. f[m] \in S /\ m + 1 \in 1 .. N
    BY <2>1
  <2>3. last \in S
    BY <2>2 DEF StepFunctions
  <2> HIDE DEF last
  <2>4. g \in [0 .. m + 1 -> S] /\ g[0] = b
    BY <2>1, <2>3
  <2>5. ASSUME NEW n \in 1 .. m + 1 PROVE g[n] = next[n][g[n - 1]]
    <3>1. g[n - 1] = f[n - 1]
      OBVIOUS
    <3>2. CASE n = m + 1
      <4>1. g[n] = last /\ n - 1 = m
        BY <3>2
      <4> QED
        BY <3>1, <3>2, <4>1 DEF last
    <3>3. CASE n # m + 1
      <4>1. n \in 1 .. m /\ g[n] = f[n]
        BY <3>3
      <4> HIDE DEF g
      <4> QED
        BY <2>1, <3>1, <4>1
    <3> QED
      BY <3>2, <3>3
  <2> HIDE DEF g
  <2>6. Rec(g, m + 1)
    BY <2>4, <2>5
  <2> QED
    BY <2>6
<1>3. N \in T
  <2> HIDE DEF T
  <2>1. \A m \in Nat : m \in T => m + 1 \in T
    BY <1>2
  <2> QED
    BY <1>1, <2>1, SetInduction
<1>4. PICK f : Rec(f, N)
  BY <1>3
<1> QED
  BY <1>4 DEF Iterates

(* multiples of a page size lie a page apart *)
LEMMA Multiples ==
    ASSUME NEW p \in Nat \ {0}, NEW i \in Nat, NEW j \in Nat
    PROVE  /\ i * p \in Nat /\ (i + 1) * p = i * p + p
           /\ i < j => i * p + p <= j * p
<1>1. i * p \in Nat /\ (i + 1) * p = i * p + p
  OBVIOUS
<1>2. ASSUME i < j PROVE i * p + p <= j * p
  <2>1. PICK d \in Nat : j = (i + 1) + d
    <3>1. j - (i + 1) \in Nat /\ j = (i + 1) + (j - (i + 1))
      BY <1>2
    <3> QED
      BY <3>1
  <2>2. j * p = (i + 1) * p + d * p
    BY <2>1
  <2>3. d * p \in Nat
    OBVIOUS
  <2> QED
    BY <1>1, <2>2, <2>3
<1> QED
  BY <1>1, <1>2

(* the page that the k-th byte is in *)
LEMMA Quotient ==
    ASSUME NEW p \in Nat \ {0}, NEW k \in Nat \ {0}
    PROVE  /\ (k - 1) \div p \in Nat
           /\ ((k - 1) \div p) * p < k /\ k <= ((k - 1) \div p) * p + p
<1> DEFINE a == k - 1
           q == a \div p
           r == a % p
<1>1. a \in Nat /\ q \in Int /\ r \in 0 .. p - 1
  OBVIOUS
<1>2. a = p * q + r
  OBVIOUS
<1>3. q \in Nat
  OBVIOUS
<1>4. k = a + 1
  OBVIOUS
<1> HIDE DEF a, q, r
<1>5. p * q = q * p /\ q * p \in Nat
  BY <1>3
<1>6. q * p < k /\ k <= q * p + p
  BY <1>1, <1>2, <1>3, <1>4, <1>5
<1> QED
  BY <1>3, <1>6 DEF a, q

(* Every number is a multiple and a rest. *)
LEMMA Division ==
    ASSUME NEW p \in Nat \ {0}, NEW n \in Nat
    PROVE  /\ n \div p \in Nat /\ n % p \in 0 .. p - 1
           /\ n = (n \div p) * p + (n % p)
<1>1. n \div p \in Nat /\ n % p \in 0 .. p - 1
  OBVIOUS
<1>2. n = p * (n \div p) + (n % p)
  OBVIOUS
<1> QED
  BY <1>1, <1>2

-----------------------------------------------------------------------------
(* the elements of two sequences, one after the other *)
LEMMA ConcatElements ==
    ASSUME NEW S, NEW s \in Seq(S), NEW t \in Seq(S)
    PROVE  /\ s \o t \in Seq(S) /\ Len(s \o t) = Len(s) + Len(t)
           /\ Len(s) \in Nat /\ Len(t) \in Nat
           /\ \A j \in 1 .. Len(s) + Len(t) :
                (s \o t)[j] = IF j <= Len(s) THEN s[j] ELSE t[j - Len(s)]
OBVIOUS

(* RemoveAt(): what is left, in its order *)
LEMMA Removal ==
    ASSUME NEW S, NEW s \in Seq(S), NEW i \in 1 .. Len(s)
    PROVE  /\ RemoveAt(s, i) \in Seq(S) /\ Len(RemoveAt(s, i)) = Len(s) - 1
           /\ \A j \in 1 .. Len(s) - 1 :
                RemoveAt(s, i)[j] = IF j < i THEN s[j] ELSE s[j + 1]
<1> DEFINE a == SubSeq(s, 1, i - 1)
           b == SubSeq(s, i + 1, Len(s))
<1>1. Len(s) \in Nat /\ i \in Nat
  OBVIOUS
<1>2. a \in Seq(S) /\ Len(a) = i - 1 /\ \A j \in 1 .. i - 1 : a[j] = s[j]
  OBVIOUS
<1>3. b \in Seq(S) /\ Len(b) = Len(s) - i /\ \A j \in 1 .. Len(s) - i : b[j] = s[i + j]
  OBVIOUS
<1> HIDE DEF a, b
<1>4. RemoveAt(s, i) = a \o b
  BY DEF RemoveAt, a, b
<1>5. /\ a \o b \in Seq(S) /\ Len(a \o b) = Len(a) + Len(b)
      /\ \A j \in 1 .. Len(a) + Len(b) :
           (a \o b)[j] = IF j <= Len(a) THEN a[j] ELSE b[j - Len(a)]
  BY <1>2, <1>3, ConcatElements
<1>6. Len(a) + Len(b) = Len(s) - 1
  BY <1>1, <1>2, <1>3
<1>7. ASSUME NEW j \in 1 .. Len(s) - 1
      PROVE  (a \o b)[j] = IF j < i THEN s[j] ELSE s[j + 1]
  <2>0. (a \o b)[j] = IF j <= i - 1 THEN a[j] ELSE b[j - (i - 1)]
    BY <1>2, <1>5, <1>6
  <2>1. CASE j < i
    BY <1>1, <1>2, <2>0, <2>1
  <2>2. CASE j >= i
    <3>1. (a \o b)[j] = b[j - (i - 1)] /\ j - (i - 1) \in 1 .. Len(s) - i
      BY <1>1, <2>0, <2>2
    <3>2. i + (j - (i - 1)) = j + 1
      BY <1>1
    <3> QED
      BY <1>1, <1>3, <2>2, <3>1, <3>2
  <2>3. j < i \/ j >= i
    BY <1>1
  <2> QED
    BY <2>1, <2>2, <2>3
<1> QED
  BY <1>4, <1>5, <1>6, <1>7

(* what is in a sequence without repetitions after Append(), \o and RemoveAt() *)
LEMMA AppendContains ==
    ASSUME NEW S, NEW s \in Seq(S), NEW e \in S
    PROVE  /\ Append(s, e) \in Seq(S)
           /\ \A x : Contains(Append(s, e), x) <=> Contains(s, x) \/ x = e
           /\ IsInjective(s) /\ ~Contains(s, e) => IsInjective(Append(s, e))
BY DEF Contains, IsInjective

(* a sequence without repetitions loses the element at i and no other *)
LEMMA RemovalContains ==
    ASSUME NEW S, NEW s \in Seq(S), IsInjective(s), NEW i \in 1 .. Len(s)
    PROVE  /\ \A x : Contains(RemoveAt(s, i), x) <=> Contains(s, x) /\ x # s[i]
           /\ IsInjective(RemoveAt(s, i))
<1> DEFINE r == RemoveAt(s, i)
<1>1. /\ r \in Seq(S) /\ Len(r) = Len(s) - 1 /\ Len(s) \in Nat /\ i \in Nat
      /\ \A j \in 1 .. Len(s) - 1 : r[j] = IF j < i THEN s[j] ELSE s[j + 1]
  BY Removal
<1> HIDE DEF r
<1>2. \A j \in 1 .. Len(s) - 1 : \E k \in 1 .. Len(s) : r[j] = s[k] /\ k # i
  BY <1>1, SMTT(30)
<1>3. ASSUME NEW k \in 1 .. Len(s), k # i PROVE \E j \in 1 .. Len(s) - 1 : r[j] = s[k]
  <2>1. CASE k < i
    BY <1>1, <2>1
  <2>2. CASE k > i
    <3>1. k - 1 \in 1 .. Len(s) - 1 /\ ~(k - 1 < i) /\ (k - 1) + 1 = k
      BY <1>1, <2>2
    <3> QED
      BY <1>1, <3>1
  <2> QED
    BY <1>1, <1>3, <2>1, <2>2
<1>4. ASSUME NEW x PROVE Contains(r, x) <=> Contains(s, x) /\ x # s[i]
  <2>1. ASSUME Contains(r, x) PROVE Contains(s, x) /\ x # s[i]
    <3>1. PICK j \in 1 .. Len(s) - 1 : r[j] = x
      BY <1>1, <2>1 DEF Contains
    <3>2. PICK k \in 1 .. Len(s) : x = s[k] /\ k # i
      BY <1>2, <3>1
    <3>3. DOMAIN s = 1 .. Len(s)
      OBVIOUS
    <3> QED
      BY <3>2, <3>3 DEF Contains, IsInjective
  <2>2. ASSUME Contains(s, x), x # s[i] PROVE Contains(r, x)
    <3>1. PICK k \in 1 .. Len(s) : s[k] = x
      BY <2>2 DEF Contains
    <3>2. PICK j \in 1 .. Len(s) - 1 : r[j] = x
      BY <1>3, <2>2, <3>1
    <3> QED
      BY <1>1, <3>2 DEF Contains
  <2> QED
    BY <2>1, <2>2
<1>5. IsInjective(r)
  BY <1>1 DEF IsInjective
<1> QED
  BY <1>4, <1>5 DEF r

(* what two sequences contain together *)
LEMMA ConcatContains ==
    ASSUME NEW S, NEW s \in Seq(S), NEW t \in Seq(S)
    PROVE  /\ s \o t \in Seq(S)
           /\ \A x : Contains(s \o t, x) <=> Contains(s, x) \/ Contains(t, x)
<1>1. s \o t \in Seq(S) /\ Len(s \o t) = Len(s) + Len(t) /\ Len(s) \in Nat /\ Len(t) \in Nat
  BY ConcatElements
<1>2. \A j \in 1 .. Len(s) + Len(t) : (s \o t)[j] = IF j <= Len(s) THEN s[j] ELSE t[j - Len(s)]
  BY ConcatElements
<1>3. ASSUME NEW j \in 1 .. Len(t)
      PROVE  Len(s) + j \in 1 .. Len(s) + Len(t) /\ (s \o t)[Len(s) + j] = t[j]
  BY <1>1, <1>2
<1>4. ASSUME NEW j \in 1 .. Len(s)
      PROVE  j \in 1 .. Len(s) + Len(t) /\ (s \o t)[j] = s[j]
  BY <1>1, <1>2
<1>5. ASSUME NEW x PROVE Contains(s \o t, x) <=> Contains(s, x) \/ Contains(t, x)
  <2>1. Contains(s \o t, x) => Contains(s, x) \/ Contains(t, x)
    BY <1>1, <1>2 DEF Contains
  <2>2. Contains(s, x) \/ Contains(t, x) => Contains(s \o t, x)
    BY <1>1, <1>3, <1>4 DEF Contains
  <2> QED
    BY <2>1, <2>2
<1> QED
  BY <1>1, <1>5

(* the first of a sequence, and the others *)
LEMMA TailContains ==
    ASSUME NEW S, NEW s \in Seq(S), s # <<>>
    PROVE  /\ Head(s) \in S /\ Tail(s) \in Seq(S)
           /\ \A x : Contains(s, x) <=> x = Head(s) \/ Contains(Tail(s), x)
<1>1. /\ Len(s) \in Nat /\ Len(s) >= 1 /\ Head(s) = s[1] /\ Tail(s) \in Seq(S)
      /\ Len(Tail(s)) = Len(s) - 1 /\ \A j \in 1 .. Len(s) - 1 : Tail(s)[j] = s[j + 1]
  OBVIOUS
<1>2. ASSUME NEW x PROVE Contains(s, x) <=> x = Head(s) \/ Contains(Tail(s), x)
  <2>1. Contains(s, x) => x = Head(s) \/ Contains(Tail(s), x)
    <3> SUFFICES ASSUME NEW i \in 1 .. Len(s), s[i] = x, i # 1 PROVE Contains(Tail(s), x)
      BY <1>1 DEF Contains
    <3>1. i - 1 \in 1 .. Len(s) - 1 /\ (i - 1) + 1 = i
      BY <1>1
    <3> QED
      BY <1>1, <3>1 DEF Contains
  <2>2. x = Head(s) => Contains(s, x)
    BY <1>1 DEF Contains
  <2>3. Contains(Tail(s), x) => Contains(s, x)
    BY <1>1 DEF Contains
  <2> QED
    BY <2>1, <2>2, <2>3
<1> QED
  BY <1>1, <1>2

(* the empty sequence *)
LEMMA EmptyContains ==
    ASSUME NEW S
    PROVE  /\ \A x : ~Contains(<< >>, x)
           /\ IsInjective(<< >>) /\ << >> \in Seq(S) /\ DOMAIN << >> = {}
<1>1. Len(<< >>) = 0 /\ << >> \in Seq(S) /\ DOMAIN << >> = {}
  OBVIOUS
<1>2. \A x : ~Contains(<< >>, x)
  BY DEF Contains
<1>3. IsInjective(<< >>)
  BY <1>1 DEF IsInjective
<1> QED
  BY <1>1, <1>2, <1>3
=============================================================================
