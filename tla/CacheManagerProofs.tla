------------------------- MODULE CacheManagerProofs -------------------------
(***************************************************************************)
(* Proofs about CacheManager for every number of callers, pages, sizes and  *)
(* limits: the queues are what is in memory.                                *)
(***************************************************************************)
EXTENDS CacheManager, NumberLemmas, SequenceTheorems

-----------------------------------------------------------------------------
(* Queues: entries of pages, each page once. *)
Queue == Seq(Entries)
Distinct(q) == \A i, j \in 1 .. Len(q) : q[i].page = q[j].page => i = j
EndPage(q) == q[Len(q)].page
(* the last entry stays the last, if it is not of one of the pages ps *)
EndKept(q, r, ps) ==
    q # <<>> /\ EndPage(q) \notin ps => r # <<>> /\ EndPage(r) = EndPage(q)

(* An entry of a queue is a page with the size it has in memory. *)
LEMMA EntryFields ==
    ASSUME NEW q \in Queue, NEW i \in 1 .. Len(q)
    PROVE  q[i] \in Entries /\ q[i].page \in Pages /\ q[i].size \in Nat \ {0}
           /\ q[i].size \in 1 .. MaxPageSize
<1>1. q[i] \in Entries
  BY DEF Queue
<1> QED
  BY <1>1, CacheSizesAssumption DEF Entries

(* A page's size in a queue is that of its entry, since it has one only, *)
LEMMA SizeOfAt ==
    ASSUME NEW q \in Queue, Distinct(q), NEW i \in 1 .. Len(q)
    PROVE  SizeOf(q, q[i].page) = q[i].size
<1> DEFINE at == {j \in 1 .. Len(q) : q[j].page = q[i].page}
<1>1. at = {i}
  BY DEF Distinct
<1>2. (CHOOSE j \in at : TRUE) = i
  BY <1>1
<1> QED
  BY <1>1, <1>2 DEF SizeOf

(* and 0 if it has none. *)
LEMMA SizeOfNone ==
    ASSUME NEW q, NEW p, \A i \in 1 .. Len(q) : q[i].page # p
    PROVE  SizeOf(q, p) = 0
BY DEF SizeOf

(* Entries have sizes, so a size of 0 says that there is none. *)
LEMMA SizeOfType ==
    ASSUME NEW q \in Queue, Distinct(q), NEW p
    PROVE  /\ SizeOf(q, p) \in 0 .. MaxPageSize
           /\ SizeOf(q, p) = 0 <=> \A i \in 1 .. Len(q) : q[i].page # p
<1>1. CASE \A i \in 1 .. Len(q) : q[i].page # p
  BY <1>1, SizeOfNone, CacheSizesAssumption
<1>2. ASSUME NEW i \in 1 .. Len(q), q[i].page = p
      PROVE  SizeOf(q, p) = q[i].size /\ q[i].size \in 1 .. MaxPageSize
  BY <1>2, SizeOfAt, EntryFields
<1>3. 0 \notin 1 .. MaxPageSize /\ 1 .. MaxPageSize \subseteq 0 .. MaxPageSize
  BY CacheSizesAssumption
<1> QED
  BY <1>1, <1>2, <1>3

(* Two queues with the same entries of p have the same size for it. *)
LEMMA SizeOfSame ==
    ASSUME NEW q \in Queue, Distinct(q), NEW r \in Queue, Distinct(r), NEW p,
           \A e \in Entries : e.page = p =>
               ((\E i \in 1 .. Len(q) : q[i] = e) <=> (\E i \in 1 .. Len(r) : r[i] = e))
    PROVE  SizeOf(q, p) = SizeOf(r, p)
<1>1. CASE \E i \in 1 .. Len(q) : q[i].page = p
  <2>1. PICK i \in 1 .. Len(q) : q[i].page = p
    BY <1>1
  <2>2. q[i] \in Entries
    BY EntryFields
  <2>3. PICK j \in 1 .. Len(r) : r[j] = q[i]
    BY <2>1, <2>2
  <2>4. SizeOf(q, q[i].page) = q[i].size /\ SizeOf(r, r[j].page) = r[j].size
    BY SizeOfAt
  <2> QED
    BY <2>1, <2>3, <2>4
<1>2. CASE \A i \in 1 .. Len(q) : q[i].page # p
  <2>1. ASSUME NEW j \in 1 .. Len(r), r[j].page = p PROVE FALSE
    BY <1>2, <2>1, EntryFields
  <2> QED
    BY <1>2, <2>1, SizeOfNone
<1> QED
  BY <1>1, <1>2

-----------------------------------------------------------------------------
(* Total(): what memory is in use. *)
Sum(q) == CHOOSE sum : sum = [n \in 0 .. Len(q) |-> IF n = 0 THEN 0 ELSE sum[n - 1] + q[n].size]

(* The sums that Total() is the last of. *)
LEMMA TotalIsSum ==
    ASSUME NEW q
    PROVE  Total(q) = Sum(q)[Len(q)]
BY DEF Total, Sum

(* The sum is a number, and more than 0 only with an entry in the queue. *)
LEMMA TotalType ==
    ASSUME NEW q \in Queue
    PROVE  Total(q) \in Nat /\ (Total(q) > 0 => q # <<>>)
<1> DEFINE N == Len(q)
           next == [n \in 1 .. N |-> [s \in Nat |-> s + q[n].size]]
           g == Sum(q)
<1>1. N \in Nat
  BY DEF Queue
<1>2. \A i \in 1 .. N : q[i].size \in Nat
  BY EntryFields
<1>3. next \in [1 .. N -> [Nat -> Nat]]
  BY <1>2
<1>4. \A n \in 1 .. N, s \in Nat : next[n][s] = s + q[n].size
  OBVIOUS
<1> HIDE DEF next, N
<1>5. PICK f : Iterates(f, N, Nat, 0, next)
  <2>1. 0 \in Nat /\ next \in StepFunctions(N, Nat)
    BY <1>3 DEF StepFunctions
  <2> QED
    BY <1>1, <2>1, Recursion
<1>6. \A n \in 0 .. N : n # 0 => n \in 1 .. N /\ n - 1 \in 0 .. N
  BY <1>1
<1>7. ASSUME NEW n \in 0 .. N
      PROVE  f[n] = IF n = 0 THEN 0 ELSE f[n - 1] + q[n].size
  BY <1>4, <1>5, <1>6 DEF Iterates
<1>8. f = [n \in 0 .. N |-> IF n = 0 THEN 0 ELSE f[n - 1] + q[n].size]
  BY <1>5, <1>7 DEF Iterates
<1>9. g = [n \in 0 .. N |-> IF n = 0 THEN 0 ELSE g[n - 1] + q[n].size]
  BY <1>8 DEF Sum, N
<1> HIDE DEF g
<1> DEFINE T == {n \in Nat : n <= N => g[n] \in Nat}
<1>10. 0 \in T
  BY <1>1, <1>9
<1>11. ASSUME NEW n \in Nat, n \in T PROVE n + 1 \in T
  <2> SUFFICES ASSUME n + 1 <= N PROVE g[n + 1] \in Nat
    OBVIOUS
  <2>1. n + 1 \in 0 .. N /\ n + 1 \in 1 .. N /\ n <= N /\ n + 1 # 0 /\ (n + 1) - 1 = n
    BY <1>1
  <2>2. g[n + 1] = g[n] + q[n + 1].size
    BY <1>9, <2>1
  <2> QED
    BY <1>2, <1>11, <2>1, <2>2
<1>12. N \in T
  <2> HIDE DEF T
  <2>1. \A n \in Nat : n \in T => n + 1 \in T
    BY <1>11
  <2> QED
    BY <1>1, <1>10, <2>1, SetInduction
<1>13. g[0] = 0
  BY <1>1, <1>9
<1> QED
  BY <1>1, <1>12, <1>13, TotalIsSum DEF g, N

-----------------------------------------------------------------------------
(* Omitting(): the entries that are left, in their order. *)
Kept(q, ps) == CHOOSE kept : kept = [n \in 0 .. Len(q) |->
    IF n = 0 THEN <<>>
    ELSE IF q[n].page \in ps THEN kept[n - 1]
    ELSE Append(kept[n - 1], q[n])]
Has(q, e) == \E i \in 1 .. Len(q) : q[i] = e

(* The queues that Omitting() is the last of. *)
LEMMA OmittingIsKept ==
    ASSUME NEW q, NEW ps
    PROVE  Omitting(q, ps) = Kept(q, ps)[Len(q)]
BY DEF Omitting, Kept

(* The n-th of them is made of the one before and the n-th entry. *)
LEMMA KeptLemma ==
    ASSUME NEW q \in Queue, NEW ps
    PROVE  /\ Kept(q, ps)[0] = <<>>
           /\ \A n \in 1 .. Len(q) : Kept(q, ps)[n] =
                  IF q[n].page \in ps THEN Kept(q, ps)[n - 1]
                  ELSE Append(Kept(q, ps)[n - 1], q[n])
<1> DEFINE N == Len(q)
           next == [n \in 1 .. N |-> [s \in Queue |->
                       IF q[n].page \in ps THEN s ELSE Append(s, q[n])]]
           g == Kept(q, ps)
<1>1. N \in Nat
  BY DEF Queue
<1>2. ASSUME NEW n \in 1 .. N, NEW s \in Queue
      PROVE  (IF q[n].page \in ps THEN s ELSE Append(s, q[n])) \in Queue
  <2>1. q[n] \in Entries
    BY EntryFields
  <2> QED
    BY <2>1 DEF Queue
<1>3. next \in StepFunctions(N, Queue)
  <2>1. next \in [1 .. N -> [Queue -> Queue]]
    BY <1>2
  <2> QED
    BY <2>1 DEF StepFunctions
<1>4. \A n \in 1 .. N, s \in Queue : next[n][s] = IF q[n].page \in ps THEN s ELSE Append(s, q[n])
  OBVIOUS
<1> HIDE DEF next, N
<1>5. PICK f : Iterates(f, N, Queue, <<>>, next)
  <2>1. <<>> \in Queue
    BY DEF Queue
  <2> QED
    BY <1>1, <1>3, <2>1, Recursion
<1>6. \A n \in 0 .. N : n # 0 => n \in 1 .. N /\ n - 1 \in 0 .. N
  BY <1>1
<1>7. ASSUME NEW n \in 0 .. N
      PROVE  f[n] = IF n = 0 THEN <<>>
                    ELSE IF q[n].page \in ps THEN f[n - 1]
                    ELSE Append(f[n - 1], q[n])
  <2>1. CASE n = 0
    BY <1>5, <2>1 DEF Iterates
  <2>2. CASE n # 0
    <3>1. n \in 1 .. N /\ f[n - 1] \in Queue /\ f[n] = next[n][f[n - 1]]
      BY <1>5, <1>6, <2>2 DEF Iterates
    <3> QED
      BY <1>4, <2>2, <3>1
  <2> QED
    BY <2>1, <2>2
<1>8. f = [n \in 0 .. N |-> IF n = 0 THEN <<>>
                            ELSE IF q[n].page \in ps THEN f[n - 1]
                            ELSE Append(f[n - 1], q[n])]
  BY <1>5, <1>7 DEF Iterates
<1>9. g = [n \in 0 .. N |-> IF n = 0 THEN <<>>
                            ELSE IF q[n].page \in ps THEN g[n - 1]
                            ELSE Append(g[n - 1], q[n])]
  BY <1>8 DEF Kept, N
<1> HIDE DEF g
<1>10. 0 \in 0 .. N /\ \A n \in 1 .. N : n \in 0 .. N /\ n # 0
  BY <1>1
<1>11. g[0] = <<>>
  BY <1>9, <1>10
<1>12. ASSUME NEW n \in 1 .. N
       PROVE  g[n] = IF q[n].page \in ps THEN g[n - 1] ELSE Append(g[n - 1], q[n])
  BY <1>9, <1>10
<1> QED
  BY <1>11, <1>12 DEF g, N

(* An entry of a new page may be appended. *)
LEMMA AppendDistinct ==
    ASSUME NEW s \in Queue, Distinct(s), NEW e \in Entries,
           \A i \in 1 .. Len(s) : s[i].page # e.page
    PROVE  /\ Append(s, e) \in Queue /\ Distinct(Append(s, e))
           /\ \A d : Has(Append(s, e), d) <=> Has(s, d) \/ d = e
<1> DEFINE t == Append(s, e)
<1>1. t \in Queue /\ Len(t) = Len(s) + 1 /\ Len(s) \in Nat
  BY DEF Queue
<1>2. \A i \in 1 .. Len(t) : (i \in 1 .. Len(s) /\ t[i] = s[i]) \/ (i = Len(s) + 1 /\ t[i] = e)
  BY <1>1 DEF Queue
<1>3. \A i \in 1 .. Len(s) : i \in 1 .. Len(t) /\ t[i] = s[i]
  BY <1>1 DEF Queue
<1>4. Len(s) + 1 \in 1 .. Len(t) /\ t[Len(s) + 1] = e
  BY <1>1 DEF Queue
<1> HIDE DEF t
<1>5. Distinct(t)
  BY <1>1, <1>2 DEF Distinct
<1>6. \A d : Has(t, d) <=> Has(s, d) \/ d = e
  BY <1>2, <1>3, <1>4 DEF Has
<1> QED
  BY <1>1, <1>5, <1>6 DEF t

(* RemovePage(): the entries of the pages ps are gone, the others are where they were. *)
LEMMA OmittingLemma ==
    ASSUME NEW q \in Queue, Distinct(q), NEW ps
    PROVE  /\ Omitting(q, ps) \in Queue /\ Distinct(Omitting(q, ps))
           /\ \A e : Has(Omitting(q, ps), e) <=> Has(q, e) /\ e.page \notin ps
           /\ EndKept(q, Omitting(q, ps), ps)
<1> DEFINE N == Len(q)
           g == Kept(q, ps)
           Holds(n) == /\ g[n] \in Queue /\ Distinct(g[n])
                       /\ \A e : Has(g[n], e) <=> e.page \notin ps /\ \E i \in 1 .. n : q[i] = e
           T == {n \in Nat : n <= N => Holds(n)}
<1>1. N \in Nat
  BY DEF Queue
<1>2. /\ g[0] = <<>>
      /\ \A n \in 1 .. N : g[n] = IF q[n].page \in ps THEN g[n - 1] ELSE Append(g[n - 1], q[n])
  BY KeptLemma
<1> HIDE DEF g
<1>3. 0 \in T
  <2>1. g[0] \in Queue /\ Len(g[0]) = 0
    BY <1>2 DEF Queue
  <2>2. 1 .. 0 = {}
    OBVIOUS
  <2>3. Distinct(g[0]) /\ \A e : ~Has(g[0], e)
    BY <2>1, <2>2 DEF Distinct, Has
  <2> QED
    BY <2>1, <2>2, <2>3
<1>4. ASSUME NEW n \in Nat, n \in T PROVE n + 1 \in T
  <2> SUFFICES ASSUME n + 1 <= N PROVE Holds(n + 1)
    OBVIOUS
  <2>1. n + 1 \in 1 .. N /\ (n + 1) - 1 = n /\ Holds(n)
    BY <1>1, <1>4
  <2>2. \A i \in 1 .. n + 1 : i \in 1 .. n \/ i = n + 1
    OBVIOUS
  <2>3. \A i \in 1 .. n : i \in 1 .. n + 1 /\ i \in 1 .. N /\ i # n + 1
    BY <2>1
  <2>4. n + 1 \in 1 .. n + 1
    OBVIOUS
  <2>5. q[n + 1] \in Entries
    BY <2>1, EntryFields
  <2>6. CASE q[n + 1].page \in ps
    <3>1. g[n + 1] = g[n]
      BY <1>2, <2>1, <2>6
    <3>2. \A e : e.page \notin ps /\ (\E i \in 1 .. n : q[i] = e)
                 <=> e.page \notin ps /\ (\E i \in 1 .. n + 1 : q[i] = e)
      BY <2>2, <2>3, <2>6
    <3> QED
      BY <2>1, <3>1, <3>2
  <2>7. CASE q[n + 1].page \notin ps
    <3>1. g[n + 1] = Append(g[n], q[n + 1])
      BY <1>2, <2>1, <2>7
    <3>2. ASSUME NEW j \in 1 .. Len(g[n]) PROVE g[n][j].page # q[n + 1].page
      <4>1. Has(g[n], g[n][j])
        BY DEF Has
      <4>2. PICK i \in 1 .. n : q[i] = g[n][j]
        BY <2>1, <4>1
      <4> QED
        BY <2>1, <2>3, <4>2 DEF Distinct
    <3>3. /\ g[n + 1] \in Queue /\ Distinct(g[n + 1])
          /\ \A e : Has(g[n + 1], e) <=> Has(g[n], e) \/ e = q[n + 1]
      BY <2>1, <2>5, <3>1, <3>2, AppendDistinct
    <3>4. ASSUME NEW e
          PROVE  Has(g[n + 1], e) <=> e.page \notin ps /\ \E i \in 1 .. n + 1 : q[i] = e
      <4>1. Has(g[n], e) <=> e.page \notin ps /\ \E i \in 1 .. n : q[i] = e
        BY <2>1
      <4>2. Has(g[n + 1], e) <=> Has(g[n], e) \/ e = q[n + 1]
        BY <3>3
      <4>3. (\E i \in 1 .. n + 1 : q[i] = e) <=> (\E i \in 1 .. n : q[i] = e) \/ e = q[n + 1]
        BY <2>2, <2>3, <2>4
      <4> QED
        BY <2>7, <4>1, <4>2, <4>3
    <3> QED
      BY <3>3, <3>4
  <2> QED
    BY <2>6, <2>7
<1>5. Holds(N)
  <2>1. N \in T
    <3> HIDE DEF T
    <3>1. \A n \in Nat : n \in T => n + 1 \in T
      BY <1>4
    <3> QED
      BY <1>1, <1>3, <3>1, SetInduction
  <2> QED
    BY <1>1, <2>1
<1>6. Omitting(q, ps) = g[N]
  BY OmittingIsKept DEF g
<1>7. EndKept(q, g[N], ps)
  <2> SUFFICES ASSUME q # <<>>, EndPage(q) \notin ps
               PROVE  g[N] # <<>> /\ EndPage(g[N]) = EndPage(q)
    BY DEF EndKept
  <2>1. N \in 1 .. N /\ N - 1 \in Nat /\ N - 1 <= N /\ (N - 1) + 1 = N
    BY <1>1 DEF Queue
  <2>2. g[N] = Append(g[N - 1], q[N])
    BY <1>2, <2>1 DEF EndPage
  <2>3. N - 1 \in T
    <3> HIDE DEF T
    <3>1. \A n \in Nat : n \in T => n + 1 \in T
      BY <1>4
    <3> QED
      BY <1>3, <2>1, <3>1, SetInduction
  <2>4. g[N - 1] \in Queue /\ q[N] \in Entries
    BY <2>1, <2>3, EntryFields
  <2>5. g[N] # <<>> /\ g[N][Len(g[N])] = q[N]
    BY <2>2, <2>4 DEF Queue
  <2> QED
    BY <2>5 DEF EndPage
<1>8. \A e : Has(g[N], e) <=> Has(q, e) /\ e.page \notin ps
  BY <1>5 DEF Has
<1> HIDE DEF T
<1> QED
  BY <1>5, <1>6, <1>7, <1>8

(* So the other pages have the sizes they had. *)
LEMMA OmittingSize ==
    ASSUME NEW q \in Queue, Distinct(q), NEW ps, NEW p
    PROVE  SizeOf(Omitting(q, ps), p) = IF p \in ps THEN 0 ELSE SizeOf(q, p)
<1> DEFINE w == Omitting(q, ps)
<1>1. w \in Queue /\ Distinct(w) /\ \A e : Has(w, e) <=> Has(q, e) /\ e.page \notin ps
  BY OmittingLemma
<1> HIDE DEF w
<1>2. CASE p \in ps
  <2>1. ASSUME NEW i \in 1 .. Len(w) PROVE w[i].page # p
    BY <1>1, <1>2 DEF Has
  <2> QED
    BY <1>2, <2>1, SizeOfNone DEF w
<1>3. CASE p \notin ps
  <2>1. \A e \in Entries : e.page = p => (Has(q, e) <=> Has(w, e))
    BY <1>1, <1>3
  <2>2. SizeOf(q, p) = SizeOf(w, p)
    BY <1>1, <2>1, SizeOfSame DEF Has
  <2> QED
    BY <1>3, <2>2 DEF w
<1> QED
  BY <1>2, <1>3

(* EnqueuePage(): a page comes to the front. *)
LEMMA FrontLemma ==
    ASSUME NEW q \in Queue, Distinct(q), NEW p \in Pages, NEW s \in 1 .. MaxPageSize
    PROVE  LET r == <<[page |-> p, size |-> s]>> \o Omitting(q, {p})
           IN  /\ r \in Queue /\ Distinct(r) /\ r # <<>>
               /\ \A x : SizeOf(r, x) = IF x = p THEN s ELSE SizeOf(q, x)
               /\ EndKept(q, r, {p})
<1> DEFINE w == Omitting(q, {p})
           e == [page |-> p, size |-> s]
           r == <<e>> \o w
<1>1. /\ w \in Queue /\ Distinct(w) /\ EndKept(q, w, {p})
      /\ \A d : Has(w, d) <=> Has(q, d) /\ d.page \notin {p}
  BY OmittingLemma
<1>2. e \in Entries
  BY DEF Entries
<1>3. e.page = p /\ e.size = s
  OBVIOUS
<1> HIDE DEF w, e
<1>4. r \in Queue /\ Len(r) = Len(w) + 1 /\ Len(w) \in Nat
  BY <1>1, <1>2 DEF Queue
<1>5. r[1] = e /\ \A i \in 1 .. Len(w) : r[i + 1] = w[i] /\ i + 1 \in 1 .. Len(r)
  BY <1>1, <1>2 DEF Queue
<1>6. \A i \in 1 .. Len(r) : i = 1 \/ (i - 1 \in 1 .. Len(w) /\ r[i] = w[i - 1])
  <2>1. \A i \in 1 .. Len(r) : i = 1 \/ (i - 1 \in 1 .. Len(w) /\ (i - 1) + 1 = i)
    BY <1>4
  <2> QED
    BY <1>5, <2>1
<1>7. r # <<>> /\ 1 \in 1 .. Len(r)
  BY <1>4 DEF Queue
<1> HIDE DEF r
<1>8. \A i \in 1 .. Len(w) : w[i].page # p
  BY <1>1 DEF Has
<1>9. Distinct(r)
  <2> SUFFICES ASSUME NEW i \in 1 .. Len(r), NEW j \in 1 .. Len(r), r[i].page = r[j].page
               PROVE  i = j
    BY DEF Distinct
  <2>1. CASE i = 1 \/ j = 1
    BY <1>3, <1>5, <1>6, <1>8, <2>1
  <2>2. CASE i # 1 /\ j # 1
    <3>1. i - 1 = j - 1
      BY <1>1, <1>6, <2>2, SMTT(30) DEF Distinct
    <3> QED
      BY <1>4, <3>1
  <2> QED
    BY <2>1, <2>2
<1>10. ASSUME NEW d PROVE Has(r, d) <=> d = e \/ Has(w, d)
  <2>1. ASSUME NEW i \in 1 .. Len(r), r[i] = d PROVE d = e \/ Has(w, d)
    <3>1. i = 1 \/ (i - 1 \in 1 .. Len(w) /\ r[i] = w[i - 1])
      BY <1>6
    <3> QED
      BY <1>5, <2>1, <3>1 DEF Has
  <2>2. Has(r, e) /\ (Has(w, d) => Has(r, d))
    BY <1>5, <1>7 DEF Has
  <2> QED
    BY <2>1, <2>2 DEF Has
<1>11. ASSUME NEW x PROVE SizeOf(r, x) = IF x = p THEN s ELSE SizeOf(q, x)
  <2>1. CASE x = p
    <3>1. SizeOf(r, r[1].page) = r[1].size
      BY <1>4, <1>7, <1>9, SizeOfAt
    <3> QED
      BY <1>3, <1>5, <2>1, <3>1
  <2>2. CASE x # p
    <3>1. \A d \in Entries : d.page = x => (Has(q, d) <=> Has(r, d))
      BY <1>1, <1>3, <1>10, <2>2
    <3> QED
      BY <1>4, <1>9, <2>2, <3>1, SizeOfSame DEF Has
  <2> QED
    BY <2>1, <2>2
<1>12. EndKept(q, r, {p})
  <2> SUFFICES ASSUME q # <<>>, EndPage(q) \notin {p}
               PROVE  r # <<>> /\ EndPage(r) = EndPage(q)
    BY DEF EndKept
  <2>1. w # <<>> /\ EndPage(w) = EndPage(q)
    BY <1>1 DEF EndKept
  <2>2. Len(w) \in 1 .. Len(w)
    BY <1>1, <2>1 DEF Queue
  <2>3. r[Len(r)] = w[Len(w)]
    BY <1>4, <1>5, <2>2
  <2> QED
    BY <1>7, <2>1, <2>3 DEF EndPage
<1> QED
  BY <1>4, <1>7, <1>9, <1>11, <1>12 DEF r, e, w

(* ResizePage() of one entry, *)
LEMMA ResizedEntry ==
    ASSUME NEW e \in Entries, NEW s \in 1 .. MaxPageSize
    PROVE  /\ [e EXCEPT !.size = s] \in Entries
           /\ [e EXCEPT !.size = s].page = e.page /\ [e EXCEPT !.size = s].size = s
BY DEF Entries

(* and of a queue: p has the new size, if it is in the queue. *)
LEMMA ResizeInLemma ==
    ASSUME NEW q \in Queue, Distinct(q), NEW p, NEW s \in 1 .. MaxPageSize
    PROVE  /\ ResizeIn(q, p, s) \in Queue /\ Distinct(ResizeIn(q, p, s))
           /\ \A x : SizeOf(ResizeIn(q, p, s), x) =
                  IF x = p /\ SizeOf(q, p) # 0 THEN s ELSE SizeOf(q, x)
           /\ EndKept(q, ResizeIn(q, p, s), {})
<1> DEFINE r == ResizeIn(q, p, s)
<1>1. Len(q) \in Nat /\ DOMAIN q = 1 .. Len(q)
  BY DEF Queue
<1>3. ASSUME NEW i \in 1 .. Len(q)
      PROVE  r[i] \in Entries /\ r[i].page = q[i].page
             /\ r[i].size = IF q[i].page = p THEN s ELSE q[i].size
  <2> DEFINE e == q[i]
  <2>1. r[i] = IF e.page = p THEN [e EXCEPT !.size = s] ELSE e
    BY <1>1 DEF ResizeIn
  <2>2. e \in Entries
    BY EntryFields
  <2> HIDE DEF e, r
  <2>3. r[i] \in Entries /\ r[i].page = e.page /\ r[i].size = IF e.page = p THEN s ELSE e.size
    BY <2>1, <2>2, ResizedEntry
  <2> QED
    BY <2>3 DEF e
<1>4. DOMAIN r = 1 .. Len(q) /\ r = [i \in 1 .. Len(q) |-> r[i]]
  BY <1>1 DEF ResizeIn
<1> HIDE DEF r
<1>5. r \in Queue /\ Len(r) = Len(q)
  BY <1>1, <1>3, <1>4 DEF Queue
<1>6. Distinct(r)
  BY <1>3, <1>5 DEF Distinct
<1>7. ASSUME NEW x PROVE SizeOf(r, x) = IF x = p /\ SizeOf(q, p) # 0 THEN s ELSE SizeOf(q, x)
  <2>1. CASE \A i \in 1 .. Len(q) : q[i].page # x
    <3>1. SizeOf(r, x) = 0 /\ SizeOf(q, x) = 0
      BY <1>3, <1>5, <2>1, SizeOfNone
    <3> QED
      BY <3>1
  <2>2. ASSUME NEW i \in 1 .. Len(q), q[i].page = x
        PROVE  SizeOf(r, x) = IF x = p /\ SizeOf(q, p) # 0 THEN s ELSE SizeOf(q, x)
    <3>1. SizeOf(q, q[i].page) = q[i].size /\ SizeOf(r, r[i].page) = r[i].size
      BY <1>5, <1>6, SizeOfAt
    <3>2. q[i].size > 0
      BY EntryFields
    <3> QED
      BY <1>3, <2>2, <3>1, <3>2
  <2> QED
    BY <2>1, <2>2
<1>8. EndKept(q, r, {})
  <2>1. ASSUME q # <<>> PROVE r # <<>> /\ EndPage(r) = EndPage(q)
    <3>1. Len(q) \in 1 .. Len(q) /\ Len(r) # 0
      BY <1>1, <1>5, <2>1 DEF Queue
    <3> QED
      BY <1>3, <1>5, <3>1 DEF EndPage
  <2> QED
    BY <2>1 DEF EndKept
<1> QED
  BY <1>5, <1>6, <1>7, <1>8 DEF r

-----------------------------------------------------------------------------
(* What the operations on the queues do to both. *)
Typed(q) == q \in [Kinds -> Queue] /\ \A k \in Kinds : Distinct(q[k])
SameIn(q, r, x) == \A k \in Kinds : SizeOf(r[k], x) = SizeOf(q[k], x)
SameBut(q, r, ps) == \A x \in Pages \ ps : SameIn(q, r, x)
EndsKept(q, r, ps) == \A k \in Kinds : EndKept(q[k], r[k], ps)

RemovedIn(q, ps) == [k \in Kinds |-> Omitting(q[k], ps)]
RemovedDirty(q, ps) == [q EXCEPT !["flush"] = Omitting(@, ps)]
EnqueuedIn(q, p, s, dirty) == [k \in Kinds |->
    (IF k = "evict" \/ dirty THEN <<[page |-> p, size |-> s]>> ELSE <<>>) \o Omitting(q[k], {p})]
ResizedIn(q, l, p, s) == [q EXCEPT ![l] = ResizeIn(@, p, s)]
ResizedBoth(q, p, s) == [k \in Kinds |-> ResizeIn(q[k], p, s)]

(* There are two kinds of cleanup. *)
LEMMA KindsLemma ==
    /\ "evict" \in Kinds /\ "flush" \in Kinds /\ "evict" # "flush"
    /\ \A k \in Kinds : k = "evict" \/ k = "flush"
BY DEF Kinds

(* What is kept of the queues' ends, if less or more is changed. *)
LEMMA EndsKeptLemma ==
    ASSUME NEW q, NEW r, NEW ps, NEW us, ps \subseteq us
    PROVE  /\ EndsKept(q, q, ps)
           /\ EndsKept(q, r, ps) => EndsKept(q, r, us)
           /\ \A s : EndsKept(q, r, us) /\ EndsKept(r, s, us) => EndsKept(q, s, us)
<1>1. ASSUME NEW k \in Kinds PROVE EndKept(q[k], q[k], ps)
  BY DEF EndKept
<1>2. ASSUME NEW k \in Kinds, EndKept(q[k], r[k], ps) PROVE EndKept(q[k], r[k], us)
  BY <1>2 DEF EndKept
<1>3. ASSUME NEW k \in Kinds, NEW s, EndKept(q[k], r[k], us), EndKept(r[k], s[k], us)
      PROVE  EndKept(q[k], s[k], us)
  BY <1>3 DEF EndKept
<1> QED
  BY <1>1, <1>2, <1>3 DEF EndsKept

(* RemovePage() of both queues *)
LEMMA RemoveLemma ==
    ASSUME NEW q, Typed(q), NEW ps
    PROVE  /\ Typed(RemovedIn(q, ps)) /\ EndsKept(q, RemovedIn(q, ps), ps)
           /\ SameBut(q, RemovedIn(q, ps), ps)
           /\ \A x \in ps, k \in Kinds : SizeOf(RemovedIn(q, ps)[k], x) = 0
<1> DEFINE r == RemovedIn(q, ps)
<1>1. ASSUME NEW k \in Kinds
      PROVE  /\ r[k] \in Queue /\ Distinct(r[k]) /\ EndKept(q[k], r[k], ps)
             /\ \A x : SizeOf(r[k], x) = IF x \in ps THEN 0 ELSE SizeOf(q[k], x)
  <2>1. q[k] \in Queue /\ Distinct(q[k])
    BY DEF Typed
  <2>2. r[k] = Omitting(q[k], ps)
    BY DEF RemovedIn
  <2> QED
    BY <2>1, <2>2, OmittingLemma, OmittingSize
<1>2. r = [k \in Kinds |-> r[k]]
  BY DEF RemovedIn
<1> HIDE DEF r
<1>3. r \in [Kinds -> Queue]
  BY <1>1, <1>2
<1> QED
  BY <1>1, <1>3 DEF Typed, EndsKept, SameBut, SameIn, r

(* RemoveDirty(): the pages ps leave mDirtyQueue only. *)
LEMMA RemoveDirtyLemma ==
    ASSUME NEW q, Typed(q), NEW ps
    PROVE  /\ Typed(RemovedDirty(q, ps)) /\ EndsKept(q, RemovedDirty(q, ps), ps)
           /\ SameBut(q, RemovedDirty(q, ps), ps)
           /\ RemovedDirty(q, ps)["evict"] = q["evict"]
           /\ \A x \in ps : SizeOf(RemovedDirty(q, ps)["flush"], x) = 0
<1> DEFINE r == RemovedDirty(q, ps)
<1>1. q \in [Kinds -> Queue] /\ \A k \in Kinds : q[k] \in Queue /\ Distinct(q[k])
  BY DEF Typed
<1>2. r["flush"] = Omitting(q["flush"], ps) /\ r["evict"] = q["evict"]
  BY <1>1, KindsLemma DEF RemovedDirty
<1>3. /\ Omitting(q["flush"], ps) \in Queue /\ Distinct(Omitting(q["flush"], ps))
      /\ EndKept(q["flush"], Omitting(q["flush"], ps), ps)
      /\ \A x : SizeOf(Omitting(q["flush"], ps), x) = IF x \in ps THEN 0 ELSE SizeOf(q["flush"], x)
  BY <1>1, KindsLemma, OmittingLemma, OmittingSize
<1>4. EndKept(q["evict"], q["evict"], ps)
  BY DEF EndKept
<1>5. r \in [Kinds -> Queue]
  BY <1>1, <1>3 DEF RemovedDirty
<1> HIDE DEF r
<1>6. \A k \in Kinds : Distinct(r[k]) /\ EndKept(q[k], r[k], ps)
  BY <1>1, <1>2, <1>3, <1>4, KindsLemma
<1>7. ASSUME NEW x \in Pages \ ps, NEW k \in Kinds PROVE SizeOf(r[k], x) = SizeOf(q[k], x)
  BY <1>2, <1>3, KindsLemma
<1>8. \A x \in ps : SizeOf(r["flush"], x) = 0
  BY <1>2, <1>3
<1> QED
  BY <1>2, <1>5, <1>6, <1>7, <1>8 DEF Typed, EndsKept, SameBut, SameIn, r

Enqueued(q, r, p, s, dirty) ==
    /\ Typed(r) /\ EndsKept(q, r, {p}) /\ SameBut(q, r, {p})
    /\ SizeOf(r["evict"], p) = s /\ r["evict"] # <<>>
    /\ SizeOf(r["flush"], p) = (IF dirty THEN s ELSE 0)

(* EnqueuePage(): p is first in mPageQueue, and in mDirtyQueue if it is dirty, or not there. *)
LEMMA EnqueueLemma ==
    ASSUME NEW q, Typed(q), NEW p \in Pages, NEW s \in 1 .. MaxPageSize, NEW dirty \in BOOLEAN
    PROVE  Enqueued(q, EnqueuedIn(q, p, s, dirty), p, s, dirty)
<1> DEFINE r == EnqueuedIn(q, p, s, dirty)
<1>1. ASSUME NEW k \in Kinds
      PROVE  /\ r[k] \in Queue /\ Distinct(r[k]) /\ EndKept(q[k], r[k], {p})
             /\ \A x : x # p => SizeOf(r[k], x) = SizeOf(q[k], x)
             /\ SizeOf(r[k], p) = IF k = "evict" \/ dirty THEN s ELSE 0
             /\ k = "evict" \/ dirty => r[k] # <<>>
  <2>1. q[k] \in Queue /\ Distinct(q[k])
    BY DEF Typed
  <2>2. CASE k = "evict" \/ dirty
    <3>1. r[k] = <<[page |-> p, size |-> s]>> \o Omitting(q[k], {p})
      BY <2>2 DEF EnqueuedIn
    <3> QED
      BY <2>1, <2>2, <3>1, FrontLemma
  <2>3. CASE ~(k = "evict" \/ dirty)
    <3>1. Omitting(q[k], {p}) \in Queue
      BY <2>1, OmittingLemma
    <3>2. r[k] = Omitting(q[k], {p})
      <4> DEFINE w == Omitting(q[k], {p})
      <4>1. r[k] = <<>> \o w
        BY <2>3 DEF EnqueuedIn
      <4> HIDE DEF w, r
      <4> QED
        BY <3>1, <4>1 DEF w, Queue
    <3> QED
      BY <2>1, <2>3, <3>2, OmittingLemma, OmittingSize
  <2> QED
    BY <2>2, <2>3
<1>2. r = [k \in Kinds |-> r[k]]
  BY DEF EnqueuedIn
<1> HIDE DEF r
<1>3. r \in [Kinds -> Queue]
  BY <1>1, <1>2
<1>4. SizeOf(r["evict"], p) = s /\ r["evict"] # <<>> /\ SizeOf(r["flush"], p) = (IF dirty THEN s ELSE 0)
  BY <1>1, KindsLemma
<1> QED
  BY <1>1, <1>3, <1>4 DEF Typed, EndsKept, SameBut, SameIn, r, Enqueued

OneResized(q, r, l, p, s) ==
    /\ Typed(r) /\ EndsKept(q, r, {}) /\ SameBut(q, r, {p})
    /\ \A k \in Kinds : k # l => r[k] = q[k]
    /\ SizeOf(r[l], p) = IF SizeOf(q[l], p) # 0 THEN s ELSE 0

(* ResizePage(): p has its new size in one of the queues. *)
LEMMA ResizeOneLemma ==
    ASSUME NEW q, Typed(q), NEW p, NEW s \in 1 .. MaxPageSize, NEW l \in Kinds
    PROVE  OneResized(q, ResizedIn(q, l, p, s), l, p, s)
<1> DEFINE r == ResizedIn(q, l, p, s)
<1>1. q \in [Kinds -> Queue] /\ \A k \in Kinds : q[k] \in Queue /\ Distinct(q[k])
  BY DEF Typed
<1>2. r[l] = ResizeIn(q[l], p, s) /\ \A k \in Kinds : k # l => r[k] = q[k]
  BY <1>1 DEF ResizedIn
<1>3. /\ ResizeIn(q[l], p, s) \in Queue /\ Distinct(ResizeIn(q[l], p, s))
      /\ EndKept(q[l], ResizeIn(q[l], p, s), {})
      /\ \A x : SizeOf(ResizeIn(q[l], p, s), x) = IF x = p /\ SizeOf(q[l], p) # 0 THEN s ELSE SizeOf(q[l], x)
  BY <1>1, ResizeInLemma
<1>4. \A k \in Kinds : EndKept(q[k], q[k], {})
  BY DEF EndKept
<1>5. r \in [Kinds -> Queue]
  BY <1>1, <1>3 DEF ResizedIn
<1> HIDE DEF r
<1>6. \A k \in Kinds : Distinct(r[k]) /\ EndKept(q[k], r[k], {})
  BY <1>1, <1>2, <1>3, <1>4
<1>7. ASSUME NEW x \in Pages \ {p}, NEW k \in Kinds PROVE SizeOf(r[k], x) = SizeOf(q[k], x)
  BY <1>2, <1>3
<1>8. SizeOf(r[l], p) = IF SizeOf(q[l], p) # 0 THEN s ELSE 0
  BY <1>2, <1>3
<1> QED
  BY <1>2, <1>5, <1>6, <1>7, <1>8 DEF Typed, EndsKept, SameBut, SameIn, r, OneResized

(* A caller's catch block gives it the old size in both. *)
LEMMA ResizeBothLemma ==
    ASSUME NEW q, Typed(q), NEW p, NEW s \in 1 .. MaxPageSize
    PROVE  /\ Typed(ResizedBoth(q, p, s)) /\ EndsKept(q, ResizedBoth(q, p, s), {})
           /\ SameBut(q, ResizedBoth(q, p, s), {p})
           /\ \A k \in Kinds : SizeOf(ResizedBoth(q, p, s)[k], p) =
                  IF SizeOf(q[k], p) # 0 THEN s ELSE 0
<1> DEFINE r == ResizedBoth(q, p, s)
<1>1. ASSUME NEW k \in Kinds
      PROVE  /\ r[k] \in Queue /\ Distinct(r[k]) /\ EndKept(q[k], r[k], {})
             /\ \A x : SizeOf(r[k], x) = IF x = p /\ SizeOf(q[k], p) # 0 THEN s ELSE SizeOf(q[k], x)
  <2>1. q[k] \in Queue /\ Distinct(q[k])
    BY DEF Typed
  <2>2. r[k] = ResizeIn(q[k], p, s)
    BY DEF ResizedBoth
  <2> QED
    BY <2>1, <2>2, ResizeInLemma
<1>2. r = [k \in Kinds |-> r[k]]
  BY DEF ResizedBoth
<1> HIDE DEF r
<1>3. r \in [Kinds -> Queue]
  BY <1>1, <1>2
<1>4. ASSUME NEW x \in Pages \ {p}, NEW k \in Kinds PROVE SizeOf(r[k], x) = SizeOf(q[k], x)
  BY <1>1
<1>5. ASSUME NEW k \in Kinds PROVE SizeOf(r[k], p) = IF SizeOf(q[k], p) # 0 THEN s ELSE 0
  BY <1>1
<1> QED
  BY <1>1, <1>3, <1>4, <1>5 DEF Typed, EndsKept, SameBut, SameIn, r

-----------------------------------------------------------------------------
(* The invariant.  Without threads that run ahead, and writes that make dirty pages
   larger, the dirty queue is right as well. *)
Strict == ~Ahead /\ ~GrowDirty
MidSteps == {"asleep", "awake", "free", "retest", "failed", "done"}
CallerSteps == {"idle", "lock", "scope", "remove"} \cup MidSteps
CleanerSteps == {"asleep", "check", "collect", "next", "locking", "clean", "unlock"}
PageState == [size : 0 .. MaxPageSize, dirty : BOOLEAN]
Jobs == [op : Ops \cup {"none"}, page : Pages \cup {None}, old : 0 .. MaxPageSize, kind : Kinds]
Works == [files : SUBSET Files, unscoped : SUBSET Files, pages : Queue, file : Files \cup {None}]

TypeOK ==
    /\ page \in [Pages -> PageState]
    /\ wlock \in [Files -> Threads \cup {None}] /\ rlock \in [Files -> SUBSET Callers]
    /\ Typed(queue) /\ mDirtyLimit \in Nat
    /\ cachePc \in [Threads -> CallerSteps \cup CleanerSteps]
    /\ job \in [Callers -> Jobs] /\ work \in [Kinds -> Works]
    /\ deleting \subseteq Files

(* A caller that has begun has the file's lock, and nobody has one without a reason.  A
   page that is fetched is not dirty: its reader keeps the file's lock. *)
JobOK(c) ==
    /\ cachePc[c] \in CallerSteps
    /\ job[c].op = "none" <=> cachePc[c] = "idle"
    /\ job[c].op # "none" => job[c].page \in Pages
    /\ job[c].op = "delete" <=> cachePc[c] \in {"scope", "remove"}
    /\ cachePc[c] \in MidSteps =>
         /\ job[c].op \in {"write", "resize", "zero", "read"}
         /\ job[c].op = "zero" => job[c].old = 0
         /\ job[c].op \in Exclusive => wlock[File(job[c].page)] = c
         /\ job[c].op \notin Exclusive => c \in rlock[File(job[c].page)]
         /\ cachePc[c] = "free" => job[c].op \in Exclusive
    /\ \A f \in Files : wlock[f] = c =>
         cachePc[c] \in MidSteps /\ job[c].op \in Exclusive /\ File(job[c].page) = f
    /\ ~Ahead /\ job[c].op = "fetch" => c \in rlock[File(job[c].page)] /\ ~page[job[c].page].dirty

CleanerOK(k) ==
    /\ cachePc[k] \in CleanerSteps
    /\ cachePc[k] \in {"locking", "clean"} => work[k].file \in Files
    /\ cachePc[k] = "clean" => wlock[work[k].file] = k

ReadersAlone == \A f \in Files : rlock[f] # {} => wlock[f] = None

DeletesAlone ==
    /\ \A c, d \in Callers :
         (c # d /\ job[c].op = "delete" /\ job[d].op # "none" /\ File(job[d].page) = File(job[c].page))
         => job[d].op = "fetch"
    /\ \A f \in deleting : \E c \in Callers : job[c].op = "delete" /\ File(job[c].page) = f

(* The queues are right for each page, but for the one a writer is at, *)
Exact(p) ==
    /\ SizeOf(queue["evict"], p) = page[p].size
    /\ Strict => SizeOf(queue["flush"], p) \in {page[p].size} \cup (IF page[p].dirty THEN {} ELSE {0})
InUse(p) == \E c \in Callers : wlock[File(p)] = c /\ job[c].page = p
PageOK(p) ==
    /\ page[p].size = 0 => ~page[p].dirty /\ \A k \in Kinds : SizeOf(queue[k], p) = 0
    /\ InUse(p) \/ File(p) \in deleting \/ Exact(p)

(* which is in both queues, or on its way into them.  A writer that frees memory itself is
   about to clean another page of its file. *)
FreeOK(p, q) == q # <<>> /\ EndPage(q) # p /\ File(EndPage(q)) = File(p)
Waits == {"asleep", "awake", "free", "retest"}
UsedFor(step, j, pg, q) ==
    step \in MidSteps /\ j.op \in Exclusive =>
    /\ pg.size # 0 /\ SizeOf(q["evict"], j.page) = pg.size
    /\ Strict /\ j.op = "write" =>
         /\ SizeOf(q["flush"], j.page) = pg.size
         /\ step \in Waits => ~pg.dirty
    /\ j.op = "resize" =>
         /\ Strict /\ pg.dirty => SizeOf(q["flush"], j.page) # 0
         /\ j.kind = "flush" => SizeOf(q["flush"], j.page) \in {0, pg.size}
    /\ step = "done" => j.kind = "flush"
    /\ step = "free" => FreeOK(j.page, q[j.kind])
UsedOK(c) == UsedFor(cachePc[c], job[c], page[job[c].page], queue)

CacheInv ==
    /\ TypeOK /\ ReadersAlone /\ DeletesAlone
    /\ \A c \in Callers : JobOK(c) /\ UsedOK(c)
    /\ \A k \in Kinds : CleanerOK(k)
    /\ \A p \in Pages : PageOK(p)

(* Between a file's uses no page has a writer, so the queues are right for its pages. *)
LEMMA InvUnused ==
    ASSUME CacheInv, NEW p \in Pages
    PROVE  /\ page[p].size = 0 => \A k \in Kinds : SizeOf(queue[k], p) = 0
           /\ wlock[File(p)] = None /\ File(p) \notin deleting => Exact(p)
<1>1. PageOK(p)
  BY DEF CacheInv
<1>2. wlock[File(p)] = None => ~InUse(p)
  BY ThreadsAssumption DEF InUse, Threads
<1> QED
  BY <1>1, <1>2 DEF PageOK

(* With a dirty queue that is right, the invariant implies Tracked. *)
LEMMA InvTracked == CacheInv /\ Strict => Tracked
BY InvUnused DEF Tracked, Exact, SizeIn

-----------------------------------------------------------------------------
(* What a step leaves to the others.  A step of t changes the pages ps and their entries. *)
Woken(t) ==
    /\ \A d \in Callers \ {t} : cachePc'[d] = cachePc[d] \/ (cachePc[d] = "asleep" /\ cachePc'[d] = "awake")
    /\ \A k \in Kinds \ {t} : cachePc'[k] = cachePc[k] \/ (cachePc[k] = "asleep" /\ cachePc'[k] = "check")
OthersJobs(t) == \A d \in Callers \ {t} : job'[d] = job[d]
OthersWork(t) == \A k \in Kinds \ {t} : work'[k] = work[k]
OthersLocks(t) ==
    \A f \in Files, u \in Threads \ {t} :
        (wlock'[f] = u <=> wlock[f] = u) /\ (u \in rlock'[f] <=> u \in rlock[f])

Same(r) == page'[r] = page[r] /\ SameIn(queue, queue', r)
Changed(ps) ==
    /\ \A r \in Pages : r \notin ps => Same(r)
    /\ EndsKept(queue, queue', ps)
NoDirt(t) == \A r \in Pages : page'[r].dirty => page[r].dirty \/ wlock[File(r)] = t
NotOthers(t, ps) == \A r \in ps, d \in Callers \ {t} : wlock[File(r)] # d

(* The others are where they were, or awake, and have the locks they had. *)
LEMMA OthersControl ==
    ASSUME CacheInv, NEW t \in Threads, Woken(t), OthersJobs(t), OthersWork(t), OthersLocks(t),
           NoDirt(t)
    PROVE  /\ \A d \in Callers \ {t} : JobOK(d)'
           /\ \A k \in Kinds \ {t} : CleanerOK(k)'
<1>1. Kinds \subseteq Threads /\ Callers \subseteq Threads /\ None \notin Threads
  BY ThreadsAssumption DEF Threads
<1>2. ASSUME NEW d \in Callers \ {t} PROVE JobOK(d)'
  <2> DEFINE p == job[d].page
  <2>1. JobOK(d) /\ job'[d] = job[d]
    BY DEF CacheInv, OthersJobs
  <2>2. cachePc'[d] = cachePc[d] \/ (cachePc[d] = "asleep" /\ cachePc'[d] = "awake")
    BY DEF Woken
  <2>3. \A f \in Files : (wlock'[f] = d <=> wlock[f] = d) /\ (d \in rlock'[f] <=> d \in rlock[f])
    BY <1>1 DEF OthersLocks
  <2>4. job[d].op # "none" => p \in Pages /\ File(p) \in Files
    BY <2>1 DEF JobOK, Files
  <2>5. ~Ahead /\ job[d].op = "fetch" => ~page'[p].dirty
    <3> SUFFICES ASSUME ~Ahead, job[d].op = "fetch", page'[p].dirty PROVE FALSE
      OBVIOUS
    <3>1. p \in Pages /\ File(p) \in Files /\ d \in rlock[File(p)] /\ ~page[p].dirty
      BY <2>1, <2>4 DEF JobOK
    <3>2. wlock[File(p)] = None
      BY <3>1 DEF CacheInv, ReadersAlone
    <3>3. wlock[File(p)] = t
      BY <3>1 DEF NoDirt
    <3> QED
      BY <1>1, <3>2, <3>3
  <2>6. cachePc'[d] \in CallerSteps /\ (cachePc'[d] = "idle" <=> cachePc[d] = "idle")
        /\ (cachePc'[d] \in {"scope", "remove"} <=> cachePc[d] \in {"scope", "remove"})
        /\ (cachePc'[d] \in MidSteps <=> cachePc[d] \in MidSteps) /\ (cachePc'[d] = "free" <=> cachePc[d] = "free")
    BY <2>1, <2>2 DEF JobOK, CallerSteps, MidSteps
  <2>7. Exclusive \subseteq Ops /\ "none" \notin Ops /\ "none" \notin Exclusive
    BY DEF Exclusive, Ops
  <2>8. cachePc[d] \in MidSteps => job[d].op # "none" /\ File(p) \in Files
    BY <2>1, <2>4 DEF JobOK, MidSteps
  <2> QED
    BY <2>1, <2>3, <2>4, <2>5, <2>6, <2>8 DEF JobOK
<1>3. ASSUME NEW k \in Kinds \ {t} PROVE CleanerOK(k)'
  <2>1. CleanerOK(k) /\ work'[k] = work[k]
    BY DEF CacheInv, OthersWork
  <2>2. cachePc'[k] = cachePc[k] \/ (cachePc[k] = "asleep" /\ cachePc'[k] = "check")
    BY DEF Woken
  <2>3. \A f \in Files : wlock'[f] = k <=> wlock[f] = k
    BY <1>1 DEF OthersLocks
  <2> QED
    BY <2>1, <2>2, <2>3 DEF CleanerOK, CleanerSteps
<1> QED
  BY <1>2, <1>3

(* What is said of a writer's page holds on if the page and its entries stay, *)
LEMMA UsedKept ==
    ASSUME NEW step, NEW step1, step1 = step \/ (step = "asleep" /\ step1 = "awake"),
           NEW j, NEW pg, NEW q, NEW q1, j.kind \in Kinds, SameIn(q, q1, j.page),
           FreeOK(j.page, q[j.kind]) => FreeOK(j.page, q1[j.kind]),
           UsedFor(step, j, pg, q)
    PROVE  UsedFor(step1, j, pg, q1)
<1>1. "evict" \in Kinds /\ "flush" \in Kinds
  BY DEF Kinds
<1>2. SizeOf(q1["evict"], j.page) = SizeOf(q["evict"], j.page)
      /\ SizeOf(q1["flush"], j.page) = SizeOf(q["flush"], j.page)
  BY <1>1 DEF SameIn
<1>3. /\ step1 \in MidSteps => step \in MidSteps
      /\ step1 \in Waits => step \in Waits
      /\ step1 = "done" => step = "done"
      /\ step1 = "free" => step = "free"
  BY DEF MidSteps, Waits
<1> QED
  BY <1>2, <1>3 DEF UsedFor

(* so it does for all writers but the one that takes the step. *)
LEMMA OthersUsed ==
    ASSUME CacheInv, NEW t \in Threads, Woken(t), OthersJobs(t), NEW ps, Changed(ps),
           NotOthers(t, ps)
    PROVE  \A d \in Callers \ {t} : UsedOK(d)'
<1> SUFFICES ASSUME NEW d \in Callers \ {t}, cachePc'[d] \in MidSteps, job[d].op \in Exclusive
             PROVE  UsedFor(cachePc'[d], job[d], page'[job[d].page], queue')
  BY DEF UsedOK, UsedFor, OthersJobs
<1> DEFINE j == job[d]
<1>1. JobOK(d) /\ UsedOK(d)
  BY DEF CacheInv
<1>2. cachePc'[d] = cachePc[d] \/ (cachePc[d] = "asleep" /\ cachePc'[d] = "awake")
  BY DEF Woken
<1>3. cachePc[d] \in MidSteps
  BY <1>2 DEF MidSteps
<1>4. j.page \in Pages /\ wlock[File(j.page)] = d
  <2>1. j.op # "none"
    BY DEF Exclusive
  <2> QED
    BY <1>1, <1>3, <2>1 DEF JobOK
<1>5. j.page \notin ps
  BY <1>4 DEF NotOthers
<1>6. page'[j.page] = page[j.page] /\ SameIn(queue, queue', j.page)
  BY <1>4, <1>5 DEF Changed, Same
<1>7. j.kind \in Kinds
  BY DEF CacheInv, TypeOK, Jobs
<1>8. ASSUME FreeOK(j.page, queue[j.kind]) PROVE FreeOK(j.page, queue'[j.kind])
  <2>1. EndPage(queue[j.kind]) \notin ps
    BY <1>4, <1>8 DEF FreeOK, NotOthers
  <2>2. EndKept(queue[j.kind], queue'[j.kind], ps)
    BY <1>7 DEF Changed, EndsKept
  <2> QED
    BY <1>8, <2>1, <2>2 DEF FreeOK, EndKept
<1>9. UsedFor(cachePc[d], j, page[j.page], queue)
  BY <1>1 DEF UsedOK
<1> HIDE DEF j
<1> QED
  BY <1>2, <1>6, <1>7, <1>8, <1>9, UsedKept DEF j

StillUsed(t, ps) ==
    \A r \in Pages \ ps : wlock[File(r)] = t /\ t \in Callers /\ job[t].page = r
        => wlock'[File(r)] = t /\ job'[t].page = r
StillDeleted(ps) ==
    \A r \in Pages \ ps : File(r) \in deleting => File(r) \in deleting' \/ page[r].size = 0

(* The pages that the step does not change stay right. *)
LEMMA OthersPages ==
    ASSUME CacheInv, NEW t \in Threads, OthersJobs(t), OthersLocks(t), NEW ps, Changed(ps),
           StillUsed(t, ps), StillDeleted(ps), NEW r \in Pages \ ps
    PROVE  PageOK(r)'
<1>1. PageOK(r) /\ page'[r] = page[r] /\ SameIn(queue, queue', r)
  BY DEF CacheInv, Changed, Same
<1>2. "evict" \in Kinds /\ "flush" \in Kinds
  BY DEF Kinds
<1>3. Exact(r) => Exact(r)'
  BY <1>1, <1>2 DEF Exact, SameIn
<1>4. ASSUME NEW c \in Callers, wlock[File(r)] = c, job[c].page = r
      PROVE  InUse(r)'
  <2>1. c \in Threads /\ File(r) \in Files
    BY DEF Threads, Files
  <2>2. CASE c = t
    BY <1>4, <2>2 DEF StillUsed, InUse
  <2>3. CASE c # t
    BY <1>4, <2>1, <2>3 DEF OthersJobs, OthersLocks, InUse
  <2> QED
    BY <2>2, <2>3
<1>5. ASSUME page[r].size = 0
      PROVE  ~page'[r].dirty /\ (\A k \in Kinds : SizeOf(queue'[k], r) = 0) /\ Exact(r)
  BY <1>1, <1>2, <1>5 DEF PageOK, Exact, SameIn
<1>6. InUse(r) => InUse(r)'
  BY <1>4 DEF InUse
<1>7. File(r) \in deleting => File(r) \in deleting' \/ page[r].size = 0
  BY DEF StillDeleted
<1> QED
  BY <1>1, <1>3, <1>5, <1>6, <1>7 DEF PageOK

(* A step of t keeps the invariant if it keeps what is said of t and the pages ps. *)
Frame(t, ps) ==
    /\ Woken(t) /\ OthersJobs(t) /\ OthersWork(t) /\ OthersLocks(t)
    /\ NoDirt(t) /\ Changed(ps) /\ NotOthers(t, ps) /\ StillUsed(t, ps) /\ StillDeleted(ps)

(* A caller's step keeps the invariant if it does where it changes something, *)
LEMMA CombineCaller ==
    ASSUME CacheInv, NEW c \in Callers, NEW ps, Frame(c, ps),
           TypeOK', ReadersAlone', DeletesAlone', JobOK(c)', UsedOK(c)',
           \A r \in Pages \cap ps : PageOK(r)'
    PROVE  CacheInv'
<1>1. c \in Threads /\ \A k \in Kinds : k # c
  BY ThreadsAssumption DEF Threads
<1>2. \A d \in Callers \ {c} : JobOK(d)' /\ UsedOK(d)'
  BY <1>1, OthersControl, OthersUsed DEF Frame
<1>3. \A k \in Kinds : CleanerOK(k)'
  BY <1>1, OthersControl DEF Frame
<1>4. \A r \in Pages \ ps : PageOK(r)'
  BY <1>1, OthersPages DEF Frame
<1> QED
  BY <1>2, <1>3, <1>4 DEF CacheInv

(* and so does a cleanup thread's. *)
LEMMA CombineCleaner ==
    ASSUME CacheInv, NEW k \in Kinds, NEW ps, Frame(k, ps),
           TypeOK', ReadersAlone', DeletesAlone', CleanerOK(k)',
           \A r \in Pages \cap ps : PageOK(r)'
    PROVE  CacheInv'
<1>1. k \in Threads /\ \A c \in Callers : c # k
  BY ThreadsAssumption DEF Threads
<1>2. \A d \in Callers : JobOK(d)' /\ UsedOK(d)'
  BY <1>1, OthersControl, OthersUsed DEF Frame
<1>3. \A l \in Kinds \ {k} : CleanerOK(l)'
  BY <1>1, OthersControl DEF Frame
<1>4. \A r \in Pages \ ps : PageOK(r)'
  BY <1>1, OthersPages DEF Frame
<1> QED
  BY <1>2, <1>3, <1>4 DEF CacheInv

-----------------------------------------------------------------------------
(* What comes of looking for memory: the queues have the sizes they had, but for the
   dirty size of a page that is resized. *)
Outcomes == [queue : [Kinds -> Queue], step : {"done", "asleep", "failed", "free"},
             kind : Kinds, cleared : SUBSET Kinds]
OutcomeOK(c, q, size, o) ==
    LET p == job[c].page IN
    /\ o \in Outcomes /\ Typed(o.queue) /\ EndsKept(q, o.queue, {})
    /\ o.step = "done" => o.kind = "flush"
    /\ o.step = "free" => job[c].op \in Exclusive /\ FreeOK(p, o.queue[o.kind])
    /\ SameBut(q, o.queue, {p})
    /\ SizeOf(o.queue["evict"], p) = SizeOf(q["evict"], p)
    /\ job[c].op # "resize" => SizeOf(o.queue["flush"], p) = SizeOf(q["flush"], p)
    /\ job[c].op = "resize" =>
         /\ SizeOf(q["flush"], p) = 0 => SizeOf(o.queue["flush"], p) = 0
         /\ SizeOf(q["flush"], p) # 0 => SizeOf(o.queue["flush"], p) \in {SizeOf(q["flush"], p), size}
         /\ o.kind = "flush" => SizeOf(o.queue["flush"], p) \in {0, size}

(* An outcome is right if its queues are, and the caller goes on as it should. *)
LEMMA OutcomeLemma ==
    ASSUME NEW c, NEW q, Typed(q), NEW size, NEW k \in Kinds,
           job[c].op = "resize" /\ k = "flush" => SizeOf(q["flush"], job[c].page) \in {0, size},
           NEW step \in {"done", "asleep", "failed", "free"}, step = "done" => k = "flush",
           step = "free" => job[c].op \in Exclusive /\ FreeOK(job[c].page, q[k])
    PROVE  OutcomeOK(c, q, size, Outcome(q, step, k))
<1> DEFINE o == Outcome(q, step, k)
<1>1. o \in Outcomes /\ o.queue = q /\ o.step = step /\ o.kind = k
  BY DEF Outcome, Outcomes, Typed
<1>2. EndsKept(q, q, {})
  BY EndsKeptLemma
<1>3. SizeOf(q["flush"], job[c].page) \in Nat
  <2>1. q["flush"] \in Queue /\ Distinct(q["flush"])
    BY KindsLemma DEF Typed
  <2>2. SizeOf(q["flush"], job[c].page) \in 0 .. MaxPageSize
    BY <2>1, SizeOfType
  <2> QED
    BY <2>2, CacheSizesAssumption
<1> HIDE DEF o
<1> QED
  BY <1>1, <1>2, <1>3 DEF OutcomeOK, SameBut, SameIn, o

(* That a failure is cleared changes nothing else. *)
LEMMA ClearedLemma ==
    ASSUME NEW o \in Outcomes, NEW k \in Kinds
    PROVE  LET r == [o EXCEPT !.cleared = @ \cup {k}]
           IN  r \in Outcomes /\ r.queue = o.queue /\ r.step = o.step /\ r.kind = o.kind
BY DEF Outcomes

(* The test of a wait loop is right if what follows it is. *)
LEMMA TestOK ==
    ASSUME NEW c, NEW q, Typed(q), NEW size, NEW k \in Kinds,
           job[c].op = "resize" /\ k = "flush" => SizeOf(q["flush"], job[c].page) \in {0, size},
           NEW enough, OutcomeOK(c, q, size, enough), NEW failed
    PROVE  OutcomeOK(c, q, size, Test(c, k, q, failed, enough))
<1>1. \A step \in {"failed", "asleep"} : OutcomeOK(c, q, size, Outcome(q, step, k))
  BY OutcomeLemma
<1> QED
  BY <1>1 DEF Test

(* HandleMemory() and HandleDirtyMemory(): a writer that frees memory itself is right too. *)
LEMMA HandleOK ==
    ASSUME CacheInv, NEW c, NEW q, Typed(q), NEW size, NEW k \in Kinds,
           job[c].op = "resize" /\ k = "flush" => SizeOf(q["flush"], job[c].page) \in {0, size},
           NEW enough, OutcomeOK(c, q, size, enough)
    PROVE  OutcomeOK(c, q, size, Handle(c, k, q, enough))
<1> DEFINE p == job[c].page
           last == q[k][Len(q[k])].page
           frees == job[c].op \in Exclusive /\ OverIn(q, k) /\ File(last) = File(p) /\ last # p
           test == Test(c, k, q, FALSE, enough)
           cleared == [test EXCEPT !.cleared = @ \cup {k}]
<1>1. ASSUME frees PROVE OutcomeOK(c, q, size, Outcome(q, "free", k))
  <2>1. q[k] \in Queue
    BY DEF Typed
  <2>2. Total(q[k]) \in Nat /\ (Total(q[k]) > 0 => q[k] # <<>>)
    BY <2>1, TotalType
  <2>3. Limit(k) \in Nat
    BY CacheSizesAssumption DEF CacheInv, TypeOK, Limit
  <2>4. q[k] # <<>>
    BY <1>1, <2>2, <2>3 DEF OverIn
  <2>5. FreeOK(p, q[k])
    BY <1>1, <2>4 DEF FreeOK, EndPage
  <2> QED
    BY <1>1, <2>5, OutcomeLemma
<1>2. OutcomeOK(c, q, size, cleared)
  <2>1. OutcomeOK(c, q, size, test)
    BY TestOK
  <2> HIDE DEF test
  <2>2. /\ cleared \in Outcomes /\ cleared.queue = test.queue
        /\ cleared.step = test.step /\ cleared.kind = test.kind
    BY <2>1, ClearedLemma DEF OutcomeOK
  <2> HIDE DEF cleared
  <2> QED
    BY <2>1, <2>2 DEF OutcomeOK
<1>3. Handle(c, k, q, enough) = IF frees THEN Outcome(q, "free", k) ELSE cleared
  BY DEF Handle
<1> HIDE DEF frees, cleared
<1> QED
  BY <1>1, <1>2, <1>3

(* What is right for the dirty queue with a new size is right for the caller before it, *)
LEMMA OutcomeResized ==
    ASSUME NEW c, job[c].op = "resize", NEW q, Typed(q), NEW size \in 1 .. MaxPageSize,
           NEW o, OutcomeOK(c, ResizedIn(q, "flush", job[c].page, size), size, o)
    PROVE  OutcomeOK(c, q, size, o)
<1> DEFINE p == job[c].page
           r == ResizedIn(q, "flush", p, size)
<1>1. "flush" \in Kinds
  BY KindsLemma
<1>2. OneResized(q, r, "flush", p, size)
  BY <1>1, ResizeOneLemma
<1> HIDE DEF r
<1>3. EndsKept(q, r, {}) /\ SameBut(q, r, {p})
      /\ SizeOf(r["flush"], p) = IF SizeOf(q["flush"], p) # 0 THEN size ELSE 0
  BY <1>2 DEF OneResized
<1>5. r["evict"] = q["evict"]
  BY <1>2, KindsLemma DEF OneResized
<1>6. OutcomeOK(c, r, size, o)
  BY DEF r
<1>7. EndsKept(q, o.queue, {})
  BY <1>3, <1>6, EndsKeptLemma DEF OutcomeOK
<1>8. SameBut(q, o.queue, {p})
  BY <1>3, <1>6 DEF OutcomeOK, SameBut, SameIn
<1>9. size # 0
  BY CacheSizesAssumption
<1> QED
  BY <1>3, <1>5, <1>6, <1>7, <1>8, <1>9 DEF OutcomeOK

(* so with the memory there it goes on to dirty memory, or is done, *)
LEMMA AfterEvictOK ==
    ASSUME CacheInv, NEW c, NEW q, Typed(q), NEW size,
           job[c].op = "resize" => size \in 1 .. MaxPageSize
    PROVE  OutcomeOK(c, q, size, AfterEvict(c, q, size))
<1> DEFINE p == job[c].page
           resized == ResizedIn(q, "flush", p, size)
<1>0. "flush" \in Kinds
  BY KindsLemma
<1>1. CASE job[c].op = "resize"
  <2>1. Typed(resized) /\ SizeOf(resized["flush"], p) = IF SizeOf(q["flush"], p) # 0 THEN size ELSE 0
    <3>1. OneResized(q, resized, "flush", p, size)
      BY <1>0, <1>1, ResizeOneLemma
    <3> QED
      BY <3>1 DEF OneResized
  <2>2. AfterEvict(c, q, size) \in {HandleDirty(c, resized), Outcome(resized, "done", "flush")}
    BY <1>1 DEF AfterEvict, ResizedIn
  <2> HIDE DEF resized
  <2>3. OutcomeOK(c, resized, size, Outcome(resized, "done", "flush"))
    BY <1>0, <2>1, OutcomeLemma
  <2>4. OutcomeOK(c, resized, size, HandleDirty(c, resized))
    BY <1>0, <2>1, <2>3, HandleOK DEF HandleDirty
  <2>5. OutcomeOK(c, resized, size, AfterEvict(c, q, size))
    BY <2>2, <2>3, <2>4
  <2> QED
    BY <1>1, <2>5, OutcomeResized DEF resized
<1>2. CASE job[c].op # "resize"
  <2>1. OutcomeOK(c, q, size, Outcome(q, "done", "flush"))
    BY <1>0, <1>2, OutcomeLemma
  <2>2. OutcomeOK(c, q, size, HandleDirty(c, q))
    BY <1>0, <1>2, <2>1, HandleOK DEF HandleDirty
  <2> QED
    BY <1>2, <2>1, <2>2 DEF AfterEvict
<1> QED
  BY <1>1, <1>2

(* and the two together are right. *)
LEMMA HandleEvictOK ==
    ASSUME CacheInv, NEW c, NEW q, Typed(q), NEW size,
           job[c].op = "resize" => size \in 1 .. MaxPageSize
    PROVE  OutcomeOK(c, q, size, HandleEvict(c, q, size))
<1>1. OutcomeOK(c, q, size, AfterEvict(c, q, size))
  BY AfterEvictOK
<1> QED
  BY <1>1, KindsLemma, HandleOK DEF HandleEvict

-----------------------------------------------------------------------------
(* Callers that look for memory *)
LEMMA DeletesKept ==
    ASSUME CacheInv, NEW t, OthersJobs(t), deleting' = deleting,
           t \in Callers => job'[t] = job[t]
               \/ (job[t].op # "delete" /\ job'[t].op = "none")
               \/ (job'[t].op = job[t].op /\ job'[t].page = job[t].page)
    PROVE  DeletesAlone'
<1>1. \A d \in Callers : \/ job'[d].op = job[d].op /\ job'[d].page = job[d].page
                         \/ job[d].op # "delete" /\ job'[d].op = "none"
  BY DEF OthersJobs
<1>2. DeletesAlone
  BY DEF CacheInv
<1>3. ASSUME NEW c \in Callers, NEW d \in Callers, c # d, job'[c].op = "delete",
             job'[d].op # "none", File(job'[d].page) = File(job'[c].page)
      PROVE  job'[d].op = "fetch"
  <2>1. job'[c].op = job[c].op /\ job'[c].page = job[c].page
    BY <1>1, <1>3
  <2>2. job'[d].op = job[d].op /\ job'[d].page = job[d].page
    BY <1>1, <1>3
  <2> QED
    BY <1>2, <1>3, <2>1, <2>2 DEF DeletesAlone
<1>4. ASSUME NEW f \in deleting' PROVE \E c \in Callers : job'[c].op = "delete" /\ File(job'[c].page) = f
  <2>1. PICK c \in Callers : job[c].op = "delete" /\ File(job[c].page) = f
    BY <1>2 DEF DeletesAlone
  <2> QED
    BY <1>1, <2>1
<1> QED
  BY <1>3, <1>4 DEF DeletesAlone

(* with the file's lock, which it gets or has *)
HasLock(c) ==
    LET f == File(job[c].page) IN
    /\ wlock' \in [Files -> Threads \cup {None}] /\ rlock' \in [Files -> SUBSET Callers]
    /\ \A g \in Files \ {f} : wlock'[g] = wlock[g] /\ rlock'[g] = rlock[g]
    /\ job[c].op \in Exclusive =>
         (Unlocked(f) \/ wlock[f] = c) /\ wlock'[f] = c /\ rlock'[f] = rlock[f]
    /\ job[c].op \notin Exclusive =>
         wlock[f] = None /\ wlock'[f] = None /\ rlock'[f] = rlock[f] \cup {c}

(* A caller that takes its file's lock has it, *)
LEMMA HoldLemma ==
    ASSUME CacheInv, NEW c \in Callers, NEW op, NEW present, Locked(c, op, present), Hold(c)
    PROVE  HasLock(c)
<1> DEFINE f == File(job[c].page)
<1>1. /\ wlock \in [Files -> Threads \cup {None}] /\ rlock \in [Files -> SUBSET Callers]
      /\ c \in Threads
  BY DEF CacheInv, TypeOK, Threads
<1>2. f \in Files
  <2>1. cachePc[c] = "lock" /\ JobOK(c)
    BY DEF Locked, CacheInv
  <2> QED
    BY <2>1 DEF JobOK, Files
<1>3. CASE job[c].op \in Exclusive
  <2>1. Unlocked(f) /\ wlock' = [wlock EXCEPT ![f] = c] /\ rlock' = rlock
    BY <1>3 DEF Locked, Hold
  <2> HIDE DEF f
  <2>2. /\ wlock' \in [Files -> Threads \cup {None}] /\ rlock' \in [Files -> SUBSET Callers]
        /\ \A g \in Files \ {f} : wlock'[g] = wlock[g] /\ rlock'[g] = rlock[g]
        /\ wlock'[f] = c /\ rlock'[f] = rlock[f]
    BY <1>1, <1>2, <2>1
  <2> QED
    BY <1>3, <2>1, <2>2 DEF HasLock, f
<1>4. CASE job[c].op \notin Exclusive
  <2>1. wlock[f] = None /\ rlock' = [rlock EXCEPT ![f] = @ \cup {c}] /\ wlock' = wlock
    BY <1>4 DEF Locked, Hold
  <2> HIDE DEF f
  <2>2. /\ wlock' \in [Files -> Threads \cup {None}] /\ rlock' \in [Files -> SUBSET Callers]
        /\ \A g \in Files \ {f} : wlock'[g] = wlock[g] /\ rlock'[g] = rlock[g]
        /\ wlock'[f] = None /\ rlock'[f] = rlock[f] \cup {c}
    BY <1>1, <1>2, <2>1
  <2> QED
    BY <1>4, <2>1, <2>2 DEF HasLock, f
<1> QED
  BY <1>3, <1>4

(* and one that waits for memory has it still. *)
LEMMA HeldLemma ==
    ASSUME CacheInv, NEW c \in Callers, cachePc[c] \in MidSteps, wlock' = wlock, rlock' = rlock
    PROVE  HasLock(c)
<1> DEFINE f == File(job[c].page)
<1>1. /\ wlock \in [Files -> Threads \cup {None}] /\ rlock \in [Files -> SUBSET Callers]
  BY DEF CacheInv, TypeOK
<1>2. f \in Files /\ (job[c].op \in Exclusive => wlock[f] = c)
      /\ (job[c].op \notin Exclusive => c \in rlock[f])
  BY DEF CacheInv, JobOK, Files, MidSteps
<1>3. rlock[f] # {} => wlock[f] = None
  BY <1>2 DEF CacheInv, ReadersAlone
<1> HIDE DEF f
<1>4. c \in rlock[f] => rlock[f] = rlock[f] \cup {c} /\ wlock[f] = None
  BY <1>3
<1> QED
  BY <1>1, <1>2, <1>4 DEF HasLock, f

(* With the lock it has, the others' locks are what they were, and nobody else writes its page. *)
LEMMA LocksLemma ==
    ASSUME CacheInv, NEW c \in Callers, job[c].page \in Pages, HasLock(c)
    PROVE  OthersLocks(c) /\ ReadersAlone' /\ NotOthers(c, {job[c].page})
<1> DEFINE f == File(job[c].page)
<1>0. f \in Files /\ None \notin Threads /\ Callers \subseteq Threads
  BY ThreadsAssumption DEF Files, Threads
<1>1. /\ \A g \in Files \ {f} : wlock'[g] = wlock[g] /\ rlock'[g] = rlock[g]
      /\ \/ (Unlocked(f) \/ wlock[f] = c) /\ wlock'[f] = c /\ rlock'[f] = rlock[f]
         \/ wlock[f] = None /\ wlock'[f] = None /\ rlock'[f] = rlock[f] \cup {c}
  BY DEF HasLock
<1> HIDE DEF f
<1>2. wlock[f] \in {None, c}
  BY <1>1 DEF Unlocked
<1>3. ReadersAlone
  BY DEF CacheInv
<1>4. OthersLocks(c)
  <2> SUFFICES ASSUME NEW g \in Files, NEW u \in Threads \ {c}
               PROVE  (wlock'[g] = u <=> wlock[g] = u) /\ (u \in rlock'[g] <=> u \in rlock[g])
    BY DEF OthersLocks
  <2> QED
    BY <1>0, <1>1, <1>2
<1>5. ReadersAlone'
  <2> SUFFICES ASSUME NEW g \in Files, rlock'[g] # {} PROVE wlock'[g] = None
    BY DEF ReadersAlone
  <2>1. CASE g # f
    BY <1>1, <1>3, <2>1 DEF ReadersAlone
  <2>2. CASE g = f
    <3>1. wlock[f] = c => rlock[f] = {}
      BY <1>0, <1>3 DEF ReadersAlone
    <3> QED
      BY <1>1, <2>2, <3>1 DEF Unlocked
  <2> QED
    BY <2>1, <2>2
<1>6. NotOthers(c, {job[c].page})
  BY <1>0, <1>2 DEF NotOthers, f
<1> QED
  BY <1>4, <1>5, <1>6

(* What comes of a call for memory, as a step of the caller. *)
LEMMA BecomeLemma ==
    ASSUME CacheInv, NEW c \in Callers, NEW o, o \in Outcomes, NEW old \in 0 .. MaxPageSize,
           Become(c, o, old)
    PROVE  /\ Woken(c) /\ OthersJobs(c) /\ queue' = o.queue
           /\ cachePc' \in [Threads -> CallerSteps \cup CleanerSteps] /\ cachePc'[c] = o.step
           /\ job' \in [Callers -> Jobs]
           /\ job'[c].op = job[c].op /\ job'[c].page = job[c].page
           /\ job'[c].kind = o.kind /\ job'[c].old = old
<1>1. /\ cachePc \in [Threads -> CallerSteps \cup CleanerSteps] /\ job \in [Callers -> Jobs]
      /\ c \in Threads /\ Kinds \subseteq Threads /\ c \notin Kinds /\ job[c] \in Jobs
  BY ThreadsAssumption DEF CacheInv, TypeOK, Threads
<1>2. o.step \in {"done", "asleep", "failed", "free"} /\ o.kind \in Kinds
  BY DEF Outcomes
<1>3. o.step \in CallerSteps \cup CleanerSteps /\ {"asleep", "check"} \subseteq CallerSteps \cup CleanerSteps
  BY <1>2 DEF CallerSteps, MidSteps, CleanerSteps
<1>4. /\ cachePc' \in [Threads -> CallerSteps \cup CleanerSteps] /\ cachePc'[c] = o.step
      /\ Woken(c)
  <2>1. CASE o.step = "asleep"
    <3>1. cachePc' = NotifyThread([cachePc EXCEPT ![c] = "asleep"], o.kind)
      BY <2>1 DEF Become
    <3> DEFINE k == o.kind
               base == [cachePc EXCEPT ![c] = "asleep"]
    <3>2. base \in [Threads -> CallerSteps \cup CleanerSteps] /\ base[c] = "asleep"
          /\ \A u \in Threads : u # c => base[u] = cachePc[u]
      BY <1>1, <1>3
    <3> HIDE DEF base, k
    <3>3. cachePc' = [base EXCEPT ![k] = IF base[k] = "asleep" THEN "check" ELSE base[k]] /\ k \in Kinds
      BY <1>2, <3>1 DEF NotifyThread, base, k
    <3>4. k \in Threads /\ k # c
      BY <1>1, <3>3
    <3>5. cachePc' \in [Threads -> CallerSteps \cup CleanerSteps]
      BY <1>3, <3>2, <3>3, <3>4
    <3>6. \A u \in Threads : u # k => cachePc'[u] = base[u]
      BY <3>2, <3>3, <3>4
    <3>7. cachePc'[k] = cachePc[k] \/ (cachePc[k] = "asleep" /\ cachePc'[k] = "check")
      BY <3>2, <3>3, <3>4
    <3>8. Callers \subseteq Threads /\ \A d \in Callers : d # k
      BY <3>3, ThreadsAssumption DEF Threads
    <3>9. \A d \in Callers \ {c} : cachePc'[d] = cachePc[d]
      BY <3>2, <3>6, <3>8
    <3>10. \A l \in Kinds \ {c} : cachePc'[l] = cachePc[l] \/ (cachePc[l] = "asleep" /\ cachePc'[l] = "check")
      BY <1>1, <3>2, <3>6, <3>7
    <3> QED
      BY <1>1, <2>1, <3>2, <3>4, <3>5, <3>6, <3>9, <3>10 DEF Woken
  <2>2. CASE o.step # "asleep"
    <3>1. cachePc' = [cachePc EXCEPT ![c] = o.step]
      BY <2>2 DEF Become
    <3> QED
      BY <1>1, <1>3, <3>1 DEF Woken, Threads
  <2> QED
    BY <2>1, <2>2
<1>5. /\ job' \in [Callers -> Jobs] /\ OthersJobs(c)
      /\ job'[c].op = job[c].op /\ job'[c].page = job[c].page
      /\ job'[c].kind = o.kind /\ job'[c].old = old
  <2>1. job' = [job EXCEPT ![c].kind = o.kind, ![c].old = old]
    BY DEF Become
  <2> DEFINE j == [job[c] EXCEPT !.kind = o.kind, !.old = old]
  <2>2. j \in Jobs /\ j.op = job[c].op /\ j.page = job[c].page /\ j.kind = o.kind /\ j.old = old
    BY <1>1, <1>2 DEF Jobs
  <2>3. job'[c] = j /\ \A d \in Callers : d # c => job'[d] = job[d]
    BY <1>1, <2>1
  <2>4. job' = [d \in Callers |-> job'[d]]
    BY <1>1, <2>1
  <2> HIDE DEF j
  <2>5. \A d \in Callers : job'[d] \in Jobs
    BY <1>1, <2>2, <2>3
  <2>6. job' \in [Callers -> Jobs]
    BY <2>4, <2>5
  <2> QED
    BY <2>2, <2>3, <2>6 DEF OthersJobs
<1>6. queue' = o.queue
  BY DEF Become
<1> QED
  BY <1>4, <1>5, <1>6

(* The memory that the page will need is counted in q, and nothing else is changed. *)
Paid(c, q, size, o) ==
    LET p == job[c].page IN
    /\ page' \in [Pages -> PageState] /\ \A r \in Pages : r # p => page'[r] = page[r]
    /\ page'[p].dirty = page[p].dirty
    /\ Typed(q) /\ EndsKept(queue, q, {p}) /\ SameBut(queue, q, {p})
    /\ job[c].op \in Exclusive =>
         page'[p].size = size /\ size # 0 /\ SizeOf(q["evict"], p) = size
    /\ Strict /\ job[c].op = "write" =>
         SizeOf(q["flush"], p) = size /\ (o.step \in Waits => ~page[p].dirty)
    /\ Strict /\ job[c].op = "resize" /\ page[p].dirty => SizeOf(q["flush"], p) # 0
    /\ job[c].op \notin Exclusive =>
         /\ page'[p].size = 0 =>
              ~page[p].dirty /\ SizeOf(q["evict"], p) = 0 /\ SizeOf(q["flush"], p) = 0
         /\ \/ File(p) \in deleting
            \/ /\ SizeOf(q["evict"], p) = page'[p].size
               /\ Strict => SizeOf(q["flush"], p) \in
                    {page'[p].size} \cup (IF page[p].dirty THEN {} ELSE {0})

(* A caller that has its lock and got an outcome that is right keeps the invariant. *)
LEMMA Proceeds ==
    ASSUME CacheInv, NEW c \in Callers, cachePc[c] = "lock" \/ cachePc[c] \in MidSteps,
           job[c].op \in {"write", "resize", "zero", "read"},
           NEW q, NEW size, NEW o, OutcomeOK(c, q, size, o), Paid(c, q, size, o),
           NEW old \in 0 .. MaxPageSize, Become(c, o, old), job[c].op = "zero" => old = 0,
           HasLock(c), work' = work, deleting' = deleting, mDirtyLimit' = mDirtyLimit
    PROVE  CacheInv'
<1> DEFINE p == job[c].page
<1>1. JobOK(c) /\ p \in Pages /\ File(p) \in Files /\ c \in Threads
  BY DEF CacheInv, JobOK, Files, MidSteps, Threads
<1>2. /\ Woken(c) /\ OthersJobs(c) /\ queue' = o.queue
      /\ cachePc' \in [Threads -> CallerSteps \cup CleanerSteps] /\ cachePc'[c] = o.step
      /\ job' \in [Callers -> Jobs]
      /\ job'[c].op = job[c].op /\ job'[c].page = p
      /\ job'[c].kind = o.kind /\ job'[c].old = old
  BY BecomeLemma DEF OutcomeOK
<1>3. OthersLocks(c) /\ ReadersAlone' /\ NotOthers(c, {p})
  BY <1>1, LocksLemma
<1>4. DeletesAlone'
  BY <1>2, DeletesKept
<1>5. o.step \in {"done", "asleep", "failed", "free"} /\ o.kind \in Kinds
  BY DEF OutcomeOK, Outcomes
<1>6. TypeOK'
  BY <1>2 DEF CacheInv, TypeOK, OutcomeOK, Paid, HasLock
<1>7. EndsKept(queue, queue', {p}) /\ SameBut(queue, queue', {p})
  <2>1. EndsKept(q, o.queue, {}) /\ SameBut(q, o.queue, {p})
        /\ EndsKept(queue, q, {p}) /\ SameBut(queue, q, {p})
    BY DEF OutcomeOK, Paid
  <2>2. EndsKept(q, o.queue, {p})
    BY <2>1, EndsKeptLemma
  <2>3. EndsKept(queue, o.queue, {p})
    BY <2>1, <2>2, EndsKeptLemma
  <2>4. SameBut(queue, o.queue, {p})
    BY <2>1 DEF SameBut, SameIn
  <2> QED
    BY <1>2, <2>3, <2>4
<1>8. Changed({p})
  BY <1>7 DEF Changed, Same, SameBut, Paid
<1>9. NoDirt(c) /\ OthersWork(c) /\ StillUsed(c, {p}) /\ StillDeleted({p})
  BY DEF NoDirt, OthersWork, StillUsed, StillDeleted, Paid
<1>10. Frame(c, {p})
  BY <1>2, <1>3, <1>8, <1>9 DEF Frame
<1>11. JobOK(c)'
  <2>1. cachePc'[c] \in CallerSteps /\ cachePc'[c] \in MidSteps /\ cachePc'[c] \notin {"idle", "scope", "remove"}
    BY <1>2, <1>5 DEF CallerSteps, MidSteps
  <2>2. job'[c].op \notin {"none", "delete", "fetch"}
    BY <1>2
  <2>3. job[c].op \in Exclusive => wlock'[File(p)] = c
    BY DEF HasLock
  <2>4. job[c].op \notin Exclusive => c \in rlock'[File(p)]
    BY DEF HasLock
  <2>5. ASSUME NEW f \in Files, wlock'[f] = c PROVE job[c].op \in Exclusive /\ File(p) = f
    <3>1. CASE f = File(p)
      BY <1>1, <2>5, <3>1, ThreadsAssumption DEF HasLock
    <3>2. CASE f # File(p)
      BY <1>1, <2>5, <3>2 DEF HasLock, JobOK
    <3> QED
      BY <3>1, <3>2
  <2>6. o.step = "free" => job[c].op \in Exclusive
    BY DEF OutcomeOK
  <2> QED
    BY <1>1, <1>2, <2>1, <2>2, <2>3, <2>4, <2>5, <2>6 DEF JobOK
<1>12. SizeOf(queue'["evict"], p) = SizeOf(q["evict"], p)
       /\ (job[c].op # "resize" => SizeOf(queue'["flush"], p) = SizeOf(q["flush"], p))
  BY <1>2 DEF OutcomeOK
<1>13. UsedOK(c)'
  <2> DEFINE j == job'[c]
             pg == page'[p]
             r == queue'
  <2> SUFFICES ASSUME j.op \in Exclusive PROVE UsedFor(o.step, j, pg, r)
    BY <1>2 DEF UsedOK, UsedFor
  <2>1. pg.size = size /\ size # 0 /\ SizeOf(r["evict"], p) = size
    BY <1>2, <1>12 DEF Paid
  <2>2. ASSUME Strict, j.op = "write"
        PROVE  SizeOf(r["flush"], p) = size /\ (o.step \in Waits => ~pg.dirty)
    BY <1>2, <1>12, <2>2 DEF Paid
  <2>3. ASSUME j.op = "resize"
        PROVE  /\ Strict /\ pg.dirty => SizeOf(r["flush"], p) # 0
               /\ o.kind = "flush" => SizeOf(r["flush"], p) \in {0, size}
    <3>1. Strict /\ pg.dirty => SizeOf(q["flush"], p) # 0
      BY <1>2, <2>3 DEF Paid
    <3>2. SizeOf(q["flush"], p) # 0 => SizeOf(r["flush"], p) \in {SizeOf(q["flush"], p), size}
      BY <1>2, <2>3 DEF OutcomeOK
    <3>3. o.kind = "flush" => SizeOf(r["flush"], p) \in {0, size}
      BY <1>2, <2>3 DEF OutcomeOK
    <3> QED
      BY <2>1, <3>1, <3>2, <3>3
  <2>4. /\ o.step = "done" => o.kind = "flush"
        /\ o.step = "free" => FreeOK(p, r[o.kind])
    BY <1>2 DEF OutcomeOK
  <2>5. j.page = p /\ j.kind = o.kind
    BY <1>2
  <2> HIDE DEF j, pg, r
  <2> QED
    BY <2>1, <2>2, <2>3, <2>4, <2>5 DEF UsedFor
<1>14. ASSUME NEW r \in Pages, r = p PROVE PageOK(r)'
  <2>1. CASE job[c].op \in Exclusive
    <3>1. page'[r].size # 0
      BY <1>14, <2>1 DEF Paid
    <3>2. wlock'[File(r)] = c /\ job'[c].page = r
      BY <1>2, <1>14, <2>1 DEF HasLock
    <3> QED
      BY <3>1, <3>2 DEF PageOK, InUse
  <2>2. CASE job[c].op \notin Exclusive
    <3>1. SizeOf(queue'["flush"], r) = SizeOf(q["flush"], r)
          /\ SizeOf(queue'["evict"], r) = SizeOf(q["evict"], r)
      BY <1>12, <1>14, <2>2 DEF Exclusive
    <3>2. page'[r].size = 0 =>
            ~page'[r].dirty /\ SizeOf(queue'["evict"], r) = 0 /\ SizeOf(queue'["flush"], r) = 0
      BY <1>14, <2>2, <3>1 DEF Paid
    <3>3. File(r) \in deleting \/ Exact(r)'
      BY <1>14, <2>2, <3>1 DEF Paid, Exact
    <3> QED
      BY <3>2, <3>3, KindsLemma DEF PageOK
  <2> QED
    BY <2>1, <2>2
<1>15. \A r \in Pages \cap {p} : PageOK(r)'
  BY <1>14
<1> HIDE DEF p
<1> QED
  BY <1>3, <1>4, <1>6, <1>10, <1>11, <1>13, <1>15, CombineCaller

(* The file of a call that uses its pages is not destructed. *)
LEMMA NotDeleting ==
    ASSUME CacheInv, NEW c \in Callers, job[c].op \notin {"none", "fetch", "delete"}
    PROVE  File(job[c].page) \notin deleting
<1> SUFFICES ASSUME File(job[c].page) \in deleting PROVE FALSE
  OBVIOUS
<1>1. PICK d \in Callers : job[d].op = "delete" /\ File(job[d].page) = File(job[c].page)
  BY DEF CacheInv, DeletesAlone
<1>2. d # c
  BY <1>1
<1>3. job[c].op = "fetch"
  BY <1>1, <1>2 DEF CacheInv, DeletesAlone
<1> QED
  BY <1>3

(* A caller that can take its file's lock finds its page right. *)
LEMMA LockedPage ==
    ASSUME CacheInv, NEW c \in Callers, NEW op \in Ops \ {"delete"}, NEW present \in BOOLEAN,
           Locked(c, op, present)
    PROVE  /\ cachePc[c] = "lock" /\ job[c].op = op /\ job[c].page \in Pages
           /\ page[job[c].page] \in PageState
           /\ present <=> page[job[c].page].size # 0
           /\ op # "fetch" => File(job[c].page) \notin deleting /\ Exact(job[c].page)
           /\ page[job[c].page].size = 0 => ~page[job[c].page].dirty
           /\ op \in Exclusive => Unlocked(File(job[c].page))
           /\ wlock[File(job[c].page)] = None
<1> DEFINE p == job[c].page
<1>1. cachePc[c] = "lock" /\ job[c].op = op /\ present = (page[p].size > 0) /\ op # "none"
      /\ (op \in Exclusive => Unlocked(File(p))) /\ (op \notin Exclusive => wlock[File(p)] = None)
  BY DEF Locked, Ops
<1>2. p \in Pages
  BY <1>1 DEF CacheInv, JobOK
<1>3. page[p] \in PageState
  BY <1>2 DEF CacheInv, TypeOK
<1>4. page[p].size \in Nat
  BY <1>3, CacheSizesAssumption DEF PageState
<1>5. wlock[File(p)] = None
  BY <1>1 DEF Unlocked
<1>6. op # "fetch" => File(p) \notin deleting
  BY <1>1, NotDeleting
<1>7. ~InUse(p)
  BY <1>5, ThreadsAssumption DEF InUse, Threads
<1>8. PageOK(p)
  BY <1>2 DEF CacheInv
<1>9. (op # "fetch" => Exact(p)) /\ (page[p].size = 0 => ~page[p].dirty)
  BY <1>6, <1>7, <1>8 DEF PageOK
<1>10. present <=> page[p].size # 0
  <2>1. page[p].size > 0 <=> page[p].size # 0
    BY <1>4
  <2> QED
    BY <1>1, <2>1
<1> QED
  BY <1>1, <1>2, <1>3, <1>5, <1>6, <1>9, <1>10

InformOutcome(c, size, dirty) ==
    IF size > SizeOf(queue["evict"], job[c].page)
    THEN HandleEvict(c, EnqueuedIn(queue, job[c].page, size, dirty), size)
    ELSE Outcome(EnqueuedIn(queue, job[c].page, size, dirty), "done", "flush")

(* InformPage(): the page is in the queues with the size it has now. *)
LEMMA InformLemma ==
    ASSUME CacheInv, NEW c \in Callers, job[c].op # "resize", job[c].page \in Pages,
           NEW size \in 1 .. MaxPageSize, NEW dirty \in BOOLEAN
    PROVE  /\ OutcomeOK(c, EnqueuedIn(queue, job[c].page, size, dirty), size, InformOutcome(c, size, dirty))
           /\ InformPage(c, size, dirty)
              => Become(c, InformOutcome(c, size, dirty), page[job[c].page].size)
<1> DEFINE q == EnqueuedIn(queue, job[c].page, size, dirty)
<1>1. Typed(queue)
  BY DEF CacheInv, TypeOK
<1>2. Typed(q)
  <2>1. Enqueued(queue, q, job[c].page, size, dirty)
    BY <1>1, EnqueueLemma
  <2> QED
    BY <2>1 DEF Enqueued
<1>3. InformPage(c, size, dirty)
      => Become(c, InformOutcome(c, size, dirty), page[job[c].page].size)
  BY DEF InformPage, InformOutcome, EnqueuePage, EnqueuedIn, SizeIn
<1> HIDE DEF q
<1>4. OutcomeOK(c, q, size, Outcome(q, "done", "flush"))
  BY <1>2, KindsLemma, OutcomeLemma
<1>5. OutcomeOK(c, q, size, HandleEvict(c, q, size))
  BY <1>2, HandleEvictOK
<1>6. InformOutcome(c, size, dirty) \in {HandleEvict(c, q, size), Outcome(q, "done", "flush")}
  BY DEF InformOutcome, q
<1>7. OutcomeOK(c, q, size, InformOutcome(c, size, dirty))
  BY <1>4, <1>5, <1>6
<1> QED
  BY <1>3, <1>7 DEF q

(* GetPageWrite(): the page may be new or grow, and is set dirty last. *)
LEMMA WriteKeeps ==
    ASSUME CacheInv, NEW c \in Callers, Write(c)
    PROVE  CacheInv'
<1> DEFINE p == job[c].page
<1>1. Locked(c, "write", page[p].size > 0) /\ Hold(c)
      /\ work' = work /\ deleting' = deleting /\ mDirtyLimit' = mDirtyLimit
  BY DEF Write
<1>2. PICK size \in 1 .. MaxPageSize :
        /\ size >= page[p].size
        /\ page[p].dirty /\ size > page[p].size => GrowDirty
        /\ page' = [page EXCEPT ![p].size = size]
        /\ InformPage(c, size, TRUE)
  BY DEF Write
<1>3. "write" \in Ops \ {"delete"}
  BY DEF Ops
<1>4. cachePc[c] = "lock" /\ job[c].op = "write" /\ p \in Pages /\ page[p] \in PageState /\ Exact(p)
  <2> DEFINE present == page[p].size > 0
  <2>1. present \in BOOLEAN /\ Locked(c, "write", present)
    BY <1>1
  <2> HIDE DEF present
  <2>2. "write" # "fetch"
    OBVIOUS
  <2> QED
    BY <1>3, <2>1, <2>2, LockedPage
<1>5. HasLock(c)
  BY <1>1, HoldLemma
<1> DEFINE q == EnqueuedIn(queue, p, size, TRUE)
           o == InformOutcome(c, size, TRUE)
<1>6. OutcomeOK(c, q, size, o) /\ Become(c, o, page[p].size)
  BY <1>2, <1>4, InformLemma
<1>7. page[p].size \in Nat /\ size \in Nat /\ size # 0 /\ page[p].size \in 0 .. MaxPageSize
  BY <1>4, CacheSizesAssumption DEF PageState
<1>8. Strict /\ page[p].dirty => o.step = "done"
  <2> SUFFICES ASSUME Strict, page[p].dirty PROVE o.step = "done"
    OBVIOUS
  <2>1. size = page[p].size
    BY <1>2, <1>7 DEF Strict
  <2>2. size = SizeOf(queue["evict"], p)
    BY <1>4, <2>1 DEF Exact
  <2>3. ~(size > SizeOf(queue["evict"], p))
    BY <1>7, <2>2
  <2>4. o = Outcome(q, "done", "flush")
    BY <2>3 DEF InformOutcome
  <2> HIDE DEF o, q
  <2> QED
    BY <2>4 DEF Outcome
<1>9. Typed(q) /\ EndsKept(queue, q, {p}) /\ SameBut(queue, q, {p})
      /\ SizeOf(q["evict"], p) = size /\ SizeOf(q["flush"], p) = size
  <2>1. Typed(queue)
    BY DEF CacheInv, TypeOK
  <2>2. Enqueued(queue, q, p, size, TRUE)
    BY <1>4, <2>1, EnqueueLemma
  <2> HIDE DEF q
  <2> QED
    BY <2>2 DEF Enqueued
<1>10. /\ page' \in [Pages -> PageState] /\ \A r \in Pages : r # p => page'[r] = page[r]
       /\ page'[p].dirty = page[p].dirty /\ page'[p].size = size
  <2>1. page \in [Pages -> PageState] /\ size \in 0 .. MaxPageSize
    BY <1>7 DEF CacheInv, TypeOK
  <2> HIDE DEF p
  <2> QED
    BY <1>2, <1>4, <2>1 DEF PageState
<1> HIDE DEF q, o
<1>11. Paid(c, q, size, o)
  <2>1. "done" \notin Waits
    BY DEF Waits
  <2>2. job[c].op \in Exclusive /\ job[c].op # "resize"
    BY <1>4 DEF Exclusive
  <2> QED
    BY <1>4, <1>7, <1>8, <1>9, <1>10, <2>1, <2>2 DEF Paid
<1> QED
  BY <1>1, <1>4, <1>5, <1>6, <1>7, <1>11, Proceeds

(* GetPageRead() of a page that nobody wrote, before one that somebody did *)
LEMMA ReadZeroKeeps ==
    ASSUME CacheInv, NEW c \in Callers, ReadZero(c)
    PROVE  CacheInv'
<1> DEFINE p == job[c].page
           size == MaxPageSize
<1>1. Locked(c, "zero", FALSE) /\ Hold(c) /\ page' = [page EXCEPT ![p].size = size]
      /\ InformPage(c, size, FALSE)
      /\ work' = work /\ deleting' = deleting /\ mDirtyLimit' = mDirtyLimit
  BY DEF ReadZero
<1>3. "zero" \in Ops \ {"delete"} /\ size \in 1 .. MaxPageSize /\ size # 0
  BY CacheSizesAssumption DEF Ops
<1>4. cachePc[c] = "lock" /\ job[c].op = "zero" /\ p \in Pages /\ page[p] \in PageState
      /\ page[p].size = 0 /\ ~page[p].dirty
  BY <1>1, <1>3, LockedPage
<1>5. HasLock(c)
  BY <1>1, HoldLemma
<1> DEFINE q == EnqueuedIn(queue, p, size, FALSE)
           o == InformOutcome(c, size, FALSE)
<1>6. OutcomeOK(c, q, size, o) /\ Become(c, o, page[p].size)
  BY <1>1, <1>3, <1>4, InformLemma
<1>7. 0 \in 0 .. MaxPageSize
  BY CacheSizesAssumption
<1>9. Typed(q) /\ EndsKept(queue, q, {p}) /\ SameBut(queue, q, {p})
      /\ SizeOf(q["evict"], p) = size /\ SizeOf(q["flush"], p) = 0
  <2>1. Typed(queue)
    BY DEF CacheInv, TypeOK
  <2>2. Enqueued(queue, q, p, size, FALSE)
    BY <1>3, <1>4, <2>1, EnqueueLemma
  <2> HIDE DEF q
  <2> QED
    BY <2>2 DEF Enqueued
<1>10. /\ page' \in [Pages -> PageState] /\ \A r \in Pages : r # p => page'[r] = page[r]
       /\ page'[p].dirty = page[p].dirty /\ page'[p].size = size
  <2>1. page \in [Pages -> PageState] /\ size \in 0 .. MaxPageSize
    BY <1>3, CacheSizesAssumption DEF CacheInv, TypeOK
  <2> HIDE DEF p
  <2> QED
    BY <1>1, <1>4, <2>1 DEF PageState
<1> HIDE DEF q, o, size
<1>11. Paid(c, q, size, o)
  <2>2. job[c].op \notin Exclusive /\ job[c].op # "resize" /\ job[c].op # "write"
    BY <1>4 DEF Exclusive
  <2> QED
    BY <1>3, <1>4, <1>9, <1>10, <2>2 DEF Paid
<1> QED
  BY <1>1, <1>4, <1>5, <1>6, <1>7, <1>11, Proceeds

(* GetPageRead() of a page in memory *)
LEMMA ReadKeeps ==
    ASSUME CacheInv, NEW c \in Callers, Read(c)
    PROVE  CacheInv'
<1> DEFINE p == job[c].page
           size == page[p].size
           dirty == page[p].dirty
<1>1. Locked(c, "read", TRUE) /\ Hold(c) /\ page' = page /\ InformPage(c, size, dirty)
      /\ work' = work /\ deleting' = deleting /\ mDirtyLimit' = mDirtyLimit
  BY DEF Read
<1>3. "read" \in Ops \ {"delete"}
  BY DEF Ops
<1>4. cachePc[c] = "lock" /\ job[c].op = "read" /\ p \in Pages /\ page[p] \in PageState /\ size # 0
  BY <1>1, <1>3, LockedPage
<1>5. HasLock(c)
  BY <1>1, HoldLemma
<1>7. size \in 0 .. MaxPageSize /\ size \in 1 .. MaxPageSize /\ dirty \in BOOLEAN
  BY <1>4, CacheSizesAssumption DEF PageState
<1> DEFINE q == EnqueuedIn(queue, p, size, dirty)
           o == InformOutcome(c, size, dirty)
<1>6. OutcomeOK(c, q, size, o) /\ Become(c, o, page[p].size)
  BY <1>1, <1>4, <1>7, InformLemma
<1>9. Typed(q) /\ EndsKept(queue, q, {p}) /\ SameBut(queue, q, {p})
      /\ SizeOf(q["evict"], p) = size /\ SizeOf(q["flush"], p) = IF dirty THEN size ELSE 0
  <2>1. Typed(queue)
    BY DEF CacheInv, TypeOK
  <2>2. Enqueued(queue, q, p, size, dirty)
    BY <1>4, <1>7, <2>1, EnqueueLemma
  <2> HIDE DEF q
  <2> QED
    BY <2>2 DEF Enqueued
<1>10. page' \in [Pages -> PageState]
  BY <1>1 DEF CacheInv, TypeOK
<1> HIDE DEF q, o
<1>11. Paid(c, q, size, o)
  <2>2. job[c].op \notin Exclusive /\ job[c].op # "resize" /\ job[c].op # "write"
    BY <1>4 DEF Exclusive
  <2> QED
    BY <1>1, <1>4, <1>9, <1>10, <2>2 DEF Paid
<1> QED
  BY <1>1, <1>4, <1>5, <1>6, <1>7, <1>11, Proceeds

(* ResizePage(): between the two queues' new sizes the caller may wait. *)
LEMMA ResizeKeeps ==
    ASSUME CacheInv, NEW c \in Callers, ResizePage(c)
    PROVE  CacheInv'
<1> DEFINE p == job[c].page
<1>1. Locked(c, "resize", TRUE) /\ Hold(c)
      /\ work' = work /\ deleting' = deleting /\ mDirtyLimit' = mDirtyLimit
  BY DEF ResizePage
<1>2. PICK size \in 1 .. MaxPageSize :
        LET q == [queue EXCEPT !["evict"] = ResizeIn(@, p, size)] IN
        /\ page' = [page EXCEPT ![p].size = size]
        /\ Become(c, IF SizeIn("evict", p) \in 1 .. size - 1 THEN HandleEvict(c, q, size)
                     ELSE AfterEvict(c, q, size), page[p].size)
  BY DEF ResizePage
<1>3. "resize" \in Ops \ {"delete"}
  BY DEF Ops
<1>4. cachePc[c] = "lock" /\ job[c].op = "resize" /\ p \in Pages /\ page[p] \in PageState /\ Exact(p)
      /\ page[p].size # 0
  BY <1>1, <1>3, LockedPage
<1>5. HasLock(c)
  BY <1>1, HoldLemma
<1> DEFINE q == ResizedIn(queue, "evict", p, size)
           o == IF SizeIn("evict", p) \in 1 .. size - 1 THEN HandleEvict(c, q, size)
                ELSE AfterEvict(c, q, size)
<1>6. page' = [page EXCEPT ![p].size = size] /\ Become(c, o, page[p].size)
  BY <1>2 DEF ResizedIn
<1>7. page[p].size \in Nat /\ size \in Nat /\ size # 0 /\ page[p].size \in 0 .. MaxPageSize
  BY <1>4, CacheSizesAssumption DEF PageState
<1>8. OneResized(queue, q, "evict", p, size)
  <2>1. Typed(queue)
    BY DEF CacheInv, TypeOK
  <2>2. "evict" \in Kinds
    BY KindsLemma
  <2> QED
    BY <2>1, <2>2, ResizeOneLemma
<1>9. page' \in [Pages -> PageState] /\ (\A r \in Pages : r # p => page'[r] = page[r])
      /\ page'[p].dirty = page[p].dirty /\ page'[p].size = size
  <2>1. page \in [Pages -> PageState] /\ size \in 0 .. MaxPageSize
    BY <1>7 DEF CacheInv, TypeOK
  <2> HIDE DEF p
  <2> QED
    BY <1>4, <1>6, <2>1 DEF PageState
<1> HIDE DEF q
<1>10. Typed(q) /\ EndsKept(queue, q, {}) /\ SameBut(queue, q, {p})
       /\ SizeOf(q["evict"], p) = (IF SizeOf(queue["evict"], p) # 0 THEN size ELSE 0)
  BY <1>8 DEF OneResized
<1>11. q["flush"] = queue["flush"]
  BY <1>8, KindsLemma DEF OneResized
<1>12. SizeOf(queue["evict"], p) = page[p].size
       /\ (Strict /\ page[p].dirty => SizeOf(queue["flush"], p) = page[p].size)
  BY <1>4 DEF Exact
<1>13. OutcomeOK(c, q, size, o)
  <2>1. OutcomeOK(c, q, size, HandleEvict(c, q, size))
    BY <1>10, HandleEvictOK
  <2>2. OutcomeOK(c, q, size, AfterEvict(c, q, size))
    BY <1>10, AfterEvictOK
  <2> QED
    BY <2>1, <2>2
<1>14. EndsKept(queue, q, {p})
  BY <1>10, EndsKeptLemma
<1> HIDE DEF o
<1>15. Paid(c, q, size, o)
  <2>2. job[c].op \in Exclusive /\ job[c].op # "write"
    BY <1>4 DEF Exclusive
  <2> QED
    BY <1>4, <1>7, <1>9, <1>10, <1>11, <1>12, <1>14, <2>2 DEF Paid
<1> QED
  BY <1>1, <1>4, <1>5, <1>6, <1>7, <1>13, <1>15, Proceeds

(* A caller that tests again for memory, after it freed some or was woken, *)
LEMMA ResumeKeeps ==
    ASSUME CacheInv, NEW c \in Callers, cachePc[c] \in {"retest", "awake"}, NEW o,
           OutcomeOK(c, queue, page[job[c].page].size, o), Resume(c, o)
    PROVE  CacheInv'
<1> DEFINE p == job[c].page
           size == page[p].size
<1>1. Become(c, o, job[c].old) /\ page' = page /\ wlock' = wlock /\ rlock' = rlock
      /\ work' = work /\ deleting' = deleting /\ mDirtyLimit' = mDirtyLimit
  BY DEF Resume, pageVars
<1>2. cachePc[c] \in MidSteps /\ cachePc[c] \in Waits
  BY DEF MidSteps, Waits
<1>3. JobOK(c) /\ UsedOK(c) /\ job[c] \in Jobs /\ Typed(queue) /\ page \in [Pages -> PageState]
  BY DEF CacheInv, TypeOK
<1>4. job[c].op \in {"write", "resize", "zero", "read"} /\ (job[c].op = "zero" => job[c].old = 0)
      /\ (job[c].op \notin Exclusive => c \in rlock[File(p)])
  BY <1>2, <1>3 DEF JobOK
<1>5. p \in Pages /\ File(p) \in Files
  BY <1>3, <1>4 DEF JobOK, Files
<1>6. HasLock(c)
  BY <1>1, <1>2, HeldLemma
<1>7. job[c].old \in 0 .. MaxPageSize
  BY <1>3 DEF Jobs
<1>8. EndsKept(queue, queue, {p}) /\ SameBut(queue, queue, {p})
  BY EndsKeptLemma DEF SameBut, SameIn
<1>9. UsedFor(cachePc[c], job[c], page[p], queue)
  BY <1>3 DEF UsedOK
<1>10. job[c].op \notin Exclusive => File(p) \in deleting \/ Exact(p)
  <2> SUFFICES ASSUME job[c].op \notin Exclusive PROVE File(p) \in deleting \/ Exact(p)
    OBVIOUS
  <2>1. wlock[File(p)] = None
    BY <1>4, <1>5 DEF CacheInv, ReadersAlone
  <2>2. ~InUse(p)
    BY <2>1, ThreadsAssumption DEF InUse, Threads
  <2> QED
    BY <1>5, <2>2 DEF CacheInv, PageOK
<1>11. page[p].size = 0 => ~page[p].dirty /\ SizeOf(queue["evict"], p) = 0 /\ SizeOf(queue["flush"], p) = 0
  BY <1>5, KindsLemma DEF CacheInv, PageOK
<1>12. Paid(c, queue, size, o)
  <2>1. job[c].op \in Exclusive =>
          size # 0 /\ SizeOf(queue["evict"], p) = size
    BY <1>2, <1>9 DEF UsedFor
  <2>2. Strict /\ job[c].op = "write" => SizeOf(queue["flush"], p) = size /\ ~page[p].dirty
    BY <1>2, <1>9 DEF UsedFor, Exclusive
  <2>3. Strict /\ job[c].op = "resize" /\ page[p].dirty => SizeOf(queue["flush"], p) # 0
    BY <1>2, <1>9 DEF UsedFor, Exclusive
  <2>4. job[c].op \notin Exclusive =>
          File(p) \in deleting \/ (SizeOf(queue["evict"], p) = size
              /\ (Strict => SizeOf(queue["flush"], p) \in
                                {size} \cup (IF page[p].dirty THEN {} ELSE {0})))
    BY <1>10 DEF Exact
  <2> QED
    BY <1>1, <1>3, <1>8, <1>11, <2>1, <2>2, <2>3, <2>4 DEF Paid
<1> QED
  BY <1>1, <1>2, <1>4, <1>6, <1>7, <1>12, Proceeds

(* keeps the invariant. *)
LEMMA WaitKeeps ==
    ASSUME CacheInv, NEW c \in Callers, Retest(c) \/ Wake(c)
    PROVE  CacheInv'
<1> DEFINE p == job[c].page
           k == job[c].kind
           size == page[p].size
<1>1. cachePc[c] \in {"retest", "awake"}
  BY DEF Retest, Wake
<1>2. cachePc[c] \in MidSteps
  BY <1>1 DEF MidSteps
<1>3. JobOK(c) /\ UsedOK(c) /\ k \in Kinds /\ Typed(queue) /\ page \in [Pages -> PageState]
  BY DEF CacheInv, TypeOK, Jobs
<1>4. p \in Pages
  BY <1>2, <1>3 DEF JobOK, MidSteps
<1>5. job[c].op = "resize" =>
        size # 0 /\ (k = "flush" => SizeOf(queue["flush"], p) \in {0, size})
  <2>1. UsedFor(cachePc[c], job[c], page[p], queue)
    BY <1>3 DEF UsedOK
  <2> QED
    BY <1>2, <2>1 DEF UsedFor, Exclusive
<1>6. job[c].op = "resize" => size \in 1 .. MaxPageSize
  <2>1. size \in 0 .. MaxPageSize
    BY <1>3, <1>4 DEF PageState
  <2> QED
    BY <1>5, <2>1, CacheSizesAssumption
<1>7. OutcomeOK(c, queue, size, Enough(c))
  <2>1. CASE k = "evict"
    <3>1. OutcomeOK(c, queue, size, AfterEvict(c, queue, size))
      BY <1>3, <1>6, AfterEvictOK
    <3> QED
      BY <2>1, <3>1 DEF Enough
  <2>2. CASE k = "flush"
    <3>1. OutcomeOK(c, queue, size, Outcome(queue, "done", "flush"))
      BY <1>3, <1>5, <2>2, OutcomeLemma
    <3> QED
      BY <2>2, <3>1 DEF Enough
  <2> QED
    BY <1>3, <2>1, <2>2, KindsLemma
<1>8. CASE Retest(c)
  <2>1. OutcomeOK(c, queue, size, Handle(c, k, queue, Enough(c)))
    BY <1>3, <1>5, <1>7, HandleOK
  <2> QED
    BY <1>1, <1>8, <2>1, ResumeKeeps DEF Retest
<1>9. CASE Wake(c)
  <2>1. OutcomeOK(c, queue, size, Test(c, k, queue, failure[k], Enough(c)))
    BY <1>3, <1>5, <1>7, TestOK
  <2> QED
    BY <1>1, <1>9, <2>1, ResumeKeeps DEF Wake
<1> QED
  BY <1>8, <1>9

-----------------------------------------------------------------------------
(* A page that is evicted or flushed, with the dirty pages that follow it *)
FilePages(p) == {r \in Pages : File(r) = File(p)}
Flushed(r) ==
    /\ page'[r].size = page[r].size /\ page'[r].dirty = FALSE
    /\ SizeOf(queue'["evict"], r) = SizeOf(queue["evict"], r) /\ SizeOf(queue'["flush"], r) = 0
Gone(r) == page'[r] = Absent /\ \A k \in Kinds : SizeOf(queue'[k], r) = 0
CleanEffect(p) ==
    /\ page' \in [Pages -> PageState] /\ Typed(queue')
    /\ EndsKept(queue, queue', FilePages(p))
    /\ \A r \in Pages : r \notin FilePages(p) => Same(r)
    /\ \A r \in Pages : Same(r) \/ Flushed(r) \/ (r = p /\ Gone(r))
    /\ \A r \in Pages : r # p /\ ~page[r].dirty => Same(r)

(* A page that is not in memory *)
LEMMA AbsentLemma == Absent \in PageState /\ Absent.size = 0 /\ Absent.dirty = FALSE
<1>1. 0 \in 0 .. MaxPageSize
  BY CacheSizesAssumption
<1> QED
  BY <1>1 DEF Absent, PageState

(* GetWriteList(): a run is of one file, dirty, and begins with the page. *)
LEMMA RunLemma ==
    ASSUME NEW p \in Pages
    PROVE  /\ Run(p) \subseteq FilePages(p)
           /\ \A r \in Run(p) : page[r].dirty
           /\ page[p].dirty => p \in Run(p)
<1>1. ASSUME NEW r \in Run(p) PROVE r \in FilePages(p) /\ page[r].dirty
  <2>1. r \in Pages /\ File(r) = File(p) /\ r[2] >= p[2]
        /\ \A i \in p[2] .. r[2] : page[<<File(p), i>>].dirty
    BY DEF Run
  <2>2. r[2] \in p[2] .. r[2]
    BY <2>1, PagesAssumption
  <2>3. r = <<File(p), r[2]>>
    BY <2>1, PagesAssumption DEF File
  <2>4. page[<<File(p), r[2]>>].dirty
    BY <2>1, <2>2
  <2> QED
    BY <2>1, <2>3, <2>4 DEF FilePages
<1>2. ASSUME page[p].dirty PROVE p \in Run(p)
  <2>1. p[2] \in Nat /\ p = <<File(p), p[2]>>
    BY PagesAssumption DEF File
  <2>2. ASSUME NEW i \in p[2] .. p[2] PROVE page[<<File(p), i>>].dirty
    <3>1. i = p[2]
      BY <2>1
    <3> QED
      BY <1>2, <2>1, <3>1
  <2>3. p[2] >= p[2]
    BY <2>1
  <2> QED
    BY <2>2, <2>3 DEF Run
<1> QED
  BY <1>1, <1>2

(* Pages that have been sent are not dirty, and have the sizes they had. *)
LEMMA CleanedLemma ==
    ASSUME CacheInv, NEW ps
    PROVE  /\ Cleaned(ps) \in [Pages -> PageState]
           /\ \A r \in Pages : r \notin ps => Cleaned(ps)[r] = page[r]
           /\ \A r \in Pages : r \in ps =>
                  Cleaned(ps)[r].size = page[r].size /\ Cleaned(ps)[r].dirty = FALSE
<1>1. page \in [Pages -> PageState]
  BY DEF CacheInv, TypeOK
<1>2. ASSUME NEW s \in PageState
      PROVE  LET r == [s EXCEPT !.dirty = FALSE]
             IN  r \in PageState /\ r.size = s.size /\ r.dirty = FALSE
  BY DEF PageState
<1>3. ASSUME NEW r \in Pages
      PROVE  /\ Cleaned(ps)[r] \in PageState
             /\ r \notin ps => Cleaned(ps)[r] = page[r]
             /\ r \in ps => Cleaned(ps)[r].size = page[r].size /\ Cleaned(ps)[r].dirty = FALSE
  <2> DEFINE s == page[r]
  <2>1. s \in PageState
    BY <1>1
  <2>2. Cleaned(ps)[r] = IF r \in ps THEN [s EXCEPT !.dirty = FALSE] ELSE s
    BY DEF Cleaned
  <2> HIDE DEF s
  <2>3. /\ Cleaned(ps)[r] \in PageState
        /\ r \notin ps => Cleaned(ps)[r] = s
        /\ r \in ps => Cleaned(ps)[r].size = s.size /\ Cleaned(ps)[r].dirty = FALSE
    BY <1>2, <2>1, <2>2
  <2> QED
    BY <2>3 DEF s
<1>4. Cleaned(ps) = [r \in Pages |-> Cleaned(ps)[r]]
  BY DEF Cleaned
<1>5. Cleaned(ps) \in [Pages -> PageState]
  BY <1>3, <1>4
<1> QED
  BY <1>3, <1>5

(* Dirty pages ps of a file have been sent, and are dirty no more. *)
SentEffect(ps) ==
    /\ page' \in [Pages -> PageState] /\ Typed(queue') /\ EndsKept(queue, queue', ps)
    /\ \A r \in Pages : r \notin ps => Same(r)
    /\ \A r \in Pages : r \in ps => Flushed(r)

(* They leave mDirtyQueue as well. *)
LEMMA SentLemma ==
    ASSUME CacheInv, NEW ps, page' = Cleaned(ps), queue' = RemoveDirty(ps)
    PROVE  SentEffect(ps)
<1>1. Typed(queue)
  BY DEF CacheInv, TypeOK
<1>2. queue' = RemovedDirty(queue, ps)
  BY DEF RemoveDirty, RemovedDirty
<1>3. /\ Typed(queue') /\ EndsKept(queue, queue', ps) /\ SameBut(queue, queue', ps)
      /\ queue'["evict"] = queue["evict"]
      /\ \A x \in ps : SizeOf(queue'["flush"], x) = 0
  BY <1>1, <1>2, RemoveDirtyLemma
<1>4. /\ page' \in [Pages -> PageState]
      /\ \A r \in Pages : r \notin ps => page'[r] = page[r]
      /\ \A r \in Pages : r \in ps => page'[r].size = page[r].size /\ page'[r].dirty = FALSE
  BY CleanedLemma
<1>5. \A r \in Pages : r \notin ps => Same(r)
  BY <1>3, <1>4 DEF Same, SameBut
<1>6. \A r \in Pages : r \in ps => Flushed(r)
  BY <1>3, <1>4 DEF Flushed
<1> QED
  BY <1>3, <1>4, <1>5, <1>6 DEF SentEffect

(* FlushPage(), for a page that is dirty, that is not, or that is gone already *)
LEMMA FlushEffect ==
    ASSUME CacheInv, NEW p \in Pages, PageFlushed(p)
    PROVE  CleanEffect(p) /\ mDirtyLimit' \in Nat
<1> DEFINE fs == FilePages(p)
<1>1. mDirtyLimit' \in Nat
  BY CacheSizesAssumption DEF PageFlushed
<1>2. page[p].size = 0 => ~page[p].dirty
  BY DEF CacheInv, PageOK
<1>3. Typed(queue) /\ page \in [Pages -> PageState]
  BY DEF CacheInv, TypeOK
<1>4. page[p] \in PageState /\ p \in fs
  BY <1>3 DEF FilePages
<1>5. CASE page[p].dirty
  <2> DEFINE ps == Run(p)
  <2>1. page' = Cleaned(ps) /\ queue' = RemoveDirty(ps)
    BY <1>2, <1>5 DEF PageFlushed
  <2>2. ps \subseteq fs /\ (\A r \in ps : page[r].dirty)
    BY RunLemma
  <2> HIDE DEF ps, fs
  <2>3. SentEffect(ps)
    BY <2>1, SentLemma
  <2>4. EndsKept(queue, queue', fs)
    BY <2>2, <2>3, EndsKeptLemma DEF SentEffect
  <2> QED
    BY <1>1, <2>2, <2>3, <2>4 DEF SentEffect, CleanEffect, fs
<1>6. CASE ~page[p].dirty
  <2>1. page' = Cleaned({}) /\ queue' = IF page[p].size = 0 THEN queue ELSE RemoveDirty({p})
    BY <1>6 DEF PageFlushed
  <2>2. page' \in [Pages -> PageState] /\ \A r \in Pages : page'[r] = page[r]
    BY <2>1, CleanedLemma
  <2>3. CASE page[p].size = 0
    <3>1. queue' = queue
      BY <2>1, <2>3
    <3>2. EndsKept(queue, queue', fs)
      BY <3>1, EndsKeptLemma
    <3>3. \A r \in Pages : Same(r)
      BY <2>2, <3>1 DEF Same, SameIn
    <3> QED
      BY <1>1, <1>3, <2>2, <3>1, <3>2, <3>3 DEF CleanEffect
  <2>4. CASE page[p].size # 0
    <3>1. queue' = RemovedDirty(queue, {p})
      BY <2>1, <2>4 DEF RemoveDirty, RemovedDirty
    <3>2. /\ Typed(queue') /\ EndsKept(queue, queue', {p}) /\ SameBut(queue, queue', {p})
          /\ queue'["evict"] = queue["evict"] /\ SizeOf(queue'["flush"], p) = 0
      BY <1>3, <3>1, RemoveDirtyLemma
    <3>3. EndsKept(queue, queue', fs)
      BY <1>4, <3>2, EndsKeptLemma
    <3>4. \A r \in Pages : r # p => Same(r)
      BY <2>2, <3>2 DEF Same, SameBut
    <3>5. Flushed(p)
      BY <1>4, <1>6, <2>2, <3>2 DEF Flushed, PageState
    <3> QED
      BY <1>1, <1>4, <2>2, <3>2, <3>3, <3>4, <3>5 DEF CleanEffect
  <2> QED
    BY <2>3, <2>4
<1> QED
  BY <1>5, <1>6

(* One page leaves memory. *)
LEMMA AbsentAt ==
    ASSUME NEW b \in [Pages -> PageState], NEW p \in Pages
    PROVE  /\ [b EXCEPT ![p] = Absent] \in [Pages -> PageState]
           /\ [b EXCEPT ![p] = Absent][p] = Absent
           /\ \A r \in Pages : r # p => [b EXCEPT ![p] = Absent][r] = b[r]
<1>1. Absent \in PageState
  BY AbsentLemma
<1> HIDE DEF Absent
<1> QED
  BY <1>1

(* EvictPage(): a dirty page is flushed first. *)
LEMMA EvictEffect ==
    ASSUME CacheInv, NEW p \in Pages, PageEvicted(p)
    PROVE  CleanEffect(p) /\ mDirtyLimit' \in Nat
<1> DEFINE fs == FilePages(p)
           ps == IF page[p].dirty THEN Run(p) ELSE {}
           b == Cleaned(ps)
           q == IF page[p].dirty THEN RemoveDirty(Run(p)) ELSE queue
<1>1. mDirtyLimit' \in Nat
  BY DEF PageEvicted, CacheInv, TypeOK
<1>2. Typed(queue) /\ page \in [Pages -> PageState]
      /\ (page[p].size = 0 => ~page[p].dirty /\ \A k \in Kinds : SizeOf(queue[k], p) = 0)
  BY DEF CacheInv, TypeOK, PageOK
<1>3. /\ page' = [b EXCEPT ![p] = Absent]
      /\ queue' = IF page[p].size = 0 THEN q ELSE RemovedIn(q, {p})
  BY DEF PageEvicted, RemovedIn
<1>4. ps \subseteq fs /\ p \in fs /\ \A r \in ps : page[r].dirty
  BY RunLemma DEF FilePages
<1>5. /\ b \in [Pages -> PageState] /\ Typed(q) /\ EndsKept(queue, q, fs)
      /\ \A r \in Pages : r \notin ps => b[r] = page[r] /\ SameIn(queue, q, r)
      /\ \A r \in Pages : r \in ps =>
           /\ b[r].size = page[r].size /\ b[r].dirty = FALSE
           /\ SizeOf(q["evict"], r) = SizeOf(queue["evict"], r) /\ SizeOf(q["flush"], r) = 0
  <2>1. b \in [Pages -> PageState] /\ (\A r \in Pages : r \notin ps => b[r] = page[r])
        /\ \A r \in Pages : r \in ps => b[r].size = page[r].size /\ b[r].dirty = FALSE
    BY CleanedLemma
  <2>2. CASE page[p].dirty
    <3>1. q = RemovedDirty(queue, ps)
      BY <2>2 DEF RemoveDirty, RemovedDirty
    <3> HIDE DEF ps, q, b, fs
    <3>2. /\ Typed(q) /\ EndsKept(queue, q, ps) /\ SameBut(queue, q, ps)
          /\ q["evict"] = queue["evict"] /\ \A x \in ps : SizeOf(q["flush"], x) = 0
      BY <1>2, <3>1, RemoveDirtyLemma
    <3>3. EndsKept(queue, q, fs)
      BY <1>4, <3>2, EndsKeptLemma
    <3> QED
      BY <2>1, <3>2, <3>3 DEF SameBut
  <2>3. CASE ~page[p].dirty
    <3>1. q = queue /\ ps = {}
      BY <2>3
    <3> HIDE DEF ps, q, b, fs
    <3>2. EndsKept(queue, q, fs) /\ \A r : SameIn(queue, q, r)
      BY <3>1, EndsKeptLemma DEF SameIn
    <3> QED
      BY <1>2, <2>1, <3>1, <3>2
  <2> QED
    BY <2>2, <2>3
<1>6. page[p].size = 0 => q = queue /\ ps = {}
  BY <1>2
<1> HIDE DEF ps, q, b, fs
<1>7. page' \in [Pages -> PageState] /\ page'[p] = Absent /\ \A r \in Pages : r # p => page'[r] = b[r]
  BY <1>3, <1>5, AbsentAt
<1>8. /\ Typed(queue') /\ EndsKept(q, queue', {p}) /\ SameBut(q, queue', {p})
      /\ \A k \in Kinds : SizeOf(queue'[k], p) = 0
  <2>1. CASE page[p].size = 0
    <3>1. queue' = q /\ q = queue
      BY <1>3, <1>6, <2>1
    <3>2. EndsKept(q, queue', {p}) /\ SameBut(q, queue', {p})
      BY <3>1, EndsKeptLemma DEF SameBut, SameIn
    <3> QED
      BY <1>2, <2>1, <3>1, <3>2
  <2>2. CASE page[p].size # 0
    <3>1. queue' = RemovedIn(q, {p})
      BY <1>3, <2>2
    <3> QED
      BY <1>5, <3>1, RemoveLemma
  <2> QED
    BY <2>1, <2>2
<1>9. EndsKept(queue, queue', fs)
  <2>1. EndsKept(q, queue', fs)
    BY <1>4, <1>8, EndsKeptLemma
  <2> QED
    BY <1>5, <2>1, EndsKeptLemma
<1>10. Gone(p)
  BY <1>7, <1>8 DEF Gone
<1>11. \A r \in Pages : r # p /\ r \notin ps => Same(r)
  BY <1>5, <1>7, <1>8 DEF Same, SameBut, SameIn
<1>12. \A r \in Pages : r # p /\ r \in ps => Flushed(r)
  <2> SUFFICES ASSUME NEW r \in Pages, r # p, r \in ps PROVE Flushed(r)
    OBVIOUS
  <2>1. SizeOf(queue'["evict"], r) = SizeOf(q["evict"], r) /\ SizeOf(queue'["flush"], r) = SizeOf(q["flush"], r)
    BY <1>8, KindsLemma DEF SameBut, SameIn
  <2> QED
    BY <1>5, <1>7, <2>1 DEF Flushed
<1> QED
  BY <1>1, <1>4, <1>7, <1>8, <1>9, <1>10, <1>11, <1>12 DEF CleanEffect, fs

(* So what a cleanup thread, or a writer, does to a page is of one form, *)
LEMMA CleanLemma ==
    ASSUME CacheInv, NEW k \in Kinds, NEW p \in Pages, Clean(k, p)
    PROVE  CleanEffect(p) /\ mDirtyLimit' \in Nat
BY EvictEffect, FlushEffect, KindsLemma DEF Clean

(* and all pages are right after it. *)
LEMMA CleanedPagesOK ==
    ASSUME CacheInv, NEW p \in Pages, CleanEffect(p),
           wlock' = wlock, job' = job, deleting' = deleting
    PROVE  \A r \in Pages : PageOK(r)'
<1> SUFFICES ASSUME NEW r \in Pages PROVE PageOK(r)'
  OBVIOUS
<1>1. PageOK(r) /\ (InUse(r) => InUse(r)')
  BY DEF CacheInv, InUse
<1>2. Same(r) \/ Flushed(r) \/ Gone(r)
  BY DEF CleanEffect
<1>3. CASE Same(r)
  <2>1. page'[r] = page[r] /\ SizeOf(queue'["evict"], r) = SizeOf(queue["evict"], r)
        /\ SizeOf(queue'["flush"], r) = SizeOf(queue["flush"], r)
    BY <1>3, KindsLemma DEF Same, SameIn
  <2>2. Exact(r) => Exact(r)'
    BY <2>1 DEF Exact
  <2> QED
    BY <1>1, <1>3, <2>1, <2>2 DEF PageOK, Same, SameIn
<1>4. CASE Flushed(r)
  <2>1. Exact(r) => Exact(r)'
    BY <1>4 DEF Exact, Flushed
  <2>2. page'[r].size = 0 => ~page'[r].dirty /\ \A k \in Kinds : SizeOf(queue'[k], r) = 0
    BY <1>1, <1>4, KindsLemma DEF Flushed, PageOK
  <2> QED
    BY <1>1, <2>1, <2>2 DEF PageOK
<1>5. CASE Gone(r)
  <2>1. page'[r].size = 0 /\ page'[r].dirty = FALSE /\ \A k \in Kinds : SizeOf(queue'[k], r) = 0
    BY <1>5, AbsentLemma DEF Gone
  <2>2. Exact(r)'
    BY <2>1, KindsLemma DEF Exact
  <2> QED
    BY <2>1, <2>2 DEF PageOK
<1> QED
  BY <1>2, <1>3, <1>4, <1>5

(* A writer cleans another page of its file, and its own may be in the run that is sent. *)
LEMMA FreeKeeps ==
    ASSUME CacheInv, NEW c \in Callers, Free(c)
    PROVE  CacheInv'
<1> DEFINE j == job[c]
           u == j.page
           q == queue[j.kind]
           p == EndPage(q)
           ps == FilePages(p)
<1>1. /\ cachePc[c] = "free" /\ wlock' = wlock /\ rlock' = rlock /\ job' = job /\ work' = work
      /\ deleting' = deleting
      /\ \/ Clean(j.kind, p) /\ cachePc' = [cachePc EXCEPT ![c] = "retest"]
         \/ cachePc' = [cachePc EXCEPT ![c] = "failed"] /\ page' = page /\ queue' = queue
            /\ mDirtyLimit' = mDirtyLimit
  BY DEF Free, EndPage
<1>2. cachePc[c] \in MidSteps /\ cachePc[c] \in Waits
  BY <1>1 DEF MidSteps, Waits
<1>3. TypeOK /\ JobOK(c) /\ UsedOK(c) /\ j \in Jobs /\ j.kind \in Kinds /\ c \in Threads
  BY DEF CacheInv, TypeOK, Jobs, Threads
<1>4. j.op \in Exclusive /\ j.op \in {"write", "resize"} /\ u \in Pages /\ wlock[File(u)] = c
  BY <1>1, <1>2, <1>3 DEF JobOK, Exclusive
<1>5. UsedFor("free", j, page[u], queue)
  BY <1>1, <1>3 DEF UsedOK
<1>6. q # <<>> /\ p # u /\ File(p) = File(u)
  BY <1>2, <1>4, <1>5 DEF UsedFor, FreeOK, MidSteps
<1>7. p \in Pages
  <2>1. q \in Queue
    BY <1>3 DEF TypeOK, Typed
  <2>2. Len(q) \in 1 .. Len(q)
    BY <1>6, <2>1 DEF Queue
  <2> QED
    BY <2>1, <2>2, EntryFields DEF EndPage
<1>8. cachePc' = [cachePc EXCEPT ![c] = cachePc'[c]] /\ cachePc'[c] \in {"retest", "failed"}
  BY <1>1, <1>3 DEF TypeOK
<1>9. /\ cachePc' \in [Threads -> CallerSteps \cup CleanerSteps] /\ Woken(c) /\ OthersJobs(c)
      /\ OthersWork(c) /\ OthersLocks(c) /\ NotOthers(c, ps) /\ StillUsed(c, ps) /\ StillDeleted(ps)
  <2>1. cachePc'[c] \in CallerSteps
    BY <1>8 DEF CallerSteps, MidSteps
  <2>2. cachePc' \in [Threads -> CallerSteps \cup CleanerSteps] /\ \A t \in Threads : t # c => cachePc'[t] = cachePc[t]
    BY <1>3, <1>8, <2>1 DEF TypeOK
  <2>3. Woken(c)
    BY <2>2 DEF Woken, Threads
  <2>4. NotOthers(c, ps)
    BY <1>4, <1>6 DEF NotOthers, FilePages
  <2> QED
    BY <1>1, <2>2, <2>3, <2>4 DEF OthersJobs, OthersWork, OthersLocks, StillUsed, StillDeleted
<1>10. ReadersAlone' /\ DeletesAlone'
  <2>1. ReadersAlone'
    BY <1>1 DEF CacheInv, ReadersAlone
  <2>2. DeletesAlone'
    BY <1>1, <1>9, DeletesKept
  <2> QED
    BY <2>1, <2>2
<1>11. /\ CleanEffect(p) \/ (page' = page /\ queue' = queue)
       /\ mDirtyLimit' \in Nat
  BY <1>1, <1>3, <1>7, CleanLemma DEF TypeOK
<1>12. /\ page' \in [Pages -> PageState] /\ Typed(queue') /\ Changed(ps)
       /\ \A r \in Pages : PageOK(r)'
       /\ Same(u) \/ (Flushed(u) /\ page[u].dirty)
       /\ \A r \in Pages : Same(r) \/ page'[r].dirty = FALSE
  <2>1. CASE CleanEffect(p)
    <3>1. \A r \in Pages : PageOK(r)'
      BY <1>1, <1>7, <2>1, CleanedPagesOK
    <3>2. Changed(ps)
      BY <2>1 DEF CleanEffect, Changed
    <3>3. Same(u) \/ (Flushed(u) /\ page[u].dirty)
      BY <1>4, <1>6, <2>1 DEF CleanEffect
    <3>4. \A r \in Pages : Same(r) \/ page'[r].dirty = FALSE
      BY <2>1, AbsentLemma DEF CleanEffect, Flushed, Gone
    <3> QED
      BY <2>1, <3>1, <3>2, <3>3, <3>4 DEF CleanEffect
  <2>2. CASE page' = page /\ queue' = queue
    <3>1. \A r \in Pages : Same(r)
      BY <2>2 DEF Same, SameIn
    <3>2. Changed(ps)
      BY <2>2, <3>1, EndsKeptLemma DEF Changed
    <3>3. \A r \in Pages : PageOK(r) => PageOK(r)'
      BY <1>1, <2>2 DEF PageOK, InUse, Exact
    <3> QED
      BY <1>3, <1>4, <2>2, <3>1, <3>2, <3>3 DEF CacheInv, TypeOK
  <2> QED
    BY <1>11, <2>1, <2>2
<1>13. Frame(c, ps)
  <2>1. NoDirt(c)
    BY <1>12 DEF NoDirt, Same
  <2> QED
    BY <1>9, <1>12, <2>1 DEF Frame
<1>14. TypeOK'
  BY <1>1, <1>3, <1>9, <1>11, <1>12 DEF TypeOK
<1>15. JobOK(c)'
  <2>1. cachePc'[c] \in CallerSteps /\ cachePc'[c] \in MidSteps /\ cachePc'[c] \notin {"idle", "scope", "remove", "free"}
    BY <1>8 DEF CallerSteps, MidSteps
  <2>2. j.op \notin {"none", "delete", "fetch"}
    BY <1>4
  <2> QED
    BY <1>1, <1>2, <1>3, <1>4, <2>1, <2>2 DEF JobOK
<1>16. UsedOK(c)'
  <2> DEFINE step == cachePc'[c]
             pg == page'[u]
             r == queue'
  <2>1. step \notin {"done", "free"}
    BY <1>8
  <2>2. /\ page[u].size # 0 /\ SizeOf(queue["evict"], u) = page[u].size
        /\ Strict /\ j.op = "write" => SizeOf(queue["flush"], u) = page[u].size /\ ~page[u].dirty
        /\ j.op = "resize" =>
             /\ Strict /\ page[u].dirty => SizeOf(queue["flush"], u) # 0
             /\ j.kind = "flush" => SizeOf(queue["flush"], u) \in {0, page[u].size}
    BY <1>1, <1>2, <1>4, <1>5 DEF UsedFor
  <2>3. pg.size = page[u].size /\ SizeOf(r["evict"], u) = SizeOf(queue["evict"], u)
    BY <1>12, KindsLemma DEF Same, SameIn, Flushed
  <2>4. \/ pg.dirty = page[u].dirty /\ SizeOf(r["flush"], u) = SizeOf(queue["flush"], u)
        \/ page[u].dirty /\ pg.dirty = FALSE /\ SizeOf(r["flush"], u) = 0
    BY <1>12, KindsLemma DEF Same, SameIn, Flushed
  <2> HIDE DEF step, pg, r
  <2>5. UsedFor(step, j, pg, r)
    BY <2>1, <2>2, <2>3, <2>4 DEF UsedFor
  <2> QED
    BY <1>1, <2>5 DEF UsedOK, step, pg, r
<1> HIDE DEF ps
<1> QED
  BY <1>10, <1>12, <1>13, <1>14, <1>15, <1>16, CombineCaller

-----------------------------------------------------------------------------
(* Callers that return *)
Idle(c) ==
    /\ cachePc' \in [Threads -> CallerSteps \cup CleanerSteps] /\ cachePc'[c] = "idle" /\ Woken(c)
    /\ job' = [job EXCEPT ![c] = NoJob]

(* A caller that returns has no job, and may wake the cleanup thread. *)
LEMMA IdleLemma ==
    ASSUME CacheInv, NEW c \in Callers,
           Return(c, cachePc) \/ Return(c, NotifyThread(cachePc, "evict"))
    PROVE  Idle(c)
<1>1. /\ cachePc \in [Threads -> CallerSteps \cup CleanerSteps]
      /\ c \in Threads /\ "evict" \in Threads /\ "evict" # c /\ "evict" \in Kinds /\ c \notin Kinds
      /\ Callers \subseteq Threads /\ Kinds \subseteq Threads
  BY ThreadsAssumption, KindsLemma DEF CacheInv, TypeOK, Threads
<1>2. {"idle", "check"} \subseteq CallerSteps \cup CleanerSteps
  BY DEF CallerSteps, CleanerSteps
<1>3. CASE Return(c, cachePc)
  <2>1. cachePc' = [cachePc EXCEPT ![c] = "idle"] /\ job' = [job EXCEPT ![c] = NoJob]
    BY <1>3 DEF Return
  <2> QED
    BY <1>1, <1>2, <2>1 DEF Idle, Woken
<1>4. CASE Return(c, NotifyThread(cachePc, "evict"))
  <2> DEFINE p == NotifyThread(cachePc, "evict")
  <2>1. cachePc' = [p EXCEPT ![c] = "idle"] /\ job' = [job EXCEPT ![c] = NoJob]
    BY <1>4 DEF Return
  <2>2. /\ p \in [Threads -> CallerSteps \cup CleanerSteps]
        /\ \A t \in Threads : t # "evict" => p[t] = cachePc[t]
        /\ p["evict"] = cachePc["evict"] \/ (cachePc["evict"] = "asleep" /\ p["evict"] = "check")
    BY <1>1, <1>2 DEF NotifyThread
  <2> HIDE DEF p
  <2>3. cachePc' \in [Threads -> CallerSteps \cup CleanerSteps] /\ cachePc'[c] = "idle"
        /\ \A t \in Threads : t # c => cachePc'[t] = p[t]
    BY <1>1, <1>2, <2>1, <2>2
  <2>4. \A d \in Callers \ {c} : cachePc'[d] = cachePc[d]
    BY <1>1, <2>2, <2>3, ThreadsAssumption
  <2>5. \A k \in Kinds \ {c} : cachePc'[k] = cachePc[k] \/ (cachePc[k] = "asleep" /\ cachePc'[k] = "check")
    BY <1>1, <2>2, <2>3
  <2> QED
    BY <2>1, <2>3, <2>4, <2>5 DEF Idle, Woken
<1> QED
  BY <1>3, <1>4

(* Who unlocks has no lock; the others have theirs. *)
LEMMA UnlockLemma ==
    ASSUME CacheInv, NEW t \in Threads, Unlock(t)
    PROVE  /\ wlock' \in [Files -> Threads \cup {None}] /\ rlock' \in [Files -> SUBSET Callers]
           /\ OthersLocks(t) /\ ReadersAlone' /\ \A f \in Files : wlock'[f] # t
<1>1. wlock \in [Files -> Threads \cup {None}] /\ rlock \in [Files -> SUBSET Callers] /\ None \notin Threads
  BY ThreadsAssumption DEF CacheInv, TypeOK
<1>2. /\ wlock' = [f \in Files |-> IF wlock[f] = t THEN None ELSE wlock[f]]
      /\ rlock' = [f \in Files |-> rlock[f] \ {t}]
  BY DEF Unlock
<1>3. OthersLocks(t)
  BY <1>1, <1>2 DEF OthersLocks
<1>4. ReadersAlone'
  BY <1>1, <1>2 DEF CacheInv, ReadersAlone
<1> QED
  BY <1>1, <1>2, <1>3, <1>4

(* It lets go the file's lock, or has not got it. *)
Returned(c, ps) ==
    /\ Idle(c)
    /\ Unlock(c) \/ (wlock' = wlock /\ rlock' = rlock /\ cachePc[c] \notin MidSteps)
    /\ page' \in [Pages -> PageState] /\ Typed(queue') /\ mDirtyLimit' = mDirtyLimit
    /\ work' = work /\ Changed(ps) /\ NoDirt(c) /\ NotOthers(c, ps)
    /\ wlock[File(job[c].page)] = c => job[c].page \in ps

(* A caller that returns keeps the invariant if the pages ps are right, its own with them. *)
LEMMA ReturnedKeeps ==
    ASSUME CacheInv, NEW c \in Callers, NEW ps, Returned(c, ps), DeletesAlone', StillDeleted(ps),
           deleting' \subseteq Files, \A r \in Pages \cap ps : PageOK(r)'
    PROVE  CacheInv'
<1>1. TypeOK /\ JobOK(c) /\ c \in Threads
  BY DEF CacheInv, Threads
<1>2. NoJob \in Jobs /\ NoJob.op = "none"
  BY CacheSizesAssumption, KindsLemma DEF NoJob, Jobs
<1>3. job' \in [Callers -> Jobs] /\ job'[c] = NoJob /\ OthersJobs(c)
  <2>1. job' = [job EXCEPT ![c] = NoJob]
    BY DEF Returned, Idle
  <2> HIDE DEF NoJob
  <2> QED
    BY <1>1, <1>2, <2>1 DEF TypeOK, OthersJobs
<1>4. /\ wlock' \in [Files -> Threads \cup {None}] /\ rlock' \in [Files -> SUBSET Callers]
      /\ OthersLocks(c) /\ ReadersAlone' /\ \A f \in Files : wlock'[f] # c
  <2>1. CASE Unlock(c)
    BY <1>1, <2>1, UnlockLemma
  <2>2. CASE wlock' = wlock /\ rlock' = rlock /\ cachePc[c] \notin MidSteps
    <3>1. \A f \in Files : wlock[f] # c
      BY <1>1, <2>2 DEF JobOK
    <3> QED
      BY <1>1, <2>2, <3>1 DEF TypeOK, OthersLocks, CacheInv, ReadersAlone
  <2> QED
    BY <2>1, <2>2 DEF Returned
<1>5. StillUsed(c, ps)
  BY DEF StillUsed, Returned
<1>6. Frame(c, ps)
  BY <1>3, <1>4, <1>5 DEF Frame, Returned, Idle, OthersWork
<1>7. TypeOK'
  BY <1>1, <1>3, <1>4 DEF TypeOK, Returned, Idle
<1>8. JobOK(c)' /\ UsedOK(c)'
  <2>1. cachePc'[c] = "idle" /\ "idle" \in CallerSteps /\ "idle" \notin MidSteps
    BY DEF Returned, Idle, CallerSteps, MidSteps
  <2> QED
    BY <1>2, <1>3, <1>4, <2>1 DEF JobOK, UsedOK, UsedFor
<1> QED
  BY <1>4, <1>6, <1>7, <1>8, CombineCaller

(* Steps that change no page and no queue *)
LEMMA NothingChanged ==
    ASSUME CacheInv, page' = page, queue' = queue
    PROVE  /\ page' \in [Pages -> PageState] /\ Typed(queue') /\ Changed({})
           /\ \A t : NoDirt(t) /\ NotOthers(t, {})
<1>1. \A r \in Pages : Same(r)
  BY DEF Same, SameIn
<1>2. EndsKept(queue, queue', {})
  BY EndsKeptLemma
<1> QED
  BY <1>1, <1>2 DEF CacheInv, TypeOK, Changed, NoDirt, NotOthers

(* A page that is removed leaves memory and both queues. *)
LEMMA RemovedEffect ==
    ASSUME CacheInv, NEW p \in Pages,
           page' = [page EXCEPT ![p] = Absent], queue' = RemovePages({p})
    PROVE  /\ page' \in [Pages -> PageState] /\ Typed(queue') /\ Changed({p})
           /\ PageOK(p)' /\ \A t : NoDirt(t)
<1>1. page \in [Pages -> PageState] /\ Typed(queue)
  BY DEF CacheInv, TypeOK
<1>2. page' \in [Pages -> PageState] /\ page'[p] = Absent /\ \A r \in Pages : r # p => page'[r] = page[r]
  BY <1>1, AbsentAt
<1>3. queue' = RemovedIn(queue, {p})
  BY DEF RemovePages, RemovedIn
<1>4. /\ Typed(queue') /\ EndsKept(queue, queue', {p}) /\ SameBut(queue, queue', {p})
      /\ \A k \in Kinds : SizeOf(queue'[k], p) = 0
  BY <1>1, <1>3, RemoveLemma
<1>5. page'[p].size = 0 /\ page'[p].dirty = FALSE
  BY <1>2, AbsentLemma
<1>6. PageOK(p)'
  BY <1>4, <1>5, KindsLemma DEF PageOK, Exact
<1>7. Changed({p})
  BY <1>2, <1>4 DEF Changed, Same, SameBut
<1>8. \A t : NoDirt(t)
  BY <1>2, <1>5 DEF NoDirt
<1> QED
  BY <1>2, <1>4, <1>6, <1>7, <1>8

(* A call that returns ends no destructor but its own. *)
LEMMA IdleDeletes ==
    ASSUME CacheInv, NEW c \in Callers, Idle(c), job[c].op # "delete", deleting' = deleting
    PROVE  DeletesAlone' /\ deleting' \subseteq Files /\ \A ps : StillDeleted(ps)
<1>1. job \in [Callers -> Jobs] /\ deleting \subseteq Files
  BY DEF CacheInv, TypeOK
<1>2. job'[c].op = "none" /\ OthersJobs(c)
  BY <1>1 DEF Idle, NoJob, OthersJobs
<1> QED
  BY <1>1, <1>2, DeletesKept DEF StillDeleted

(* Truncate() and RemoteChanged() remove a page. *)
LEMMA DropKeeps ==
    ASSUME CacheInv, NEW c \in Callers, Drop(c)
    PROVE  CacheInv'
<1> DEFINE p == job[c].page
<1>1. /\ Locked(c, "drop", TRUE) /\ page' = [page EXCEPT ![p] = Absent]
      /\ queue' = RemovePages({p}) /\ Return(c, cachePc)
      /\ wlock' = wlock /\ rlock' = rlock /\ mDirtyLimit' = mDirtyLimit /\ work' = work
      /\ deleting' = deleting
  BY DEF Drop
<1>2. "drop" \in Ops \ {"delete"}
  BY DEF Ops
<1>3. cachePc[c] = "lock" /\ job[c].op = "drop" /\ p \in Pages /\ wlock[File(p)] = None
  BY <1>1, <1>2, LockedPage
<1>4. Idle(c)
  BY <1>1, IdleLemma
<1>5. /\ page' \in [Pages -> PageState] /\ Typed(queue') /\ Changed({p}) /\ NoDirt(c)
      /\ \A r \in Pages \cap {p} : PageOK(r)'
  <2>1. PICK x \in Pages : x = p
    BY <1>3
  <2>2. page' = [page EXCEPT ![x] = Absent] /\ queue' = RemovePages({x})
    BY <1>1, <2>1
  <2> HIDE DEF p
  <2>3. page' \in [Pages -> PageState] /\ Typed(queue') /\ Changed({x}) /\ PageOK(x)' /\ NoDirt(c)
    BY <2>2, RemovedEffect
  <2> QED
    BY <2>1, <2>3
<1>6. NotOthers(c, {p}) /\ StillDeleted({p}) /\ cachePc[c] \notin MidSteps
  BY <1>1, <1>3, ThreadsAssumption DEF NotOthers, StillDeleted, Threads, MidSteps
<1>7. Returned(c, {p})
  BY <1>1, <1>4, <1>5, <1>6 DEF Returned
<1>8. DeletesAlone' /\ deleting' \subseteq Files
  BY <1>1, <1>3, <1>4, IdleDeletes
<1> HIDE DEF p
<1> QED
  BY <1>5, <1>6, <1>7, <1>8, ReturnedKeeps

(* FlushPages(): the runs that were sent, up to the one that failed, are clean. *)
LEMMA SyncKeeps ==
    ASSUME CacheInv, NEW c \in Callers, Sync(c)
    PROVE  CacheInv'
<1> DEFINE p == job[c].page
           dirty == {r \in Pages : File(r) = File(p) /\ page[r].dirty}
           runs(r) == UNION {Run(q) : q \in {s \in dirty : s[2] <= r[2]}}
<1>1. /\ Locked(c, "sync", page[p].size > 0) /\ Return(c, cachePc)
      /\ wlock' = wlock /\ rlock' = rlock /\ mDirtyLimit' = mDirtyLimit /\ work' = work
      /\ deleting' = deleting
  BY DEF Sync
<1>2. PICK ps \in {{}} \cup {runs(r) : r \in dirty} : page' = Cleaned(ps) /\ queue' = RemoveDirty(ps)
  BY DEF Sync
<1>3. cachePc[c] = "lock" /\ job[c].op = "sync" /\ p \in Pages /\ wlock[File(p)] = None
  <2> DEFINE present == page[p].size > 0
  <2>1. present \in BOOLEAN /\ Locked(c, "sync", present)
    BY <1>1
  <2>2. "sync" \in Ops \ {"delete"}
    BY DEF Ops
  <2> HIDE DEF present
  <2> QED
    BY <2>1, <2>2, LockedPage
<1>4. \A r \in ps : r \in Pages /\ File(r) = File(p)
  <2> SUFFICES ASSUME NEW r \in ps PROVE r \in Pages /\ File(r) = File(p)
    OBVIOUS
  <2>1. PICK q \in dirty : r \in Run(q)
    BY <1>2
  <2> QED
    BY <2>1, RunLemma DEF FilePages
<1>5. SentEffect(ps)
  BY <1>2, SentLemma
<1>6. Idle(c)
  BY <1>1, IdleLemma
<1>7. ASSUME NEW r \in Pages \cap ps PROVE PageOK(r)'
  <2>1. PageOK(r) /\ Flushed(r) /\ ~InUse(r)
    <3>1. wlock[File(r)] = None
      BY <1>3, <1>4
    <3> QED
      BY <1>5, <3>1, ThreadsAssumption DEF CacheInv, SentEffect, InUse, Threads
  <2>2. Exact(r) => Exact(r)'
    BY <2>1 DEF Exact, Flushed
  <2>3. page'[r].size = 0 => ~page'[r].dirty /\ \A k \in Kinds : SizeOf(queue'[k], r) = 0
    BY <2>1, KindsLemma DEF PageOK, Flushed
  <2> QED
    BY <1>1, <2>1, <2>2, <2>3 DEF PageOK
<1>8. NotOthers(c, ps) /\ cachePc[c] \notin MidSteps
  <2>1. \A r \in ps : wlock[File(r)] = None
    BY <1>3, <1>4
  <2>2. cachePc[c] \notin MidSteps
    BY <1>3 DEF MidSteps
  <2>3. None \notin Callers
    BY ThreadsAssumption DEF Threads
  <2> HIDE DEF p
  <2> QED
    BY <2>1, <2>2, <2>3 DEF NotOthers
<1>9. Changed(ps) /\ NoDirt(c)
  BY <1>5 DEF SentEffect, Changed, NoDirt, Flushed, Same
<1>10. wlock[File(p)] # c
  BY <1>3, ThreadsAssumption DEF Threads
<1>11. Returned(c, ps)
  BY <1>1, <1>5, <1>6, <1>8, <1>9, <1>10 DEF Returned, SentEffect
<1>12. DeletesAlone' /\ deleting' \subseteq Files /\ StillDeleted(ps)
  BY <1>1, <1>3, <1>6, IdleDeletes
<1> QED
  BY <1>7, <1>11, <1>12, ReturnedKeeps

(* A call that finds its page there, or not, has nothing to do. *)
LEMMA NothingKeeps ==
    ASSUME CacheInv, NEW c \in Callers, Nothing(c)
    PROVE  CacheInv'
<1>1. /\ Return(c, cachePc) /\ page' = page /\ queue' = queue
      /\ wlock' = wlock /\ rlock' = rlock /\ mDirtyLimit' = mDirtyLimit /\ work' = work
      /\ deleting' = deleting
  BY DEF Nothing, pageVars, cacheVars
<1>2. cachePc[c] = "lock" /\ job[c].op # "delete"
  BY DEF Nothing, Locked
<1>3. Idle(c)
  BY <1>1, IdleLemma
<1>4. page' \in [Pages -> PageState] /\ Typed(queue') /\ Changed({}) /\ NoDirt(c) /\ NotOthers(c, {})
  BY <1>1, NothingChanged
<1>5. cachePc[c] \notin MidSteps
  BY <1>2 DEF MidSteps
<1>6. wlock[File(job[c].page)] # c
  <2>1. JobOK(c) /\ job[c].op # "none"
    BY <1>2 DEF CacheInv, JobOK
  <2>2. File(job[c].page) \in Files
    BY <2>1 DEF JobOK, Files
  <2> QED
    BY <1>5, <2>1, <2>2 DEF JobOK
<1>7. Returned(c, {})
  BY <1>1, <1>3, <1>4, <1>5, <1>6 DEF Returned
<1>8. DeletesAlone' /\ deleting' \subseteq Files /\ StillDeleted({})
  BY <1>1, <1>2, <1>3, IdleDeletes
<1> QED
  BY <1>7, <1>8, ReturnedKeeps

(* A fetch thread puts in a page that is not dirty. *)
LEMMA FetchKeeps ==
    ASSUME CacheInv, NEW c \in Callers, FetchPage(c)
    PROVE  CacheInv'
<1> DEFINE p == job[c].page
           size == IF page[p].size > 0 THEN page[p].size ELSE MaxPageSize
<1>1. /\ Locked(c, "fetch", page[p].size > 0) /\ page' = [page EXCEPT ![p].size = size]
      /\ queue' = EnqueuePage(p, size, FALSE) /\ Unlock(c)
      /\ Return(c, cachePc) \/ Return(c, NotifyThread(cachePc, "evict"))
      /\ mDirtyLimit' = mDirtyLimit /\ work' = work /\ deleting' = deleting
  BY DEF FetchPage
<1>2. cachePc[c] = "lock" /\ job[c].op = "fetch" /\ p \in Pages /\ page[p] \in PageState
      /\ wlock[File(p)] = None
  <2> DEFINE present == page[p].size > 0
  <2>1. present \in BOOLEAN /\ Locked(c, "fetch", present)
    BY <1>1
  <2>2. "fetch" \in Ops \ {"delete"}
    BY DEF Ops
  <2> HIDE DEF present
  <2> QED
    BY <2>1, <2>2, LockedPage
<1>3. size \in 1 .. MaxPageSize /\ size \in 0 .. MaxPageSize /\ size # 0
  <2>1. page[p].size \in 0 .. MaxPageSize
    BY <1>2 DEF PageState
  <2> QED
    BY <2>1, CacheSizesAssumption
<1>4. Strict => ~page[p].dirty
  BY <1>2 DEF CacheInv, JobOK, Strict
<1>5. Idle(c)
  BY <1>1, IdleLemma
<1>6. PICK x \in Pages : x = p
  BY <1>2
<1>7. page' = [page EXCEPT ![x].size = size]
  BY <1>1, <1>6
<1>8. Enqueued(queue, queue', x, size, FALSE)
  <2>1. queue' = EnqueuedIn(queue, x, size, FALSE)
    BY <1>1, <1>6 DEF EnqueuePage, EnqueuedIn
  <2>2. Typed(queue)
    BY DEF CacheInv, TypeOK
  <2> HIDE DEF size
  <2> QED
    BY <1>3, <2>1, <2>2, EnqueueLemma
<1>9. /\ page' \in [Pages -> PageState] /\ \A r \in Pages : r # x => page'[r] = page[r]
      /\ page'[x].size = size /\ page'[x].dirty = page[x].dirty
  <2>1. page \in [Pages -> PageState]
    BY DEF CacheInv, TypeOK
  <2> HIDE DEF size, p
  <2> QED
    BY <1>3, <1>7, <2>1 DEF PageState
<1>10. (Strict => ~page[x].dirty) /\ wlock[File(x)] = None
  BY <1>2, <1>4, <1>6
<1> HIDE DEF size
<1>11. PageOK(x)'
  BY <1>3, <1>8, <1>9, <1>10 DEF PageOK, Exact, Enqueued
<1>12. Changed({x}) /\ NoDirt(c)
  BY <1>8, <1>9 DEF Changed, NoDirt, Same, SameBut, Enqueued
<1>13. NotOthers(c, {x}) /\ wlock[File(p)] # c
  BY <1>6, <1>10, ThreadsAssumption DEF NotOthers, Threads
<1>14. Returned(c, {x})
  BY <1>1, <1>5, <1>8, <1>9, <1>12, <1>13 DEF Returned, Enqueued
<1>15. DeletesAlone' /\ deleting' \subseteq Files /\ StillDeleted({x})
  BY <1>1, <1>2, <1>5, IdleDeletes
<1> QED
  BY <1>11, <1>14, <1>15, ReturnedKeeps

(* The page a write was for is set dirty when it is in mDirtyQueue. *)
LEMMA DoneKeeps ==
    ASSUME CacheInv, NEW c \in Callers, Done(c)
    PROVE  CacheInv'
<1> DEFINE p == job[c].page
<1>1. /\ cachePc[c] = "done" /\ page' = [page EXCEPT ![p].dirty = @ \/ job[c].op = "write"]
      /\ Unlock(c) /\ Return(c, cachePc) /\ queue' = queue
      /\ mDirtyLimit' = mDirtyLimit /\ work' = work /\ deleting' = deleting
  BY DEF Done, cacheVars
<1>2. TypeOK /\ JobOK(c) /\ UsedOK(c) /\ page \in [Pages -> PageState] /\ cachePc[c] \in MidSteps
  BY <1>1 DEF CacheInv, TypeOK, MidSteps
<1>3. job[c].op \in {"write", "resize", "zero", "read"} /\ p \in Pages
      /\ (job[c].op \in Exclusive => wlock[File(p)] = c)
      /\ (job[c].op \notin Exclusive => c \in rlock[File(p)])
  BY <1>2 DEF JobOK
<1>4. Idle(c)
  BY <1>1, IdleLemma
<1>5. PICK x \in Pages : x = p
  BY <1>3
<1>6. /\ page' \in [Pages -> PageState] /\ \A r \in Pages : r # x => page'[r] = page[r]
      /\ page'[x].size = page[x].size /\ page'[x].dirty = (page[x].dirty \/ job[c].op = "write")
      /\ page[x].dirty \in BOOLEAN
  <2> DEFINE w == job[c].op = "write"
             d == page[x].dirty \/ w
  <2>1. d \in BOOLEAN /\ page' = [page EXCEPT ![x].dirty = d] /\ page[x].dirty \in BOOLEAN
    BY <1>1, <1>2, <1>5 DEF PageState
  <2> HIDE DEF d, p
  <2>2. /\ page' \in [Pages -> PageState] /\ \A r \in Pages : r # x => page'[r] = page[r]
        /\ page'[x].size = page[x].size /\ page'[x].dirty = d
    BY <1>2, <2>1 DEF PageState
  <2> QED
    BY <2>1, <2>2 DEF d
<1>7. DeletesAlone' /\ deleting' \subseteq Files /\ \A ps : StillDeleted(ps)
  BY <1>1, <1>3, <1>4, IdleDeletes
<1>8. Typed(queue') /\ EndsKept(queue, queue', {x})
  BY <1>1, <1>2, EndsKeptLemma DEF TypeOK
<1>9. Changed({x})
  BY <1>1, <1>6, <1>8 DEF Changed, Same, SameIn
<1>10. wlock[File(x)] \in {None, c}
  <2>1. CASE job[c].op \in Exclusive
    BY <1>3, <1>5, <2>1
  <2>2. CASE job[c].op \notin Exclusive
    BY <1>3, <1>5, <2>2 DEF CacheInv, ReadersAlone, Files
  <2> QED
    BY <2>1, <2>2
<1>11. NotOthers(c, {x})
  BY <1>10, ThreadsAssumption DEF NotOthers, Threads
<1>12. NoDirt(c)
  <2>1. job[c].op = "write" => wlock[File(x)] = c
    BY <1>3, <1>5 DEF Exclusive
  <2> QED
    BY <1>6, <2>1 DEF NoDirt
<1>13. PageOK(x)'
  <2>1. CASE job[c].op \in Exclusive
    <3>1. UsedFor("done", job[c], page[x], queue) /\ job[c].page = x
      BY <1>1, <1>2, <1>5 DEF UsedOK
    <3>2. /\ page[x].size # 0 /\ SizeOf(queue["evict"], x) = page[x].size
          /\ Strict /\ job[c].op = "write" => SizeOf(queue["flush"], x) = page[x].size
          /\ job[c].op = "resize" =>
               /\ Strict /\ page[x].dirty => SizeOf(queue["flush"], x) # 0
               /\ SizeOf(queue["flush"], x) \in {0, page[x].size}
      BY <1>1, <1>2, <2>1, <3>1 DEF UsedFor
    <3>3. job[c].op \in {"write", "resize"}
      BY <1>3, <2>1 DEF Exclusive
    <3>4. Exact(x)'
      BY <1>1, <1>6, <3>2, <3>3 DEF Exact
    <3> QED
      BY <1>6, <3>2, <3>4 DEF PageOK
  <2>2. CASE job[c].op \notin Exclusive
    <3>1. wlock[File(x)] = None
      BY <1>3, <1>5, <2>2 DEF CacheInv, ReadersAlone, Files
    <3>2. ~InUse(x) /\ PageOK(x)
      BY <3>1, ThreadsAssumption DEF InUse, Threads, CacheInv
    <3>3. page'[x].dirty = page[x].dirty
      BY <1>6, <2>2 DEF Exclusive
    <3>4. Exact(x) => Exact(x)'
      BY <1>1, <1>6, <3>3 DEF Exact
    <3> QED
      BY <1>1, <1>6, <3>2, <3>3, <3>4 DEF PageOK
  <2> QED
    BY <2>1, <2>2
<1>14. Returned(c, {x})
  BY <1>1, <1>4, <1>5, <1>6, <1>8, <1>9, <1>11, <1>12 DEF Returned
<1> QED
  BY <1>7, <1>13, <1>14, ReturnedKeeps

(* The catch blocks: a new page is removed, and a page that was there has its old size. *)
LEMMA FailedKeeps ==
    ASSUME CacheInv, NEW c \in Callers, Failed(c)
    PROVE  CacheInv'
<1> DEFINE p == job[c].page
           old == job[c].old
<1>1. /\ cachePc[c] = "failed" /\ Unlock(c) /\ Return(c, cachePc)
      /\ IF job[c].op = "read" THEN page' = page /\ queue' = queue ELSE Undo(p, old)
      /\ mDirtyLimit' = mDirtyLimit /\ work' = work /\ deleting' = deleting
  BY DEF Failed
<1>2. TypeOK /\ JobOK(c) /\ UsedOK(c) /\ page \in [Pages -> PageState] /\ cachePc[c] \in MidSteps
      /\ old \in 0 .. MaxPageSize
  BY <1>1 DEF CacheInv, TypeOK, MidSteps, Jobs
<1>3. job[c].op \in {"write", "resize", "zero", "read"} /\ p \in Pages
      /\ (job[c].op = "zero" => old = 0)
      /\ (job[c].op \in Exclusive => wlock[File(p)] = c)
      /\ (job[c].op \notin Exclusive => c \in rlock[File(p)])
  BY <1>2 DEF JobOK
<1>4. Idle(c)
  BY <1>1, IdleLemma
<1>5. PICK x \in Pages : x = p
  BY <1>3
<1>6. DeletesAlone' /\ deleting' \subseteq Files /\ \A ps : StillDeleted(ps)
  BY <1>1, <1>3, <1>4, IdleDeletes
<1>7. wlock[File(x)] \in {None, c}
  <2>1. CASE job[c].op \in Exclusive
    BY <1>3, <1>5, <2>1
  <2>2. CASE job[c].op \notin Exclusive
    BY <1>3, <1>5, <2>2 DEF CacheInv, ReadersAlone, Files
  <2> QED
    BY <2>1, <2>2
<1>8. NotOthers(c, {x})
  BY <1>7, ThreadsAssumption DEF NotOthers, Threads
<1>9. CASE job[c].op = "read"
  <2>1. page' \in [Pages -> PageState] /\ Typed(queue') /\ Changed({}) /\ NoDirt(c) /\ NotOthers(c, {})
    BY <1>1, <1>9, NothingChanged
  <2>2. wlock[File(p)] # c
    <3>1. wlock[File(p)] = None
      BY <1>3, <1>9 DEF CacheInv, ReadersAlone, Files, Exclusive
    <3> QED
      BY <3>1, ThreadsAssumption DEF Threads
  <2>3. Returned(c, {})
    BY <1>1, <1>4, <2>1, <2>2 DEF Returned
  <2> QED
    BY <1>6, <2>3, ReturnedKeeps
<1>10. CASE job[c].op # "read" /\ old = 0
  <2>1. page' = [page EXCEPT ![x] = Absent] /\ queue' = RemovePages({x})
    BY <1>1, <1>5, <1>10 DEF Undo
  <2>2. page' \in [Pages -> PageState] /\ Typed(queue') /\ Changed({x}) /\ PageOK(x)' /\ NoDirt(c)
    BY <2>1, RemovedEffect
  <2>3. Returned(c, {x})
    BY <1>1, <1>4, <1>5, <1>8, <2>2 DEF Returned
  <2> QED
    BY <1>6, <2>2, <2>3, ReturnedKeeps
<1>11. CASE job[c].op # "read" /\ old # 0
  <2>1. page' = [page EXCEPT ![x].size = old] /\ queue' = ResizedBoth(queue, x, old)
    BY <1>1, <1>5, <1>11 DEF Undo, ResizedBoth
  <2>2. old \in 1 .. MaxPageSize
    BY <1>2, <1>11, CacheSizesAssumption
  <2>3. /\ page' \in [Pages -> PageState] /\ \A r \in Pages : r # x => page'[r] = page[r]
        /\ page'[x].size = old /\ page'[x].dirty = page[x].dirty
    <3> HIDE DEF p, old
    <3> QED
      BY <1>2, <2>1 DEF PageState
  <2>4. /\ Typed(queue') /\ EndsKept(queue, queue', {}) /\ SameBut(queue, queue', {x})
        /\ \A k \in Kinds : SizeOf(queue'[k], x) = IF SizeOf(queue[k], x) # 0 THEN old ELSE 0
    <3>1. Typed(queue)
      BY <1>2 DEF TypeOK
    <3> HIDE DEF old
    <3> QED
      BY <2>1, <2>2, <3>1, ResizeBothLemma
  <2>5. EndsKept(queue, queue', {x})
    BY <2>4, EndsKeptLemma
  <2>6. Changed({x}) /\ NoDirt(c)
    BY <2>3, <2>4, <2>5 DEF Changed, Same, SameBut, NoDirt
  <2>7. job[c].op \in Exclusive /\ job[c].op \in {"write", "resize"}
    BY <1>3, <1>11 DEF Exclusive
  <2>8. UsedFor(cachePc[c], job[c], page[x], queue) /\ job[c].page = x
    BY <1>2, <1>5 DEF UsedOK
  <2>9. /\ page[x].size # 0 /\ SizeOf(queue["evict"], x) = page[x].size
        /\ Strict /\ job[c].op = "write" => SizeOf(queue["flush"], x) = page[x].size
        /\ Strict /\ job[c].op = "resize" /\ page[x].dirty => SizeOf(queue["flush"], x) # 0
    BY <1>2, <2>7, <2>8 DEF UsedFor
  <2>10. PageOK(x)'
    <3>1. SizeOf(queue'["evict"], x) = old /\ SizeOf(queue'["flush"], x) \in {0, old}
          /\ (Strict /\ page[x].dirty => SizeOf(queue'["flush"], x) = old)
      BY <2>4, <2>7, <2>9, KindsLemma
    <3>2. Exact(x)'
      BY <2>3, <3>1 DEF Exact
    <3> QED
      BY <1>11, <2>3, <3>2 DEF PageOK
  <2>11. Returned(c, {x})
    BY <1>1, <1>4, <1>5, <1>8, <2>3, <2>4, <2>6 DEF Returned
  <2> QED
    BY <1>6, <2>10, <2>11, ReturnedKeeps
<1> QED
  BY <1>9, <1>10, <1>11

-----------------------------------------------------------------------------
(* Calls that begin, and files that are deleted *)
LEMMA NoLock ==
    ASSUME CacheInv, NEW c \in Callers, cachePc[c] \notin MidSteps
    PROVE  \A f \in Files : wlock[f] # c
BY DEF CacheInv, JobOK

(* A call begins: a fetch with its reader's lock. *)
LEMMA BeginKeeps ==
    ASSUME CacheInv, NEW c \in Callers, Begin(c)
    PROVE  CacheInv'
<1>1. /\ cachePc[c] = "idle" /\ page' = page /\ wlock' = wlock /\ queue' = queue
      /\ mDirtyLimit' = mDirtyLimit /\ work' = work /\ deleting' = deleting
  BY DEF Begin, cacheVars
<1>2. PICK op \in Ops, p \in Pages :
        /\ Using(File(p), {"delete"}) = {}
        /\ op = "delete" => Using(File(p), Ops \ {"fetch"}) = {}
        /\ op = "fetch" => page[p].size = 0 /\ wlock[File(p)] = None
        /\ rlock' = [rlock EXCEPT ![File(p)] = IF op = "fetch" /\ ~Ahead THEN @ \cup {c} ELSE @]
        /\ job' = [job EXCEPT ![c] = [NoJob EXCEPT !.op = op, !.page = p]]
        /\ cachePc' = [cachePc EXCEPT ![c] = IF op = "delete" THEN "scope" ELSE "lock"]
  BY DEF Begin
<1>3. /\ TypeOK /\ JobOK(c) /\ ReadersAlone /\ DeletesAlone /\ c \in Threads
      /\ File(p) \in Files /\ Callers \subseteq Threads /\ Kinds \subseteq Threads /\ c \notin Kinds
  BY ThreadsAssumption DEF CacheInv, Threads, Files
<1> DEFINE j == [NoJob EXCEPT !.op = op, !.page = p]
           step == IF op = "delete" THEN "scope" ELSE "lock"
<1>4. j \in Jobs /\ j.op = op /\ j.page = p
  <2>1. NoJob \in Jobs
    BY CacheSizesAssumption, KindsLemma DEF NoJob, Jobs
  <2>2. ASSUME NEW i \in Jobs
        PROVE  LET n == [i EXCEPT !.op = op, !.page = p]
               IN  n \in Jobs /\ n.op = op /\ n.page = p
    BY DEF Jobs
  <2> HIDE DEF NoJob
  <2> QED
    BY <2>1, <2>2
<1>5. step \in CallerSteps /\ step \notin MidSteps /\ step # "idle"
      /\ (op = "delete" <=> step \in {"scope", "remove"})
  BY DEF CallerSteps, MidSteps
<1> HIDE DEF j, step
<1>6. job' = [job EXCEPT ![c] = j] /\ cachePc' = [cachePc EXCEPT ![c] = step]
  BY <1>2 DEF j, step
<1>7. job' \in [Callers -> Jobs] /\ job'[c] = j /\ OthersJobs(c)
  BY <1>3, <1>4, <1>6 DEF TypeOK, OthersJobs
<1>8. cachePc' \in [Threads -> CallerSteps \cup CleanerSteps] /\ cachePc'[c] = step /\ Woken(c)
  BY <1>3, <1>5, <1>6 DEF TypeOK, Woken
<1>9. /\ rlock' \in [Files -> SUBSET Callers]
      /\ \A f \in Files : f # File(p) \/ op # "fetch" => rlock'[f] = rlock[f]
      /\ op = "fetch" /\ ~Ahead => rlock'[File(p)] = rlock[File(p)] \cup {c}
      /\ rlock'[File(p)] \subseteq rlock[File(p)] \cup {c}
      /\ rlock[File(p)] \subseteq rlock'[File(p)]
  BY <1>2, <1>3 DEF TypeOK
<1>10. OthersLocks(c)
  BY <1>1, <1>9 DEF OthersLocks
<1>11. ReadersAlone'
  <2> SUFFICES ASSUME NEW f \in Files, rlock'[f] # {} PROVE wlock[f] = None
    BY <1>1 DEF ReadersAlone
  <2>1. CASE f = File(p) /\ op = "fetch"
    BY <1>2, <2>1
  <2>2. CASE f # File(p) \/ op # "fetch"
    BY <1>3, <1>9, <2>2 DEF ReadersAlone
  <2> QED
    BY <2>1, <2>2
<1>12. DeletesAlone'
  <2>1. \A d \in Callers : d # c => job'[d] = job[d]
    BY <1>7 DEF OthersJobs
  <2>2. job[c].op = "none"
    BY <1>1, <1>3 DEF JobOK
  <2>3. \A d \in Callers : job[d].op = "delete" => File(job[d].page) # File(p)
    BY <1>2 DEF Using
  <2>4. op = "delete" => \A d \in Callers : File(job[d].page) = File(p) =>
            job[d].op \in {"fetch", "none"}
    <3>1. \A d \in Callers : job[d].op \in Ops \cup {"none"}
      BY <1>3 DEF TypeOK, Jobs
    <3> QED
      BY <1>2, <3>1 DEF Using
  <2>5. ASSUME NEW a \in Callers, NEW b \in Callers, a # b, job'[a].op = "delete",
               job'[b].op # "none", File(job'[b].page) = File(job'[a].page)
        PROVE  job'[b].op = "fetch"
    <3>1. CASE a = c
      <4>1. job'[b] = job[b] /\ op = "delete" /\ File(job[b].page) = File(p)
        BY <1>4, <1>7, <2>1, <2>5, <3>1
      <4> QED
        BY <2>4, <2>5, <4>1
    <3>2. CASE b = c
      <4>1. job'[a] = job[a] /\ File(job[a].page) = File(p)
        BY <1>4, <1>7, <2>1, <2>5, <3>2
      <4> QED
        BY <2>3, <2>5, <4>1
    <3>3. CASE a # c /\ b # c
      BY <1>3, <2>1, <2>5, <3>3 DEF DeletesAlone
    <3> QED
      BY <3>1, <3>2, <3>3
  <2>6. ASSUME NEW f \in deleting'
        PROVE  \E d \in Callers : job'[d].op = "delete" /\ File(job'[d].page) = f
    <3>1. PICK d \in Callers : job[d].op = "delete" /\ File(job[d].page) = f
      BY <1>1, <1>3 DEF DeletesAlone
    <3> QED
      BY <2>1, <2>2, <3>1
  <2> QED
    BY <2>5, <2>6 DEF DeletesAlone
<1>13. page' \in [Pages -> PageState] /\ Typed(queue') /\ Changed({}) /\ NoDirt(c) /\ NotOthers(c, {})
  BY <1>1, NothingChanged
<1>14. \A f \in Files : wlock[f] # c
  BY <1>1, <1>3, NoLock DEF MidSteps
<1>15. Frame(c, {})
  <2>1. StillUsed(c, {})
    BY <1>14 DEF StillUsed, Files
  <2> QED
    BY <1>1, <1>7, <1>8, <1>10, <1>13, <2>1 DEF Frame, OthersWork, StillDeleted
<1>16. TypeOK'
  BY <1>1, <1>3, <1>7, <1>8, <1>9 DEF TypeOK
<1>17. JobOK(c)'
  <2>1. op = "fetch" => ~page'[p].dirty
    BY <1>1, <1>2 DEF CacheInv, PageOK
  <2>2. op = "fetch" /\ ~Ahead => c \in rlock'[File(p)]
    BY <1>9
  <2>3. op # "none"
    BY DEF Ops
  <2> QED
    BY <1>1, <1>4, <1>5, <1>7, <1>8, <1>14, <2>1, <2>2, <2>3 DEF JobOK
<1>18. UsedOK(c)'
  BY <1>5, <1>8 DEF UsedOK, UsedFor
<1> QED
  BY <1>11, <1>12, <1>15, <1>16, <1>17, <1>18, CombineCaller

(* ~PageManager() gets the scope lock, and from here on a walk erases the file's entries. *)
LEMMA DeleteScopeKeeps ==
    ASSUME CacheInv, NEW c \in Callers, DeleteScope(c)
    PROVE  CacheInv'
<1> DEFINE f == File(job[c].page)
<1>1. /\ cachePc[c] = "scope" /\ deleting' = deleting \cup {f} /\ cachePc' = [cachePc EXCEPT ![c] = "remove"]
      /\ page' = page /\ wlock' = wlock /\ rlock' = rlock /\ queue' = queue
      /\ mDirtyLimit' = mDirtyLimit /\ work' = work /\ job' = job
  BY DEF DeleteScope, pageVars, cacheVars
<1>2. /\ TypeOK /\ JobOK(c) /\ ReadersAlone /\ DeletesAlone /\ c \in Threads
      /\ Callers \subseteq Threads /\ Kinds \subseteq Threads /\ c \notin Kinds
  BY ThreadsAssumption DEF CacheInv, Threads
<1>3. job[c].op = "delete" /\ job[c].page \in Pages /\ f \in Files
  BY <1>1, <1>2 DEF JobOK, Files
<1>4. "remove" \in CallerSteps /\ "remove" \notin MidSteps /\ "scope" \notin MidSteps
  BY DEF CallerSteps, MidSteps
<1>5. cachePc' \in [Threads -> CallerSteps \cup CleanerSteps] /\ cachePc'[c] = "remove" /\ Woken(c)
  BY <1>1, <1>2, <1>4 DEF TypeOK, Woken
<1>6. page' \in [Pages -> PageState] /\ Typed(queue') /\ Changed({}) /\ NoDirt(c) /\ NotOthers(c, {})
  BY <1>1, NothingChanged
<1>7. Frame(c, {})
  <2>1. OthersLocks(c) /\ OthersJobs(c) /\ OthersWork(c) /\ StillUsed(c, {}) /\ StillDeleted({})
    BY <1>1 DEF OthersLocks, OthersJobs, OthersWork, StillUsed, StillDeleted
  <2> QED
    BY <1>5, <1>6, <2>1 DEF Frame
<1>8. TypeOK'
  BY <1>1, <1>2, <1>3, <1>5 DEF TypeOK
<1>9. ReadersAlone'
  BY <1>1, <1>2 DEF ReadersAlone
<1>10. DeletesAlone'
  BY <1>1, <1>2, <1>3 DEF DeletesAlone
<1>11. JobOK(c)'
  BY <1>1, <1>2, <1>3, <1>4, <1>5 DEF JobOK
<1>12. UsedOK(c)'
  BY <1>4, <1>5 DEF UsedOK, UsedFor
<1> QED
  BY <1>7, <1>8, <1>9, <1>10, <1>11, <1>12, CombineCaller

(* It removes page after page, though cleanup threads may be at the same file, *)
LEMMA DeletePageKeeps ==
    ASSUME CacheInv, NEW c \in Callers, DeletePage(c)
    PROVE  CacheInv'
<1> DEFINE f == File(job[c].page)
<1>1. /\ cachePc[c] = "remove" /\ cachePc' = cachePc /\ job' = job /\ deleting' = deleting
      /\ wlock' = wlock /\ rlock' = rlock
      /\ mDirtyLimit' = mDirtyLimit /\ work' = work
  BY DEF DeletePage
<1>2. PICK p \in Pages : File(p) = f /\ page' = [page EXCEPT ![p] = Absent] /\ queue' = RemovePages({p})
  BY DEF DeletePage
<1>3. TypeOK /\ JobOK(c) /\ UsedOK(c) /\ ReadersAlone /\ DeletesAlone
  BY DEF CacheInv
<1>4. job[c].op = "delete" /\ f \in Files /\ cachePc[c] \notin MidSteps
  BY <1>1, <1>3 DEF JobOK, Files, MidSteps
<1>5. page' \in [Pages -> PageState] /\ Typed(queue') /\ Changed({p}) /\ PageOK(p)' /\ NoDirt(c)
  BY <1>2, RemovedEffect
<1>6. NotOthers(c, {p})
  <2> SUFFICES ASSUME NEW d \in Callers \ {c}, wlock[File(p)] = d PROVE FALSE
    BY DEF NotOthers
  <2>1. cachePc[d] \in MidSteps /\ job[d].op \in Exclusive /\ File(job[d].page) = f
    BY <1>2, <1>4 DEF CacheInv, JobOK
  <2>2. job[d].op # "none" /\ job[d].op # "fetch"
    BY <2>1 DEF Exclusive
  <2> QED
    BY <1>3, <1>4, <2>1, <2>2 DEF DeletesAlone
<1>7. Frame(c, {p})
  <2>1. OthersLocks(c) /\ OthersJobs(c) /\ OthersWork(c) /\ StillUsed(c, {p}) /\ StillDeleted({p}) /\ Woken(c)
    BY <1>1 DEF OthersLocks, OthersJobs, OthersWork, StillUsed, StillDeleted, Woken
  <2> QED
    BY <1>5, <1>6, <2>1 DEF Frame
<1>8. TypeOK'
  BY <1>1, <1>3, <1>5 DEF TypeOK
<1>9. ReadersAlone' /\ DeletesAlone'
  BY <1>1, <1>3 DEF ReadersAlone, DeletesAlone
<1>10. JobOK(c)' /\ UsedOK(c)'
  BY <1>1, <1>3, <1>4 DEF JobOK, UsedOK, UsedFor
<1> QED
  BY <1>5, <1>7, <1>8, <1>9, <1>10, CombineCaller

(* and returns when there are none. *)
LEMMA DeletedKeeps ==
    ASSUME CacheInv, NEW c \in Callers, Deleted(c)
    PROVE  CacheInv'
<1> DEFINE f == File(job[c].page)
<1>1. /\ cachePc[c] = "remove" /\ deleting' = deleting \ {f} /\ Return(c, cachePc)
      /\ \A p \in Pages : File(p) = f => page[p].size = 0
      /\ page' = page /\ wlock' = wlock /\ rlock' = rlock /\ queue' = queue
      /\ mDirtyLimit' = mDirtyLimit /\ work' = work
  BY DEF Deleted, pageVars, cacheVars
<1>2. TypeOK /\ JobOK(c) /\ DeletesAlone
  BY DEF CacheInv
<1>3. job[c].op = "delete" /\ f \in Files /\ cachePc[c] \notin MidSteps
  BY <1>1, <1>2 DEF JobOK, Files, MidSteps
<1>4. Idle(c)
  BY <1>1, IdleLemma
<1>5. job'[c].op = "none" /\ \A d \in Callers : d # c => job'[d] = job[d]
  BY <1>2, <1>4 DEF Idle, NoJob, TypeOK
<1>6. DeletesAlone'
  <2>1. ASSUME NEW a \in Callers, NEW b \in Callers, a # b, job'[a].op = "delete",
               job'[b].op # "none", File(job'[b].page) = File(job'[a].page)
        PROVE  job'[b].op = "fetch"
    <3>1. a # c /\ b # c
      BY <1>5, <2>1
    <3> QED
      BY <1>2, <1>5, <2>1, <3>1 DEF DeletesAlone
  <2>2. ASSUME NEW g \in deleting'
        PROVE  \E d \in Callers : job'[d].op = "delete" /\ File(job'[d].page) = g
    <3>1. PICK d \in Callers : job[d].op = "delete" /\ File(job[d].page) = g
      BY <1>1, <1>2 DEF DeletesAlone
    <3>2. d # c
      BY <1>1, <3>1
    <3> QED
      BY <1>5, <3>1, <3>2
  <2> QED
    BY <2>1, <2>2 DEF DeletesAlone
<1>7. page' \in [Pages -> PageState] /\ Typed(queue') /\ Changed({}) /\ NoDirt(c) /\ NotOthers(c, {})
  BY <1>1, NothingChanged
<1>8. StillDeleted({}) /\ deleting' \subseteq Files
  BY <1>1, <1>2 DEF StillDeleted, TypeOK
<1>9. wlock[f] # c
  BY <1>3, NoLock
<1>10. Returned(c, {})
  BY <1>1, <1>3, <1>4, <1>7, <1>9 DEF Returned
<1> QED
  BY <1>6, <1>8, <1>10, ReturnedKeeps

-----------------------------------------------------------------------------
(* The cleanup threads.  Steps that only go on, and wake others *)
LEMMA WakeLemma ==
    ASSUME CacheInv, NEW k \in Kinds, NEW step \in CleanerSteps, NEW ks,
           cachePc' = [cachePc EXCEPT ![k] = step] \/ cachePc' = NotifyWaiters([cachePc EXCEPT ![k] = step], ks)
    PROVE  cachePc' \in [Threads -> CallerSteps \cup CleanerSteps] /\ cachePc'[k] = step /\ Woken(k)
<1>1. /\ cachePc \in [Threads -> CallerSteps \cup CleanerSteps] /\ k \in Threads /\ k \notin Callers
      /\ Callers \subseteq Threads /\ Kinds \subseteq Threads /\ Callers \cap Kinds = {}
  BY ThreadsAssumption DEF CacheInv, TypeOK, Threads
<1> DEFINE p == [cachePc EXCEPT ![k] = step]
<1>2. p \in [Threads -> CallerSteps \cup CleanerSteps] /\ p[k] = step
      /\ \A t \in Threads : t # k => p[t] = cachePc[t]
  BY <1>1
<1>3. "awake" \in CallerSteps
  BY DEF CallerSteps, MidSteps
<1>4. CASE cachePc' = p
  BY <1>1, <1>2, <1>4 DEF Woken
<1>5. CASE cachePc' = NotifyWaiters(p, ks)
  <2> HIDE DEF p
  <2>1. cachePc' = [t \in Threads |->
            IF t \in Callers /\ p[t] = "asleep" /\ job[t].kind \in ks THEN "awake" ELSE p[t]]
    BY <1>5 DEF NotifyWaiters
  <2>2. cachePc' \in [Threads -> CallerSteps \cup CleanerSteps]
    BY <1>2, <1>3, <2>1
  <2>3. cachePc'[k] = step
    BY <1>1, <1>2, <2>1
  <2>4. \A t \in Threads : t # k => cachePc'[t] = cachePc[t]
            \/ (t \in Callers /\ cachePc[t] = "asleep" /\ cachePc'[t] = "awake")
    BY <1>2, <2>1
  <2>5. \A d \in Callers \ {k} : cachePc'[d] = cachePc[d] \/ (cachePc[d] = "asleep" /\ cachePc'[d] = "awake")
    BY <1>1, <2>4
  <2>6. \A l \in Kinds \ {k} : cachePc'[l] = cachePc[l]
    BY <1>1, <2>4
  <2> QED
    BY <2>2, <2>3, <2>5, <2>6 DEF Woken
<1> QED
  BY <1>4, <1>5

(* What a cleanup thread's steps have in common: it goes on to a step, with work to do,
   and has changed the pages ps. *)
Cleaning(k, step, w, ps) ==
    /\ cachePc' \in [Threads -> CallerSteps \cup CleanerSteps] /\ cachePc'[k] = step /\ Woken(k)
    /\ w \in Works /\ work' = [work EXCEPT ![k] = w] /\ job' = job /\ deleting' = deleting
    /\ page' \in [Pages -> PageState] /\ Typed(queue') /\ mDirtyLimit' \in Nat
    /\ Changed(ps) /\ NoDirt(k) /\ NotOthers(k, ps)

(* A cleanup thread's step keeps the invariant if the pages ps are right. *)
LEMMA CleaningKeeps ==
    ASSUME CacheInv, NEW k \in Kinds, NEW step \in CleanerSteps, NEW w, NEW ps,
           Cleaning(k, step, w, ps),
           wlock' \in [Files -> Threads \cup {None}], rlock' \in [Files -> SUBSET Callers],
           OthersLocks(k), ReadersAlone',
           step \in {"locking", "clean"} => w.file \in Files,
           step = "clean" => wlock'[w.file] = k,
           \A r \in Pages \cap ps : PageOK(r)'
    PROVE  CacheInv'
<1>1. TypeOK /\ k \notin Callers
  BY ThreadsAssumption DEF CacheInv
<1>2. /\ cachePc' \in [Threads -> CallerSteps \cup CleanerSteps] /\ cachePc'[k] = step /\ Woken(k)
      /\ w \in Works /\ work' = [work EXCEPT ![k] = w] /\ job' = job /\ deleting' = deleting
      /\ page' \in [Pages -> PageState] /\ Typed(queue') /\ mDirtyLimit' \in Nat
      /\ Changed(ps) /\ NoDirt(k) /\ NotOthers(k, ps)
  BY DEF Cleaning
<1>3. work' \in [Kinds -> Works] /\ work'[k] = w /\ OthersWork(k)
  BY <1>1, <1>2 DEF TypeOK, OthersWork
<1>4. TypeOK'
  BY <1>1, <1>2, <1>3 DEF TypeOK
<1>5. OthersJobs(k) /\ StillUsed(k, ps) /\ StillDeleted(ps)
  BY <1>1, <1>2 DEF OthersJobs, StillUsed, StillDeleted
<1>6. Frame(k, ps)
  BY <1>2, <1>3, <1>5 DEF Frame
<1>7. DeletesAlone'
  BY <1>2 DEF CacheInv, DeletesAlone
<1>8. CleanerOK(k)'
  BY <1>2, <1>3 DEF CleanerOK
<1> QED
  BY <1>4, <1>6, <1>7, <1>8, CombineCleaner

(* Steps that leave the locks alone *)
LEMMA LocksKept ==
    ASSUME CacheInv, wlock' = wlock, rlock' = rlock
    PROVE  /\ wlock' \in [Files -> Threads \cup {None}] /\ rlock' \in [Files -> SUBSET Callers]
           /\ ReadersAlone' /\ \A t : OthersLocks(t)
BY DEF CacheInv, TypeOK, ReadersAlone, OthersLocks

(* A cleanup thread's work is of its type, whichever part of it is assigned. *)
LEMMA WorkLemma ==
    ASSUME CacheInv, NEW k \in Kinds
    PROVE  /\ work[k] \in Works /\ work = [work EXCEPT ![k] = work[k]]
           /\ \A f \in Files \cup {None} : [work[k] EXCEPT !.file = f] \in Works
           /\ \A fs \in SUBSET Files : [work[k] EXCEPT !.files = fs] \in Works
           /\ \A q \in Queue : [work[k] EXCEPT !.pages = q] \in Works
           /\ NoWork \in Works
<1>1. work \in [Kinds -> Works]
  BY DEF CacheInv, TypeOK
<1>2. work[k] \in Works
  BY <1>1
<1>3. work = [work EXCEPT ![k] = work[k]]
  BY <1>1
<1>4. ASSUME NEW w \in Works
      PROVE  /\ \A f \in Files \cup {None} : [w EXCEPT !.file = f] \in Works
             /\ \A fs \in SUBSET Files : [w EXCEPT !.files = fs] \in Works
             /\ \A q \in Queue : [w EXCEPT !.pages = q] \in Works
  BY DEF Works
<1>5. NoWork \in Works
  <2>1. <<>> \in Queue
    BY DEF Queue
  <2> QED
    BY <2>1 DEF NoWork, Works
<1> QED
  BY <1>2, <1>3, <1>4, <1>5

(* steps that look for work, and that change no page, no queue and no lock *)
LEMMA ControlKeeps ==
    ASSUME CacheInv, NEW k \in Kinds,
           CheckLimit(k) \/ NextFile(k) \/ NextUnscoped(k) \/ AllFiles(k) \/ FileDone(k)
    PROVE  CacheInv'
<1>1. /\ page' = page /\ wlock' = wlock /\ rlock' = rlock /\ queue' = queue
      /\ mDirtyLimit' = mDirtyLimit /\ job' = job /\ deleting' = deleting
  BY DEF CheckLimit, NextFile, NextUnscoped, AllFiles, FileDone, pageVars, cacheVars
<1>2. page' \in [Pages -> PageState] /\ Typed(queue') /\ Changed({}) /\ NoDirt(k) /\ NotOthers(k, {})
  BY <1>1, NothingChanged
<1>3. mDirtyLimit' \in Nat /\ work \in [Kinds -> Works] /\ cachePc \in [Threads -> CallerSteps \cup CleanerSteps]
  BY <1>1 DEF CacheInv, TypeOK
<1>4. {"asleep", "check", "collect", "next", "locking", "clean", "unlock"} \subseteq CleanerSteps
  BY DEF CleanerSteps
<1>5. /\ wlock' \in [Files -> Threads \cup {None}] /\ rlock' \in [Files -> SUBSET Callers]
      /\ OthersLocks(k) /\ ReadersAlone'
  BY <1>1, LocksKept
<1>6. CASE CheckLimit(k)
  <2>1. work' = [work EXCEPT ![k] = work[k]] /\ work[k] \in Works
    BY <1>6, WorkLemma DEF CheckLimit
  <2>2. PICK step \in {"asleep", "collect"} :
            cachePc' = [cachePc EXCEPT ![k] = step] \/ cachePc' = NotifyWaiters([cachePc EXCEPT ![k] = step], {k})
    BY <1>6 DEF CheckLimit, Go
  <2>3. step \in CleanerSteps /\ step \notin {"locking", "clean"}
    BY <1>4
  <2>4. cachePc' \in [Threads -> CallerSteps \cup CleanerSteps] /\ cachePc'[k] = step /\ Woken(k)
    BY <2>2, <2>3, WakeLemma
  <2>5. Cleaning(k, step, work[k], {})
    BY <1>1, <1>2, <1>3, <2>1, <2>4 DEF Cleaning
  <2> QED
    BY <1>5, <2>3, <2>5, CleaningKeeps
<1>7. CASE NextFile(k)
  <2>1. PICK f \in work[k].files :
            /\ work' = [work EXCEPT ![k].file = f]
            /\ cachePc' = NotifyWaiters([cachePc EXCEPT ![k] = "locking"], Kinds)
    BY <1>7 DEF NextFile
  <2> DEFINE w == [work[k] EXCEPT !.file = f]
  <2>2. f \in Files
    BY <1>3 DEF Works
  <2>3. w \in Works /\ work' = [work EXCEPT ![k] = w] /\ w.file = f
    BY <1>3, <2>1, <2>2, WorkLemma DEF Works
  <2> HIDE DEF w
  <2>4. cachePc' \in [Threads -> CallerSteps \cup CleanerSteps] /\ cachePc'[k] = "locking" /\ Woken(k)
    BY <1>4, <2>1, WakeLemma
  <2>5. Cleaning(k, "locking", w, {})
    BY <1>1, <1>2, <1>3, <2>3, <2>4 DEF Cleaning
  <2> QED
    BY <1>4, <1>5, <2>2, <2>3, <2>5, CleaningKeeps
<1>8. CASE NextUnscoped(k)
  <2>1. work' = [work EXCEPT ![k] = work[k]] /\ work[k] \in Works
    BY <1>8, WorkLemma DEF NextUnscoped
  <2>2. cachePc' = cachePc /\ cachePc[k] = "next"
    BY <1>8 DEF NextUnscoped
  <2>3. cachePc' \in [Threads -> CallerSteps \cup CleanerSteps] /\ cachePc'[k] = "next" /\ Woken(k)
    BY <1>3, <2>2 DEF Woken
  <2>4. Cleaning(k, "next", work[k], {})
    BY <1>1, <1>2, <1>3, <2>1, <2>3 DEF Cleaning
  <2> QED
    BY <1>4, <1>5, <2>4, CleaningKeeps
<1>9. CASE AllFiles(k)
  <2>1. work' = [work EXCEPT ![k] = work[k]] /\ work[k] \in Works
    BY <1>9, WorkLemma DEF AllFiles
  <2>2. cachePc' = [cachePc EXCEPT ![k] = "check"]
    BY <1>9 DEF AllFiles, Go
  <2>3. cachePc' \in [Threads -> CallerSteps \cup CleanerSteps] /\ cachePc'[k] = "check" /\ Woken(k)
    BY <1>4, <2>2, WakeLemma
  <2>4. Cleaning(k, "check", work[k], {})
    BY <1>1, <1>2, <1>3, <2>1, <2>3 DEF Cleaning
  <2> QED
    BY <1>4, <1>5, <2>4, CleaningKeeps
<1>10. CASE FileDone(k)
  <2> DEFINE w == [work[k] EXCEPT !.files = @ \ {work[k].file}]
  <2>1. work[k].files \ {work[k].file} \in SUBSET Files
    BY <1>3 DEF Works
  <2>2. w \in Works
    BY <2>1, WorkLemma
  <2>3. work' = [work EXCEPT ![k] = w] /\ cachePc' = NotifyWaiters([cachePc EXCEPT ![k] = "unlock"], {k})
    BY <1>10 DEF FileDone
  <2> HIDE DEF w
  <2>4. cachePc' \in [Threads -> CallerSteps \cup CleanerSteps] /\ cachePc'[k] = "unlock" /\ Woken(k)
    BY <1>4, <2>3, WakeLemma
  <2>5. Cleaning(k, "unlock", w, {})
    BY <1>1, <1>2, <1>3, <2>2, <2>3, <2>4 DEF Cleaning
  <2> QED
    BY <1>4, <1>5, <2>5, CleaningKeeps
<1> QED
  BY <1>6, <1>7, <1>8, <1>9, <1>10

(* A file is locked for the cleanup thread. *)
LEMMA LockManagerKeeps ==
    ASSUME CacheInv, NEW k \in Kinds, LockManager(k)
    PROVE  CacheInv'
<1> DEFINE f == work[k].file
<1>1. /\ cachePc[k] = "locking" /\ wlock[f] = None /\ rlock[f] = {} /\ wlock' = [wlock EXCEPT ![f] = k]
      /\ cachePc' = [cachePc EXCEPT ![k] = "clean"] /\ page' = page /\ rlock' = rlock /\ queue' = queue
      /\ mDirtyLimit' = mDirtyLimit /\ job' = job /\ work' = work /\ deleting' = deleting
  BY DEF LockManager, Unlocked, Go
<1>2. TypeOK /\ CleanerOK(k) /\ ReadersAlone /\ k \in Threads
  BY DEF CacheInv, Threads
<1>3. f \in Files
  BY <1>1, <1>2 DEF CleanerOK
<1>4. page' \in [Pages -> PageState] /\ Typed(queue') /\ Changed({}) /\ NoDirt(k) /\ NotOthers(k, {})
  BY <1>1, NothingChanged
<1>5. "clean" \in CleanerSteps
  BY DEF CleanerSteps
<1>6. cachePc' \in [Threads -> CallerSteps \cup CleanerSteps] /\ cachePc'[k] = "clean" /\ Woken(k)
  BY <1>1, <1>5, WakeLemma
<1>7. work' = [work EXCEPT ![k] = work[k]] /\ work[k] \in Works
  BY <1>1, WorkLemma
<1>8. mDirtyLimit' \in Nat
  BY <1>1, <1>2 DEF TypeOK
<1>9. Cleaning(k, "clean", work[k], {})
  BY <1>1, <1>4, <1>6, <1>7, <1>8 DEF Cleaning
<1>10. wlock' \in [Files -> Threads \cup {None}] /\ rlock' \in [Files -> SUBSET Callers]
       /\ wlock'[f] = k
  BY <1>1, <1>2, <1>3 DEF TypeOK
<1>11. OthersLocks(k)
  BY <1>1, <1>2, <1>3, ThreadsAssumption DEF OthersLocks, TypeOK
<1>12. ReadersAlone'
  BY <1>1, <1>2, <1>3 DEF ReadersAlone, TypeOK
<1> QED
  BY <1>3, <1>5, <1>9, <1>10, <1>11, <1>12, CleaningKeeps

-----------------------------------------------------------------------------
(* The pages a cleanup thread still has to clean are of the file it has locked. *)
LEMMA LeftLemma ==
    ASSUME NEW q \in Queue, NEW ps
    PROVE  /\ Omitting(q, ps) \in Queue
           /\ \A i \in 1 .. Len(Omitting(q, ps)) : Omitting(q, ps)[i].page \notin ps
<1> DEFINE N == Len(q)
           g == Kept(q, ps)
           Holds(n) == g[n] \in Queue /\ \A i \in 1 .. Len(g[n]) : g[n][i].page \notin ps
           T == {n \in Nat : n <= N => Holds(n)}
<1>1. N \in Nat
  BY DEF Queue
<1>2. g[0] = <<>>
  BY KeptLemma
<1>3. \A n \in 1 .. N : g[n] = IF q[n].page \in ps THEN g[n - 1] ELSE Append(g[n - 1], q[n])
  BY KeptLemma
<1>4. \A n \in 1 .. N : q[n] \in Entries
  BY EntryFields
<1> HIDE DEF g, N
<1>5. Holds(0)
  BY <1>2 DEF Queue
<1>6. ASSUME NEW n \in Nat, n + 1 <= N, Holds(n) PROVE Holds(n + 1)
  <2>1. n + 1 \in 1 .. N /\ (n + 1) - 1 = n
    BY <1>1, <1>6
  <2>2. CASE q[n + 1].page \in ps
    <3>1. g[n + 1] = g[n]
      BY <1>3, <2>1, <2>2
    <3> QED
      BY <1>6, <3>1
  <2>3. CASE q[n + 1].page \notin ps
    <3> DEFINE e == q[n + 1]
               s == g[n]
               t == Append(s, e)
    <3>1. g[n + 1] = t /\ e \in Entries /\ s \in Queue
      BY <1>3, <1>4, <1>6, <2>1, <2>3
    <3>2. t \in Queue /\ \A i \in 1 .. Len(t) : (i \in 1 .. Len(s) /\ t[i] = s[i]) \/ t[i] = e
      <4> HIDE DEF e, s
      <4> QED
        BY <3>1 DEF Queue
    <3> HIDE DEF t
    <3>3. \A i \in 1 .. Len(t) : t[i].page \notin ps
      BY <1>6, <2>3, <3>2
    <3> QED
      BY <3>1, <3>2, <3>3
  <2> QED
    BY <2>2, <2>3
<1>7. 0 \in T
  BY <1>5
<1>8. \A n \in Nat : n \in T => n + 1 \in T
  <2> SUFFICES ASSUME NEW n \in Nat, n \in T, n + 1 <= N PROVE Holds(n + 1)
    OBVIOUS
  <2>1. n <= N
    BY <1>1
  <2> QED
    BY <1>6, <2>1
<1>9. N \in T
  <2> HIDE DEF T
  <2> QED
    BY <1>1, <1>7, <1>8, SetInduction
<1> QED
  BY <1>1, <1>9, OmittingIsKept DEF g, N

(* So the next page it has to clean is of a file that nobody else uses. *)
LEMMA MineLemma ==
    ASSUME CacheInv, NEW k \in Kinds, cachePc[k] = "clean", Mine(k) # <<>>
    PROVE  LET p == Head(Mine(k)).page
           IN  p \in Pages /\ File(p) = work[k].file /\ wlock[File(p)] = k /\ work[k].file \in Files
<1> DEFINE ps == {p \in Pages : File(p) # work[k].file}
           m == Omitting(work[k].pages, ps)
<1>1. work[k].pages \in Queue /\ CleanerOK(k)
  BY DEF CacheInv, TypeOK, Works
<1>2. m \in Queue /\ \A i \in 1 .. Len(m) : m[i].page \notin ps
  <2> HIDE DEF ps
  <2> QED
    BY <1>1, LeftLemma
<1>3. m = Mine(k)
  BY DEF Mine
<1> HIDE DEF m
<1>4. 1 \in 1 .. Len(m) /\ Head(m) = m[1]
  BY <1>2, <1>3 DEF Queue
<1>5. m[1].page \in Pages
  BY <1>2, <1>4, EntryFields
<1> QED
  BY <1>1, <1>2, <1>3, <1>4, <1>5 DEF CleanerOK

(* A page is evicted or flushed by a cleanup thread, *)
LEMMA CleanPageKeeps ==
    ASSUME CacheInv, NEW k \in Kinds, CleanPage(k)
    PROVE  CacheInv'
<1> DEFINE p == Head(Mine(k)).page
           ps == FilePages(p)
           w == [work[k] EXCEPT !.pages = Omitting(@, {p})]
<1>1. /\ cachePc[k] = "clean" /\ Mine(k) # <<>> /\ Clean(k, p) /\ work' = [work EXCEPT ![k] = w]
      /\ wlock' = wlock /\ rlock' = rlock /\ cachePc' = cachePc /\ job' = job /\ deleting' = deleting
  BY DEF CleanPage
<1>2. p \in Pages /\ File(p) = work[k].file /\ wlock[File(p)] = k /\ work[k].file \in Files
  BY <1>1, MineLemma
<1>3. TypeOK /\ CleanerOK(k) /\ work[k] \in Works
  BY DEF CacheInv, TypeOK
<1>4. w \in Works /\ w.file = work[k].file
  <2>1. work[k].pages \in Queue
    BY <1>3 DEF Works
  <2>2. Omitting(work[k].pages, {p}) \in Queue
    BY <2>1, LeftLemma
  <2>3. w.file = work[k].file
    BY <1>3 DEF Works
  <2> QED
    BY <2>2, <2>3, WorkLemma
<1> HIDE DEF w, p
<1>5. CleanEffect(p) /\ mDirtyLimit' \in Nat
  BY <1>1, <1>2, CleanLemma
<1>6. \A r \in Pages : PageOK(r)'
  BY <1>1, <1>2, <1>5, CleanedPagesOK
<1>7. /\ page' \in [Pages -> PageState] /\ Typed(queue') /\ Changed(ps) /\ NoDirt(k)
  <2>1. \A r \in Pages : Same(r) \/ page'[r].dirty = FALSE
    BY <1>5, AbsentLemma DEF CleanEffect, Flushed, Gone
  <2>2. NoDirt(k)
    BY <2>1 DEF NoDirt, Same
  <2> QED
    BY <1>5, <2>2 DEF CleanEffect, Changed
<1>8. NotOthers(k, ps)
  BY <1>2 DEF NotOthers, FilePages
<1>9. cachePc' \in [Threads -> CallerSteps \cup CleanerSteps] /\ cachePc'[k] = "clean" /\ Woken(k)
  BY <1>1, <1>3 DEF TypeOK, Woken
<1>10. Cleaning(k, "clean", w, ps)
  BY <1>1, <1>4, <1>5, <1>7, <1>8, <1>9 DEF Cleaning
<1>11. /\ wlock' \in [Files -> Threads \cup {None}] /\ rlock' \in [Files -> SUBSET Callers]
       /\ OthersLocks(k) /\ ReadersAlone'
  BY <1>1, LocksKept
<1>12. "clean" \in CleanerSteps /\ w.file \in Files /\ wlock'[w.file] = k
  BY <1>1, <1>2, <1>4 DEF CleanerSteps
<1> HIDE DEF ps
<1> QED
  BY <1>6, <1>10, <1>11, <1>12, CleaningKeeps

(* or is not, and goes to the front of the queues it is in. *)
LEMMA CleanFailsKeeps ==
    ASSUME CacheInv, NEW k \in Kinds, CleanFails(k)
    PROVE  CacheInv'
<1> DEFINE p == Head(Mine(k)).page
<1>1. /\ cachePc[k] = "clean" /\ Mine(k) # <<>> /\ page[p].dirty
      /\ queue' = queue \/ queue' = EnqueuePage(p, page[p].size, TRUE)
      /\ cachePc' = NotifyWaiters([cachePc EXCEPT ![k] = "check"], {k}) /\ Unlock(k)
      /\ work' = [work EXCEPT ![k] = NoWork]
      /\ page' = page /\ mDirtyLimit' = mDirtyLimit /\ job' = job /\ deleting' = deleting
  BY DEF CleanFails
<1>2. p \in Pages /\ wlock[File(p)] = k
  BY <1>1, MineLemma
<1>3. PICK x \in Pages : x = p
  BY <1>2
<1>4. TypeOK /\ PageOK(x) /\ k \in Threads /\ page[x] \in PageState /\ k \notin Callers
  BY ThreadsAssumption DEF CacheInv, TypeOK, Threads
<1> HIDE DEF p
<1>5. page[x].size \in 1 .. MaxPageSize
  <2>1. page[x].size # 0
    BY <1>1, <1>3, <1>4 DEF PageOK
  <2>2. page[x].size \in 0 .. MaxPageSize
    BY <1>4 DEF PageState
  <2> QED
    BY <2>1, <2>2, CacheSizesAssumption
<1>6. /\ Typed(queue') /\ EndsKept(queue, queue', {x}) /\ SameBut(queue, queue', {x})
      /\ PageOK(x)'
  <2>1. ~InUse(x)
    BY <1>2, <1>3, <1>4 DEF InUse
  <2>2. CASE queue' = queue
    <3>1. EndsKept(queue, queue', {x}) /\ SameBut(queue, queue', {x})
      BY <2>2, EndsKeptLemma DEF SameBut, SameIn
    <3>2. PageOK(x)'
      BY <1>1, <1>4, <2>1, <2>2 DEF PageOK, Exact
    <3> QED
      BY <1>4, <2>2, <3>1, <3>2 DEF TypeOK
  <2>3. CASE queue' = EnqueuePage(p, page[p].size, TRUE)
    <3> DEFINE size == page[x].size
    <3>1. queue' = EnqueuedIn(queue, x, size, TRUE)
      BY <1>3, <2>3 DEF EnqueuePage, EnqueuedIn
    <3>2. Typed(queue) /\ size \in 1 .. MaxPageSize
      BY <1>4, <1>5 DEF TypeOK
    <3>3. page'[x].size = size /\ size # 0
      BY <1>1, <1>5
    <3> HIDE DEF size
    <3>4. Enqueued(queue, queue', x, size, TRUE)
      BY <3>1, <3>2, EnqueueLemma
    <3>5. PageOK(x)'
      BY <3>3, <3>4 DEF PageOK, Exact, Enqueued
    <3> QED
      BY <3>4, <3>5 DEF Enqueued
  <2> QED
    BY <1>1, <2>2, <2>3
<1>7. /\ page' \in [Pages -> PageState] /\ Changed({x}) /\ NoDirt(k) /\ NotOthers(k, {x})
      /\ mDirtyLimit' \in Nat
  <2>1. \A r \in Pages : r \notin {x} => Same(r)
    BY <1>1, <1>6 DEF Same, SameBut
  <2>2. Changed({x})
    BY <1>6, <2>1 DEF Changed
  <2> QED
    BY <1>1, <1>2, <1>3, <1>4, <2>2 DEF TypeOK, NoDirt, NotOthers
<1>8. "check" \in CleanerSteps
  BY DEF CleanerSteps
<1>9. cachePc' \in [Threads -> CallerSteps \cup CleanerSteps] /\ cachePc'[k] = "check" /\ Woken(k)
  BY <1>1, <1>8, WakeLemma
<1>10. NoWork \in Works
  BY WorkLemma
<1>11. Cleaning(k, "check", NoWork, {x})
  BY <1>1, <1>6, <1>7, <1>9, <1>10 DEF Cleaning
<1>12. /\ wlock' \in [Files -> Threads \cup {None}] /\ rlock' \in [Files -> SUBSET Callers]
       /\ OthersLocks(k) /\ ReadersAlone'
  BY <1>1, <1>4, UnlockLemma
<1> QED
  BY <1>6, <1>8, <1>11, <1>12, CleaningKeeps

(* The file's lock is let go. *)
LEMMA UnlockManagerKeeps ==
    ASSUME CacheInv, NEW k \in Kinds, UnlockManager(k)
    PROVE  CacheInv'
<1> DEFINE w == [work[k] EXCEPT !.file = None]
<1>1. /\ cachePc' = [cachePc EXCEPT ![k] = "next"] /\ Unlock(k) /\ work' = [work EXCEPT ![k] = w]
      /\ page' = page /\ queue' = queue /\ mDirtyLimit' = mDirtyLimit
      /\ job' = job /\ deleting' = deleting
  BY DEF UnlockManager, Go, cacheVars
<1>2. page' \in [Pages -> PageState] /\ Typed(queue') /\ Changed({}) /\ NoDirt(k) /\ NotOthers(k, {})
  BY <1>1, NothingChanged
<1>3. w \in Works
  BY WorkLemma
<1> HIDE DEF w
<1>4. "next" \in CleanerSteps /\ k \in Threads /\ mDirtyLimit' \in Nat
  BY <1>1 DEF CleanerSteps, Threads, CacheInv, TypeOK
<1>5. cachePc' \in [Threads -> CallerSteps \cup CleanerSteps] /\ cachePc'[k] = "next" /\ Woken(k)
  BY <1>1, <1>4, WakeLemma
<1>6. Cleaning(k, "next", w, {})
  BY <1>1, <1>2, <1>3, <1>4, <1>5 DEF Cleaning
<1>7. /\ wlock' \in [Files -> Threads \cup {None}] /\ rlock' \in [Files -> SUBSET Callers]
      /\ OthersLocks(k) /\ ReadersAlone'
  BY <1>1, <1>4, UnlockLemma
<1> QED
  BY <1>4, <1>6, <1>7, CleaningKeeps

-----------------------------------------------------------------------------
(* Walk(): what it takes is in the queue, and what it erases is of a file that is being
   destructed. *)
WalkStart(k) == [at |-> Len(queue[k]), total |-> Total(queue[k]), cleaned |-> 0,
                 taken |-> <<>>, erased |-> {}]
WalkOn(k, s) ==
    LET e == queue[k][s.at]
    IN  IF s.at < 1 \/ ~Wanted(k, s) THEN s
        ELSE IF File(e.page) \in deleting
        THEN [s EXCEPT !.at = IF @ = 1 THEN 0 ELSE @ - 2, !.total = @ - e.size,
                       !.erased = @ \cup {e.page}]
        ELSE [s EXCEPT !.at = @ - 1, !.cleaned = @ + e.size, !.taken = Append(@, e)]
WalkSteps(k) == CHOOSE walk : walk =
    [n \in 0 .. Len(queue[k]) |-> IF n = 0 THEN WalkStart(k) ELSE WalkOn(k, walk[n - 1])]
Doomed == {p \in Pages : File(p) \in deleting}
Walks(N) == [at : 0 .. N, total : Int, cleaned : Int, taken : Queue, erased : SUBSET Doomed]

(* The states of the walk that Walk() is the last of *)
LEMMA WalkIsSteps ==
    ASSUME NEW k
    PROVE  Walk(k) = WalkSteps(k)[Len(queue[k])]
BY DEF Walk, WalkSteps, WalkStart, WalkOn

(* A step of the walk keeps its iterator in the queue. *)
LEMMA WalkOnType ==
    ASSUME NEW k, queue[k] \in Queue, NEW s \in Walks(Len(queue[k]))
    PROVE  WalkOn(k, s) \in Walks(Len(queue[k]))
<1> DEFINE N == Len(queue[k])
           e == queue[k][s.at]
           wanted == Wanted(k, s)
<1>1. N \in Nat
  BY DEF Queue
<1>2. s.at \in 0 .. N /\ s.total \in Int /\ s.cleaned \in Int /\ s.taken \in Queue
      /\ s.erased \in SUBSET Doomed
  BY DEF Walks
<1>3. CASE s.at < 1 \/ ~wanted
  BY <1>3 DEF WalkOn
<1>4. CASE ~(s.at < 1 \/ ~wanted)
  <2>1. s.at \in 1 .. N
    BY <1>1, <1>2, <1>4
  <2>2. e \in Entries /\ e.page \in Pages /\ e.size \in Nat
    BY <2>1, EntryFields
  <2> DEFINE on == IF File(e.page) \in deleting
                   THEN [s EXCEPT !.at = IF @ = 1 THEN 0 ELSE @ - 2, !.total = @ - e.size,
                                  !.erased = @ \cup {e.page}]
                   ELSE [s EXCEPT !.at = @ - 1, !.cleaned = @ + e.size, !.taken = Append(@, e)]
  <2>3. WalkOn(k, s) = on
    BY <1>4 DEF WalkOn
  <2> HIDE DEF N, e
  <2>4. (IF s.at = 1 THEN 0 ELSE s.at - 2) \in 0 .. N /\ s.at - 1 \in 0 .. N
    BY <1>1, <2>1
  <2>5. s.total - e.size \in Int /\ s.cleaned + e.size \in Int
    BY <1>2, <2>2
  <2>6. Append(s.taken, e) \in Queue
    BY <1>2, <2>2 DEF Queue
  <2>7. CASE File(e.page) \in deleting
    <3>1. s.erased \cup {e.page} \in SUBSET Doomed
      BY <1>2, <2>2, <2>7 DEF Doomed
    <3>2. on \in Walks(N)
      BY <2>4, <2>5, <2>7, <3>1 DEF Walks, N
    <3> QED
      BY <2>3, <3>2 DEF N
  <2>8. CASE File(e.page) \notin deleting
    <3>1. on \in Walks(N)
      BY <2>4, <2>5, <2>6, <2>8 DEF Walks, N
    <3> QED
      BY <2>3, <3>1 DEF N
  <2> QED
    BY <2>7, <2>8
<1> QED
  BY <1>3, <1>4

(* So all that it takes is queued, and all that it erases doomed. *)
LEMMA WalkLemma ==
    ASSUME CacheInv, NEW k \in Kinds
    PROVE  Walk(k).taken \in Queue /\ Walk(k).erased \subseteq Doomed
<1> DEFINE N == Len(queue[k])
           S == Walks(N)
           b == WalkStart(k)
           next == [n \in 1 .. N |-> [s \in S |-> WalkOn(k, s)]]
           g == WalkSteps(k)
<1>1. queue[k] \in Queue /\ N \in Nat
  BY DEF CacheInv, TypeOK, Typed, Queue
<1>2. b \in S
  <2>1. Total(queue[k]) \in Int /\ 0 \in Int /\ N \in 0 .. N
    BY <1>1, TotalType
  <2>2. <<>> \in Queue
    BY DEF Queue
  <2> QED
    BY <2>1, <2>2 DEF WalkStart, Walks
<1>3. \A s \in S : WalkOn(k, s) \in S
  BY <1>1, WalkOnType
<1> HIDE DEF S, N
<1>4. next \in StepFunctions(N, S)
  <2>1. next \in [1 .. N -> [S -> S]]
    BY <1>3
  <2> QED
    BY <2>1 DEF StepFunctions
<1>5. \A n \in 1 .. N, s \in S : next[n][s] = WalkOn(k, s)
  OBVIOUS
<1> HIDE DEF next, b
<1>6. PICK f : Iterates(f, N, S, b, next)
  BY <1>1, <1>2, <1>4, Recursion
<1>7. \A n \in 0 .. N : n # 0 => n \in 1 .. N /\ n - 1 \in 0 .. N
  BY <1>1
<1>8. ASSUME NEW n \in 0 .. N
      PROVE  f[n] = IF n = 0 THEN b ELSE WalkOn(k, f[n - 1])
  <2>1. CASE n = 0
    BY <1>6, <2>1 DEF Iterates
  <2>2. CASE n # 0
    <3>1. n \in 1 .. N /\ f[n - 1] \in S /\ f[n] = next[n][f[n - 1]]
      BY <1>6, <1>7, <2>2 DEF Iterates
    <3> QED
      BY <1>5, <2>2, <3>1
  <2> QED
    BY <2>1, <2>2
<1> DEFINE Good(w) == w = [n \in 0 .. N |-> IF n = 0 THEN b ELSE WalkOn(k, w[n - 1])]
<1>9. Good(f)
  BY <1>6, <1>8 DEF Iterates
<1>10. g = CHOOSE w : Good(w)
  BY DEF WalkSteps, N, b
<1>11. Good(g)
  <2> HIDE DEF Good
  <2> QED
    BY <1>9, <1>10
<1> HIDE DEF g
<1> DEFINE T == {n \in Nat : n <= N => g[n] \in S}
<1>12. 0 \in T
  <2>1. g[0] = b
    BY <1>1, <1>11
  <2> QED
    BY <1>2, <2>1 DEF b
<1>13. ASSUME NEW n \in Nat, n \in T PROVE n + 1 \in T
  <2> SUFFICES ASSUME n + 1 <= N PROVE g[n + 1] \in S
    OBVIOUS
  <2>1. n + 1 \in 0 .. N /\ n <= N /\ n + 1 # 0 /\ (n + 1) - 1 = n
    BY <1>1
  <2>2. g[n + 1] = WalkOn(k, g[n])
    BY <1>11, <2>1
  <2> QED
    BY <1>3, <1>13, <2>1, <2>2
<1>14. N \in T
  <2> HIDE DEF T
  <2>1. \A n \in Nat : n \in T => n + 1 \in T
    BY <1>13
  <2> QED
    BY <1>1, <1>12, <2>1, SetInduction
<1>15. Walk(k) \in S
  BY <1>1, <1>14, WalkIsSteps DEF g, N
<1> QED
  BY <1>15 DEF S, Walks

(* Entries are erased only of files that nobody writes. *)
LEMMA CollectKeeps ==
    ASSUME CacheInv, NEW k \in Kinds, Collect(k)
    PROVE  CacheInv'
<1> DEFINE s == Walk(k)
           ps == s.erased
           w == [NoWork EXCEPT !.files = {File(s.taken[i].page) : i \in DOMAIN s.taken},
                               !.pages = s.taken, !.unscoped = {File(p) : p \in s.erased}]
<1>1. /\ queue' = RemovePages(ps) /\ work' = [work EXCEPT ![k] = w]
      /\ cachePc' = [cachePc EXCEPT ![k] = "next"]
      /\ page' = page /\ wlock' = wlock /\ rlock' = rlock /\ mDirtyLimit' = mDirtyLimit
      /\ job' = job /\ deleting' = deleting
  BY DEF Collect, Go, pageVars
<1>2. TypeOK /\ DeletesAlone
  BY DEF CacheInv
<1>3. s.taken \in Queue /\ ps \subseteq Doomed
  BY WalkLemma
<1>4. w \in Works
  <2>1. {File(s.taken[i].page) : i \in DOMAIN s.taken} \in SUBSET Files
    <3> SUFFICES ASSUME NEW i \in DOMAIN s.taken PROVE File(s.taken[i].page) \in Files
      OBVIOUS
    <3>1. i \in 1 .. Len(s.taken)
      BY <1>3 DEF Queue
    <3>2. s.taken[i].page \in Pages
      BY <1>3, <3>1, EntryFields
    <3> QED
      BY <3>2 DEF Files
  <2>2. {File(p) : p \in ps} \in SUBSET Files
    BY <1>3 DEF Doomed, Files
  <2>3. ASSUME NEW fs \in SUBSET Files, NEW us \in SUBSET Files, NEW q \in Queue,
               NEW n \in Works
        PROVE  [n EXCEPT !.files = fs, !.pages = q, !.unscoped = us] \in Works
    BY DEF Works
  <2>4. NoWork \in Works
    BY WorkLemma
  <2> HIDE DEF s, NoWork
  <2> QED
    BY <1>3, <2>1, <2>2, <2>3, <2>4
<1> HIDE DEF w, s
<1>5. queue' = RemovedIn(queue, ps)
  BY <1>1 DEF RemovePages, RemovedIn
<1>6. /\ Typed(queue') /\ EndsKept(queue, queue', ps) /\ SameBut(queue, queue', ps)
      /\ \A r \in ps, l \in Kinds : SizeOf(queue'[l], r) = 0
  BY <1>2, <1>5, RemoveLemma DEF TypeOK
<1>7. \A r \in Pages \cap ps : PageOK(r)'
  BY <1>1, <1>3, <1>6 DEF CacheInv, PageOK, Doomed
<1>8. Changed(ps) /\ NoDirt(k)
  BY <1>1, <1>6 DEF Changed, Same, SameBut, NoDirt
<1>9. NotOthers(k, ps)
  <2> SUFFICES ASSUME NEW r \in ps, NEW d \in Callers, wlock[File(r)] = d PROVE FALSE
    BY DEF NotOthers
  <2>1. r \in Pages /\ File(r) \in deleting /\ File(r) \in Files
    BY <1>3 DEF Doomed, Files
  <2>2. PICK c \in Callers : job[c].op = "delete" /\ File(job[c].page) = File(r)
    BY <1>2, <2>1 DEF DeletesAlone
  <2>3. job[d].op \in Exclusive /\ File(job[d].page) = File(r)
    BY <2>1 DEF CacheInv, JobOK
  <2>4. job[d].op \notin {"none", "fetch", "delete"}
    BY <2>3 DEF Exclusive
  <2> QED
    BY <1>2, <2>2, <2>3, <2>4 DEF DeletesAlone
<1>10. "next" \in CleanerSteps
  BY DEF CleanerSteps
<1>11. cachePc' \in [Threads -> CallerSteps \cup CleanerSteps] /\ cachePc'[k] = "next" /\ Woken(k)
  BY <1>1, <1>10, WakeLemma
<1>12. Cleaning(k, "next", w, ps)
  BY <1>1, <1>2, <1>4, <1>6, <1>8, <1>9, <1>11 DEF Cleaning, TypeOK
<1>13. /\ wlock' \in [Files -> Threads \cup {None}] /\ rlock' \in [Files -> SUBSET Callers]
       /\ OthersLocks(k) /\ ReadersAlone'
  BY <1>1, LocksKept
<1> HIDE DEF ps
<1> QED
  BY <1>7, <1>10, <1>12, <1>13, CleaningKeeps

-----------------------------------------------------------------------------
(* The theorems *)
LEMMA InitHolds == CacheInit => CacheInv
<1> SUFFICES ASSUME CacheInit PROVE CacheInv
  OBVIOUS
<1>1. 0 \in 0 .. MaxPageSize /\ None \notin Threads /\ Callers \cap Kinds = {}
      /\ Callers \subseteq Threads /\ Kinds \subseteq Threads
  BY CacheSizesAssumption, ThreadsAssumption DEF Threads
<1>2. /\ \A p \in Pages : page[p] = Absent
      /\ \A f \in Files : wlock[f] = None /\ rlock[f] = {}
      /\ \A k \in Kinds : queue[k] = <<>> /\ cachePc[k] = "check"
      /\ \A c \in Callers : cachePc[c] = "idle" /\ job[c] = NoJob
      /\ deleting = {}
  BY <1>1 DEF CacheInit
<1>3. Absent \in PageState /\ Absent.size = 0 /\ Absent.dirty = FALSE
  BY AbsentLemma
<1>4. NoJob \in Jobs /\ NoJob.op = "none"
  BY <1>1, KindsLemma DEF NoJob, Jobs
<1>5. <<>> \in Queue /\ Distinct(<<>>)
  BY DEF Queue, Distinct
<1>6. NoWork \in Works
  BY <1>5 DEF NoWork, Works
<1>7. "idle" \in CallerSteps /\ "check" \in CleanerSteps /\ "idle" \notin MidSteps
  BY DEF CallerSteps, CleanerSteps, MidSteps
<1>8. TypeOK
  <2> HIDE DEF Absent, NoJob, NoWork
  <2>1. page \in [Pages -> PageState] /\ job \in [Callers -> Jobs] /\ work \in [Kinds -> Works]
    BY <1>3, <1>4, <1>6 DEF CacheInit
  <2>2. wlock \in [Files -> Threads \cup {None}] /\ rlock \in [Files -> SUBSET Callers]
    BY DEF CacheInit
  <2>3. Typed(queue)
    BY <1>5 DEF CacheInit, Typed
  <2>4. cachePc \in [Threads -> CallerSteps \cup CleanerSteps]
    BY <1>7 DEF CacheInit
  <2> QED
    BY <2>1, <2>2, <2>3, <2>4 DEF CacheInit, TypeOK
<1>9. ReadersAlone
  BY <1>2 DEF ReadersAlone
<1>10. DeletesAlone
  BY <1>2, <1>4 DEF DeletesAlone
<1>11. ASSUME NEW c \in Callers PROVE JobOK(c) /\ UsedOK(c)
  BY <1>1, <1>2, <1>4, <1>7 DEF JobOK, UsedOK, UsedFor
<1>12. ASSUME NEW k \in Kinds PROVE CleanerOK(k)
  BY <1>2, <1>7 DEF CleanerOK
<1>13. ASSUME NEW p \in Pages PROVE PageOK(p)
  <2>1. \A k \in Kinds : SizeOf(queue[k], p) = 0
    <3>1. \A i \in 1 .. Len(<<>>) : FALSE
      OBVIOUS
    <3> QED
      BY <1>2, <3>1, SizeOfNone
  <2> QED
    BY <1>2, <1>3, <2>1, KindsLemma DEF PageOK, Exact
<1> QED
  BY <1>8, <1>9, <1>10, <1>11, <1>12, <1>13 DEF CacheInv

(* A step that changes nothing *)
LEMMA StutterKeeps ==
    ASSUME CacheInv, UNCHANGED managerVars
    PROVE  CacheInv'
<1>1. page' = page /\ wlock' = wlock /\ rlock' = rlock /\ queue' = queue
      /\ mDirtyLimit' = mDirtyLimit /\ cachePc' = cachePc /\ job' = job /\ work' = work
      /\ deleting' = deleting
  BY DEF managerVars
<1>2. TypeOK' /\ ReadersAlone' /\ DeletesAlone'
  BY <1>1 DEF CacheInv, TypeOK, ReadersAlone, DeletesAlone
<1>3. \A c \in Callers : JobOK(c)' /\ UsedOK(c)'
  BY <1>1 DEF CacheInv, JobOK, UsedOK
<1>4. \A k \in Kinds : CleanerOK(k)'
  BY <1>1 DEF CacheInv, CleanerOK
<1>5. \A p \in Pages : PageOK(p)'
  BY <1>1 DEF CacheInv, PageOK, InUse, Exact
<1> QED
  BY <1>2, <1>3, <1>4, <1>5 DEF CacheInv

(* Every step keeps the invariant. *)
LEMMA NextKeeps ==
    ASSUME CacheInv, CacheNext
    PROVE  CacheInv'
<1>1. CASE \E c \in Callers : Begin(c) \/ CallerStep(c)
  <2>1. PICK c \in Callers : Begin(c) \/ CallerStep(c)
    BY <1>1
  <2>2. CASE Begin(c)
    BY <2>2, BeginKeeps
  <2>3. CASE CallerStep(c)
    <3>1. CASE Write(c) \/ ReadZero(c) \/ Read(c) \/ ResizePage(c) \/ Retest(c) \/ Wake(c)
      BY <3>1, WriteKeeps, ReadZeroKeeps, ReadKeeps, ResizeKeeps, WaitKeeps
    <3>2. CASE FetchPage(c) \/ Drop(c) \/ Sync(c) \/ Nothing(c) \/ Free(c) \/ Done(c) \/ Failed(c)
      BY <3>2, FetchKeeps, DropKeeps, SyncKeeps, NothingKeeps, FreeKeeps, DoneKeeps, FailedKeeps
    <3>3. CASE DeleteScope(c) \/ DeletePage(c) \/ Deleted(c)
      BY <3>3, DeleteScopeKeeps, DeletePageKeeps, DeletedKeeps
    <3> QED
      BY <2>3, <3>1, <3>2, <3>3 DEF CallerStep
  <2> QED
    BY <2>1, <2>2, <2>3
<1>2. CASE \E k \in Kinds : ThreadStep(k)
  <2>1. PICK k \in Kinds : ThreadStep(k)
    BY <1>2
  <2> QED
    BY <2>1, ControlKeeps, CollectKeeps, LockManagerKeeps, CleanPageKeeps, CleanFailsKeeps,
       UnlockManagerKeeps DEF ThreadStep
<1> QED
  BY <1>1, <1>2 DEF CacheNext

(* Each page's entries in the two queues are what the page is, or its writer is about to
   make it so (InformPage, ResizePage, and PageManager's catch blocks): in mPageQueue
   always, and in mDirtyQueue if no fetch thread runs ahead of its reader, and no write
   makes a dirty page larger. *)
THEOREM CacheInvariance == CacheSpec => []CacheInv
<1>1. CacheInit => CacheInv
  BY InitHolds
<1>2. CacheInv /\ [CacheNext]_managerVars => CacheInv'
  BY NextKeeps, StutterKeeps
<1> QED
  BY <1>1, <1>2, PTL DEF CacheSpec

(* What is in memory is in mPageQueue with the size it has, and what is not is in neither
   queue (EnqueuePage, ResizePage, RemovePage).  Files are looked at between their uses. *)
MemoryIsQueued == \A p \in Pages :
    /\ page[p].size = 0 => \A k \in Kinds : SizeIn(k, p) = 0
    /\ wlock[File(p)] = None /\ File(p) \notin deleting => SizeIn("evict", p) = page[p].size

(* So the sum mCurrentTotal that the limit is compared with is the memory in use, for any
   number of callers and pages, whichever writes and allocations fail, and however far
   threads run ahead: nothing is counted that is gone, nor is anything in memory that
   cannot be evicted (HandleMemory, DoPageEvictions). *)
THEOREM MemoryInvariance == CacheSpec => []MemoryIsQueued
<1>1. CacheInv => MemoryIsQueued
  BY InvUnused DEF MemoryIsQueued, SizeIn, Exact
<1> QED
  BY <1>1, CacheInvariance, PTL

(* With no fetch thread ahead of its reader, and no write that makes a dirty page larger,
   mDirtyQueue and mCurrentDirty are the dirty memory too. *)
THEOREM QueuesAreMemory ==
    ASSUME ~Ahead, ~GrowDirty
    PROVE  CacheSpec => []Tracked
<1>1. CacheSpec => []CacheInv
  BY CacheInvariance
<1>2. CacheInv => Tracked
  BY InvTracked DEF Strict
<1> QED
  BY <1>1, <1>2, PTL

=============================================================================
