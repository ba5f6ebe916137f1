------------------------- MODULE PageManagerProofs --------------------------
(***************************************************************************)
(* Proofs about PageManager for every number of readers, size of pages and  *)
(* of files: who fetches what, what a reader holds, and that the pages and  *)
(* the server together are the file.                                        *)
(***************************************************************************)
EXTENDS PageManager, NumberLemmas, SequenceTheorems, FunctionTheorems

-----------------------------------------------------------------------------
(* Fetching: each fetch thread has one pending range, what it has still to read,
   and no two ranges meet. *)
Fetchers == [index : Nat, count : Nat, cur : Nat, locked : BOOLEAN]
EndOfRange(f) == f.index + f.count
Remaining(f) == [first |-> f.cur, count |-> EndOfRange(f) - f.cur]
Apart(f, g) == EndOfRange(f) <= g.cur \/ EndOfRange(g) <= f.cur

FetchInv ==
    /\ fetchers \subseteq Fetchers
    /\ mPendingPages = {Remaining(f) : f \in fetchers}
    /\ \A f \in fetchers : f.index <= f.cur /\ f.cur < EndOfRange(f)
    /\ \A f, g \in fetchers : f # g => Apart(f, g)

LEMMA PendingIsFetched ==
    ASSUME FetchInv, NEW i \in Nat
    PROVE  isFetchPending(i) <=> \E f \in fetchers : f.cur <= i /\ i < EndOfRange(f)
<1>1. ASSUME NEW f \in fetchers
      PROVE  /\ Remaining(f) \in mPendingPages /\ f.cur \in Nat /\ EndOfRange(f) \in Nat
             /\ Remaining(f).first = f.cur
             /\ Remaining(f).first + Remaining(f).count = EndOfRange(f)
  <2>1. f \in Fetchers
    BY DEF FetchInv
  <2>2. f.cur \in Nat /\ EndOfRange(f) \in Nat
    BY <2>1 DEF Fetchers, EndOfRange
  <2>3. Remaining(f) \in mPendingPages
    BY DEF FetchInv
  <2> QED
    BY <2>2, <2>3 DEF Remaining
<1>2. ASSUME NEW p \in mPendingPages PROVE \E f \in fetchers : p = Remaining(f)
  BY DEF FetchInv
<1> QED
  BY <1>1, <1>2 DEF isFetchPending

(* a range that is fetched from now on meets none of those on their way *)
LEMMA StartFetchLemma ==
    ASSUME FetchInv, NEW i \in Nat, NEW n \in FetchSizes(i), StartFetch(i, n)
    PROVE  FetchInv'
<1> DEFINE new == [index |-> i, count |-> n, cur |-> i, locked |-> FALSE]
<1>1. n \in Nat \ {0} /\ \A j \in i .. i + n - 1 : ~isFetchPending(j)
  BY SizesAssumption DEF FetchSizes
<1>2. new \in Fetchers /\ new.cur = i /\ new.index = i /\ EndOfRange(new) = i + n
      /\ Remaining(new) = [first |-> i, count |-> n]
  BY <1>1 DEF Fetchers, EndOfRange, Remaining
<1>3. fetchers' = fetchers \cup {new}
      /\ mPendingPages' = mPendingPages \cup {[first |-> i, count |-> n]}
  BY DEF StartFetch
<1> HIDE DEF new
<1>4. ASSUME NEW f \in fetchers PROVE Apart(f, new)
  <2>1. f \in Fetchers /\ f.cur < EndOfRange(f)
    BY DEF FetchInv
  <2>2. f.cur \in Nat /\ EndOfRange(f) \in Nat
    BY <2>1 DEF Fetchers, EndOfRange
  <2>3. \A j \in i .. i + n - 1 : ~(f.cur <= j /\ j < EndOfRange(f))
    BY <1>1, PendingIsFetched
  <2>4. ~(f.cur <= i /\ i < EndOfRange(f))
    BY <1>1, <2>3
  <2>5. f.cur \notin i .. i + n - 1
    BY <2>1, <2>2, <2>3
  <2> QED
    BY <1>1, <1>2, <2>1, <2>2, <2>4, <2>5 DEF Apart
<1>5. \A f, g \in fetchers' : f # g => Apart(f, g)
  BY <1>3, <1>4 DEF FetchInv, Apart
<1>6. mPendingPages' = {Remaining(f) : f \in fetchers'}
  BY <1>2, <1>3 DEF FetchInv
<1>7. fetchers' \subseteq Fetchers /\ \A f \in fetchers' : f.index <= f.cur /\ f.cur < EndOfRange(f)
  BY <1>1, <1>2, <1>3 DEF FetchInv
<1> QED
  BY <1>5, <1>6, <1>7 DEF FetchInv

(* the range of a thread gets shorter, or goes away with it *)
LEMMA OwnRange ==
    ASSUME FetchInv, NEW f \in fetchers
    PROVE  /\ f \in Fetchers
           /\ f.cur \in Nat /\ EndOfRange(f) \in Nat /\ f.cur < EndOfRange(f)
           /\ {p \in mPendingPages : p.first = f.cur} = {Remaining(f)}
           /\ mPendingPages \ {Remaining(f)} = {Remaining(g) : g \in fetchers \ {f}}
           /\ \A g \in fetchers \ {f} : Apart(f, g) /\ g.cur # f.cur
<1>1. \A g \in fetchers : /\ g \in Fetchers /\ g.cur \in Nat /\ EndOfRange(g) \in Nat
                          /\ g.cur < EndOfRange(g)
  BY DEF FetchInv, Fetchers, EndOfRange
<1>2. \A g \in fetchers \ {f} : Apart(f, g) /\ g.cur # f.cur
  BY <1>1 DEF FetchInv, Apart
<1>3. \A g \in fetchers : Remaining(g).first = g.cur
  BY DEF Remaining
<1>4. \A g \in fetchers \ {f} : Remaining(g) # Remaining(f)
  BY <1>2, <1>3
<1>5. mPendingPages = {Remaining(g) : g \in fetchers}
  BY DEF FetchInv
<1>6. {p \in mPendingPages : p.first = f.cur} = {Remaining(f)}
  BY <1>2, <1>3, <1>5
<1>7. mPendingPages \ {Remaining(f)} = {Remaining(g) : g \in fetchers \ {f}}
  BY <1>4, <1>5
<1> QED
  BY <1>1, <1>2, <1>6, <1>7

(* a fetch thread replaced by what it is after its step *)
LEMMA ReplaceFetcher ==
    ASSUME FetchInv, NEW f \in fetchers, NEW g \in Fetchers,
           f.cur <= g.cur, EndOfRange(g) = EndOfRange(f), g.index <= g.cur, g.cur < EndOfRange(g),
           fetchers' = (fetchers \ {f}) \cup {g},
           mPendingPages' = (mPendingPages \ {Remaining(f)}) \cup {Remaining(g)}
    PROVE  FetchInv'
<1>1. ASSUME NEW h \in fetchers \ {f} PROVE Apart(h, g) /\ Apart(g, h)
  <2>1. h \in Fetchers /\ Apart(f, h)
    BY OwnRange DEF FetchInv
  <2>2. h.cur \in Nat /\ EndOfRange(h) \in Nat /\ g.cur \in Nat /\ f.cur \in Nat /\ EndOfRange(f) \in Nat
    BY <2>1, OwnRange DEF Fetchers, EndOfRange
  <2> QED
    BY <2>1, <2>2 DEF Apart
<1>2. \A h, k \in fetchers' : h # k => Apart(h, k)
  BY <1>1 DEF FetchInv
<1>3. mPendingPages' = {Remaining(h) : h \in fetchers'}
  BY OwnRange
<1>4. fetchers' \subseteq Fetchers /\ \A h \in fetchers' : h.index <= h.cur /\ h.cur < EndOfRange(h)
  BY DEF FetchInv
<1> QED
  BY <1>2, <1>3, <1>4 DEF FetchInv

LEMMA RemoveFetcher ==
    ASSUME FetchInv, NEW f \in fetchers, fetchers' = fetchers \ {f},
           mPendingPages' = mPendingPages \ {Remaining(f)}
    PROVE  FetchInv'
BY OwnRange DEF FetchInv

LEMMA PendingAfterLemma ==
    ASSUME FetchInv, NEW f \in fetchers
    PROVE  /\ PendingAfter(f.cur, FALSE) = mPendingPages \ {Remaining(f)}
           /\ EndOfRange(f) = f.cur + 1 =>
                 PendingAfter(f.cur, TRUE) = mPendingPages \ {Remaining(f)}
           /\ EndOfRange(f) > f.cur + 1 =>
                 PendingAfter(f.cur, TRUE) = (mPendingPages \ {Remaining(f)})
                     \cup {[first |-> f.cur + 1, count |-> EndOfRange(f) - (f.cur + 1)]}
<1> DEFINE mine == {p \in mPendingPages : p.first = f.cur}
           rest(idxOnly) == {[first |-> f.cur + 1, count |-> p.count - 1] :
                             p \in {q \in mine : idxOnly /\ q.count > 1}}
<1>1. f.cur \in Nat /\ EndOfRange(f) \in Nat /\ f.cur < EndOfRange(f) /\ mine = {Remaining(f)}
  BY OwnRange
<1>2. Remaining(f).count = EndOfRange(f) - f.cur
  BY DEF Remaining
<1>3. \A b \in BOOLEAN : PendingAfter(f.cur, b) = (mPendingPages \ mine) \cup rest(b)
  BY DEF PendingAfter
<1> HIDE DEF mine
<1>4. rest(FALSE) = {}
  OBVIOUS
<1>5. EndOfRange(f) = f.cur + 1 => rest(TRUE) = {}
  BY <1>1, <1>2
<1>6. EndOfRange(f) > f.cur + 1 =>
         rest(TRUE) = {[first |-> f.cur + 1, count |-> EndOfRange(f) - (f.cur + 1)]}
  BY <1>1, <1>2
<1> QED
  BY <1>1, <1>3, <1>4, <1>5, <1>6

LEMMA FetchStartKeeps ==
    ASSUME FetchInv, NEW f \in fetchers, FetchStart(f)
    PROVE  FetchInv'
<1>1. CASE UNCHANGED fetchers
  BY <1>1 DEF FetchStart, FetchInv
<1>2. CASE fetchers' = (fetchers \ {f}) \cup {[f EXCEPT !.locked = TRUE]}
  <2> DEFINE g == [f EXCEPT !.locked = TRUE]
  <2>1. f \in Fetchers /\ f.index <= f.cur /\ f.cur < EndOfRange(f)
    BY DEF FetchInv
  <2>2. g \in Fetchers /\ g.cur = f.cur /\ g.index = f.index /\ EndOfRange(g) = EndOfRange(f)
        /\ Remaining(g) = Remaining(f)
    BY <2>1 DEF Fetchers, EndOfRange, Remaining
  <2>3. f.cur <= g.cur
    BY <2>1, <2>2 DEF Fetchers
  <2>4. Remaining(f) \in mPendingPages /\ mPendingPages' = mPendingPages
    BY DEF FetchInv, FetchStart
  <2> HIDE DEF g
  <2>5. fetchers' = (fetchers \ {f}) \cup {g}
    BY <1>2 DEF g
  <2> QED
    BY <2>1, <2>2, <2>3, <2>4, <2>5, ReplaceFetcher
<1> QED
  BY <1>1, <1>2 DEF FetchStart

LEMMA FetchNextKeeps ==
    ASSUME FetchInv, NEW f \in fetchers, FetchNext(f)
    PROVE  FetchInv'
<1>1. /\ f \in Fetchers /\ f.index <= f.cur /\ f.cur < EndOfRange(f) /\ f.cur \in Nat
      /\ EndOfRange(f) \in Nat /\ f.index \in Nat
  BY OwnRange DEF FetchInv, Fetchers
<1>2. /\ mPendingPages' = PendingAfter(f.cur, TRUE)
      /\ fetchers' = (fetchers \ {f}) \cup
             (IF f.cur + 1 < EndOfRange(f) THEN {[f EXCEPT !.cur = f.cur + 1]} ELSE {})
  BY DEF FetchNext, EndOfRange
<1>3. CASE f.cur + 1 < EndOfRange(f)
  <2> DEFINE g == [f EXCEPT !.cur = f.cur + 1]
  <2>1. g \in Fetchers /\ g.cur = f.cur + 1 /\ g.index = f.index /\ EndOfRange(g) = EndOfRange(f)
        /\ Remaining(g) = [first |-> f.cur + 1, count |-> EndOfRange(f) - (f.cur + 1)]
    BY <1>1 DEF Fetchers, EndOfRange, Remaining
  <2>2. fetchers' = (fetchers \ {f}) \cup {g}
    BY <1>2, <1>3
  <2> HIDE DEF g
  <2>3. mPendingPages' = (mPendingPages \ {Remaining(f)}) \cup {Remaining(g)}
    BY <1>1, <1>2, <1>3, <2>1, PendingAfterLemma
  <2>4. f.cur <= g.cur /\ g.index <= g.cur /\ g.cur < EndOfRange(g)
    BY <1>1, <1>3, <2>1
  <2> QED
    BY <2>1, <2>2, <2>3, <2>4, ReplaceFetcher
<1>4. CASE ~(f.cur + 1 < EndOfRange(f))
  <2>1. EndOfRange(f) = f.cur + 1
    BY <1>1, <1>4
  <2> QED
    BY <1>2, <1>4, <2>1, PendingAfterLemma, RemoveFetcher
<1> QED
  BY <1>3, <1>4

LEMMA FetchFailsKeeps ==
    ASSUME FetchInv, NEW f \in fetchers, FetchFails(f)
    PROVE  FetchInv'
BY PendingAfterLemma, RemoveFetcher DEF FetchFails

LEMMA GetPageReadKeeps ==
    ASSUME FetchInv, NEW r \in Readers, GetPageRead(r)
    PROVE  FetchInv'
<1>1. PICK i \in Indexes : GetPageRead(r)!(i)
  BY DEF GetPageRead
<1>2. i \in Nat
  BY DEF Indexes
<1>3. \/ UNCHANGED fetchVars
      \/ AdvanceRead(i)
      \/ \E n \in FetchSizes(i) : StartFetch(i, n)
  BY <1>1
<1>4. ASSUME UNCHANGED fetchVars PROVE FetchInv'
  BY <1>4 DEF fetchVars, FetchInv
<1>5. ASSUME AdvanceRead(i) PROVE FetchInv'
  <2>1. UNCHANGED fetchVars \/ \E j \in Nat : \E n \in FetchSizes(j) : StartFetch(j, n)
    BY <1>2, <1>5, SizesAssumption DEF AdvanceRead
  <2> QED
    BY <1>4, <2>1, StartFetchLemma
<1> QED
  BY <1>2, <1>3, <1>4, <1>5, StartFetchLemma

(* Whoever changes or drops pages has the file's lock for itself. *)
LEMMA Exclusive ==
    ASSUME Next
    PROVE  \/ \E r \in Readers : GetPageRead(r) \/ Waited(r) \/ Copy(r)
           \/ \E f \in fetchers : Fetch(f)
           \/ WriterWaits
           \/ WriteLocked
BY DEF Next, WriterFails, WritePage, WriteOutOfMemory, Truncate, EvictPage, FlushPage, FlushPages,
       FlushLost, RemoteChanged

(* What a reader copies from is in memory. *)
ReadInv ==
    /\ pc \in [Readers -> {"idle", "wait", "copy"}]
    /\ want \in [Readers -> Indexes]
    /\ PageHeld

LEMMA GetPageReadHolds ==
    ASSUME ReadInv, NEW r \in Readers, GetPageRead(r)
    PROVE  ReadInv'
<1>1. PICK i \in Indexes : GetPageRead(r)!(i)
  BY DEF GetPageRead
<1>2. /\ want' = [want EXCEPT ![r] = i]
      /\ pc' = [pc EXCEPT ![r] = "wait"] \/ pc' = [pc EXCEPT ![r] = "copy"]
      /\ DOMAIN mPages \subseteq DOMAIN mPages'
      /\ pc' = [pc EXCEPT ![r] = "wait"] \/ i \in DOMAIN mPages'
  BY <1>1 DEF SetPage
<1>3. pc' \in [Readers -> {"idle", "wait", "copy"}] /\ want' \in [Readers -> Indexes]
  BY <1>2 DEF ReadInv
<1>4. ASSUME NEW u \in Readers, pc'[u] = "copy" PROVE want'[u] \in DOMAIN mPages'
  <2>1. CASE u = r
    BY <1>2, <1>4, <2>1 DEF ReadInv
  <2>2. CASE u # r
    BY <1>2, <1>4, <2>2 DEF ReadInv, PageHeld
  <2> QED
    BY <2>1, <2>2
<1> QED
  BY <1>3, <1>4 DEF ReadInv, PageHeld

LEMMA NextKeeps ==
    ASSUME FetchInv, ReadInv, [Next]_vars
    PROVE  FetchInv' /\ ReadInv'
<1>1. CASE UNCHANGED vars
  BY <1>1 DEF vars, FetchInv, ReadInv, PageHeld
<1>2. ASSUME NEW r \in Readers, GetPageRead(r) PROVE FetchInv' /\ ReadInv'
  BY <1>2, GetPageReadKeeps, GetPageReadHolds
<1>3. ASSUME NEW r \in Readers, Waited(r) \/ Copy(r) PROVE FetchInv' /\ ReadInv'
  <2>1. FetchInv'
    BY <1>3 DEF Waited, Copy, fetchVars, FetchInv
  <2>2. ReadInv'
    BY <1>3 DEF Waited, Copy, ReadInv, PageHeld
  <2> QED
    BY <2>1, <2>2
<1>4. ASSUME NEW f \in fetchers, Fetch(f) PROVE FetchInv' /\ ReadInv'
  <2>1. FetchInv'
    BY <1>4, FetchStartKeeps, FetchNextKeeps, FetchFailsKeeps DEF Fetch
  <2>2. UNCHANGED readVars /\ DOMAIN mPages \subseteq DOMAIN mPages'
    BY <1>4 DEF Fetch, FetchStart, FetchNext, FetchFails, SetPage
  <2>3. ReadInv'
    BY <2>2 DEF readVars, ReadInv, PageHeld
  <2> QED
    BY <2>1, <2>3
<1>5. CASE WriterWaits
  BY <1>5 DEF WriterWaits, fetchVars, readVars, FetchInv, ReadInv, PageHeld
<1>6. CASE WriteLocked
  <2>1. FetchInv'
    BY <1>6 DEF WriteLocked, fetchVars, FetchInv
  <2>2. ReadInv'
    BY <1>6 DEF WriteLocked, readVars, ReadInv, PageHeld
  <2> QED
    BY <2>1, <2>2
<1> QED
  BY <1>1, <1>2, <1>3, <1>4, <1>5, <1>6, Exclusive

LEMMA PageIndex ==
    ASSUME NEW k \in Nat \ {0}
    PROVE  /\ PageOf(k) \in Nat /\ Start(PageOf(k)) \in Nat
           /\ Start(PageOf(k)) < k /\ k <= Start(PageOf(k)) + PageSize
BY SizesAssumption, Quotient DEF PageOf, Start

LEMMA InitKeeps == Init => FetchInv /\ ReadInv
<1> SUFFICES ASSUME Init PROVE FetchInv /\ ReadInv
  OBVIOUS
<1>1. FetchInv
  BY DEF Init, FetchInv
<1>2. 0 \in Indexes
  BY SizesAssumption, PageIndex DEF Indexes, LastPage
<1> QED
  BY <1>1, <1>2 DEF Init, ReadInv, PageHeld

(* A page is pending exactly while a thread is to fetch it, whatever fails, for any
   number of readers, pages and faults. *)
THEOREM FetchesServed == Spec => []PendingServed
<1>1. FetchInv => PendingServed
  <2>1. Indexes \subseteq Nat
    BY DEF Indexes
  <2> QED
    BY <2>1, PendingIsFetched DEF PendingServed, EndOfRange
<1> QED
  BY <1>1, InitKeeps, NextKeeps, PTL DEF Spec

(* The page a reader copies from stays in memory until it is done, whoever evicts,
   flushes and truncates meanwhile. *)
THEOREM PagesAreHeld == Spec => []PageHeld
<1>1. ReadInv => PageHeld
  BY DEF ReadInv
<1> QED
  BY <1>1, InitKeeps, NextKeeps, PTL DEF Spec
-----------------------------------------------------------------------------
(* Pages and bytes. *)
LEMMA StartLemma ==
    ASSUME NEW i \in Nat, NEW j \in Nat
    PROVE  /\ Start(i) \in Nat /\ Start(i + 1) = Start(i) + PageSize
           /\ i < j => Start(i) + PageSize <= Start(j)
BY SizesAssumption, Multiples DEF Start

LEMMA PageUnique ==
    ASSUME NEW i \in Nat, NEW k \in Nat, Start(i) < k, k <= Start(i) + PageSize
    PROVE  PageOf(k) = i
<1> DEFINE j == PageOf(k)
<1>1. j \in Nat /\ Start(j) < k /\ k <= Start(j) + PageSize /\ Start(j) \in Nat /\ Start(i) \in Nat
  BY PageIndex, StartLemma
<1>2. (i < j => Start(i) + PageSize <= Start(j)) /\ (j < i => Start(j) + PageSize <= Start(i))
  BY <1>1, StartLemma
<1> HIDE DEF j
<1>3. ~(i < j) /\ ~(j < i)
  BY <1>1, <1>2, SizesAssumption
<1>4. i = j
  BY <1>1, <1>3
<1> QED
  BY <1>4 DEF j

Bytes == Seq(Nat)

LEMMA ResizeLemma ==
    ASSUME NEW d \in Bytes, NEW n \in Nat
    PROVE  /\ Resize(d, n) \in Bytes /\ Len(Resize(d, n)) = n
           /\ \A k \in 1 .. n : Resize(d, n)[k] = IF k <= Len(d) THEN d[k] ELSE 0
<1> DEFINE e(k) == IF k <= Len(d) THEN d[k] ELSE 0
<1>1. \A k \in 1 .. n : e(k) \in Nat
  BY DEF Bytes
<1>2. Resize(d, n) = [k \in 1 .. n |-> e(k)]
  BY DEF Resize
<1> HIDE DEF e
<1>3. [k \in 1 .. n |-> e(k)] \in Bytes
  BY <1>1, IsASeq DEF Bytes
<1>4. Len([k \in 1 .. n |-> e(k)]) = n
  BY <1>3, LenProperties DEF Bytes
<1> QED
  BY <1>2, <1>3, <1>4 DEF e

LEMMA WriteAtLemma ==
    ASSUME NEW old \in Bytes, NEW start \in Nat, NEW data \in Bytes
    PROVE  /\ WriteAt(old, start, data) \in Bytes
           /\ Len(WriteAt(old, start, data)) = Larger(Len(old), start + Len(data))
           /\ \A k \in 1 .. Larger(Len(old), start + Len(data)) :
                 WriteAt(old, start, data)[k] =
                    IF k > start /\ k <= start + Len(data) THEN data[k - start]
                    ELSE IF k <= Len(old) THEN old[k] ELSE 0
<1> DEFINE n == Larger(Len(old), start + Len(data))
           e(k) == IF k > start /\ k <= start + Len(data) THEN data[k - start]
                   ELSE IF k <= Len(old) THEN old[k] ELSE 0
<1>1. n \in Nat
  BY DEF Bytes, Larger
<1>2. ASSUME NEW k \in 1 .. n PROVE e(k) \in Nat
  <2>1. CASE k > start /\ k <= start + Len(data)
    <3>1. k - start \in 1 .. Len(data)
      BY <2>1, <1>1 DEF Bytes
    <3> QED
      BY <2>1, <3>1 DEF Bytes
  <2>2. CASE ~(k > start /\ k <= start + Len(data))
    BY <1>1, <2>2 DEF Bytes
  <2> QED
    BY <2>1, <2>2
<1>3. WriteAt(old, start, data) = [k \in 1 .. n |-> e(k)]
  BY DEF WriteAt
<1> HIDE DEF e, n
<1>4. [k \in 1 .. n |-> e(k)] \in Bytes
  BY <1>1, <1>2, IsASeq DEF Bytes
<1>5. Len([k \in 1 .. n |-> e(k)]) = n
  BY <1>1, <1>4, LenProperties DEF Bytes
<1> QED
  BY <1>3, <1>4, <1>5 DEF e, n

LEMMA SubSeqLemma ==
    ASSUME NEW d \in Bytes, NEW a \in Nat, NEW b \in Nat, a <= b, b <= Len(d)
    PROVE  /\ SubSeq(d, a + 1, b) \in Bytes /\ Len(SubSeq(d, a + 1, b)) = b - a
           /\ \A k \in 1 .. b - a : SubSeq(d, a + 1, b)[k] = d[a + k]
<1>1. \A k \in a + 1 .. b : d[k] \in Nat
  BY DEF Bytes
<1> QED
  BY <1>1 DEF Bytes

-----------------------------------------------------------------------------
(* Pages and server together are the content c: what a page has beyond the file is
   zeros, what no dirty page has is at the server, up to what the server has, and an
   end of the file that the server does not have is in a dirty page. *)
PageLen(size, i) == Smaller(size - Start(i), PageSize)
Byte(c, k) == IF k <= Len(c) THEN c[k] ELSE 0
Stored(s, k) == IF k <= s.size THEN s.server[k] ELSE 0

PageOK(c, page, i) ==
    /\ i \in Nat
    /\ Start(i) < Len(c)
    /\ page \in [data : Bytes, dirty : BOOLEAN]
    /\ PageLen(Len(c), i) <= Len(page.data) /\ Len(page.data) <= PageSize
    /\ page.dirty => Len(page.data) = PageLen(Len(c), i)
    /\ \A n \in 1 .. Len(page.data) : page.data[n] = Byte(c, Start(i) + n)

IsState(s) ==
    /\ s = [pages |-> s.pages, server |-> s.server, exists |-> s.exists, size |-> s.size]
    /\ s.server \in Bytes /\ s.exists \in BOOLEAN /\ s.size \in Nat
ServerOK(c, s) ==
    /\ IsState(s)
    /\ s.size <= Len(c) /\ Len(s.server) = s.size
    /\ ~s.exists => s.size = 0
    /\ \A k \in 1 .. Len(c) : PageOf(k) \notin DirtyPages(s.pages) => c[k] = Stored(s, k)
PagesOK(c, s) == \A i \in DOMAIN s.pages : PageOK(c, s.pages[i], i)
EndIsKnown(c, s) == s.exists /\ s.size < Len(c) => LastPage(Len(c)) \in DirtyPages(s.pages)
Good(c, s) == PagesOK(c, s) /\ ServerOK(c, s) /\ EndIsKnown(c, s)

(* The page that holds the last byte. *)
LEMMA LastPageLemma ==
    ASSUME NEW n \in Nat \ {0}, NEW i \in Nat, Start(i) < n
    PROVE  /\ LastPage(n) \in Nat /\ i <= LastPage(n)
           /\ i < LastPage(n) <=> Start(i) + PageSize < n
           /\ i = LastPage(n) <=> PageLen(n, i) = n - Start(i)
           /\ i # LastPage(n) => PageLen(n, i) = PageSize
<1> DEFINE l == PageOf(n)
<1>1. l \in Nat /\ Start(l) < n /\ n <= Start(l) + PageSize /\ Start(l) \in Nat /\ Start(i) \in Nat
  BY PageIndex, StartLemma
<1>2. (i < l => Start(i) + PageSize <= Start(l)) /\ (l < i => Start(l) + PageSize <= Start(i))
  BY <1>1, StartLemma
<1> HIDE DEF l
<1>3. i <= l
  BY <1>1, <1>2, SizesAssumption
<1>4. i < l => Start(i) + PageSize < n
  BY <1>1, <1>2, SizesAssumption
<1>5. i = l => n <= Start(i) + PageSize
  BY <1>1
<1>6. PageLen(n, i) = IF n - Start(i) < PageSize THEN n - Start(i) ELSE PageSize
  BY DEF PageLen, Smaller
<1>7. (i < l <=> Start(i) + PageSize < n) /\ (i = l <=> PageLen(n, i) = n - Start(i))
      /\ (i # l => PageLen(n, i) = PageSize)
  BY <1>1, <1>3, <1>4, <1>5, <1>6, SizesAssumption
<1> QED
  BY <1>1, <1>3, <1>7 DEF l, LastPage

(* GetWriteList() makes a run without gaps, all of whose pages but the last are full. *)
IsRun(c, s, i, m) ==
    /\ i \in Nat /\ m \in Nat /\ i <= m
    /\ WriteList(s, i) = i .. m /\ i .. m \subseteq DirtyPages(s.pages)
    /\ \A j \in i .. m : Len(s.pages[j].data) = PageLen(Len(c), j) /\ Start(j) < Len(c)
    /\ \A j \in i .. m - 1 : PageLen(Len(c), j) = PageSize

LEMMA RunShape ==
    ASSUME NEW c \in Bytes, NEW s, PagesOK(c, s), NEW i \in DirtyPages(s.pages)
    PROVE  \E m : IsRun(c, s, i, m)
<1> DEFINE run == WriteList(s, i)
           dirty == DirtyPages(s.pages)
<1>1. /\ \A j \in dirty : /\ j \in Nat /\ Start(j) < Len(c)
                          /\ Len(s.pages[j].data) = PageLen(Len(c), j)
      /\ Len(c) \in Nat
  BY DEF PagesOK, PageOK, DirtyPages, Bytes
<1>2. run = {j \in dirty : i .. j \subseteq dirty /\ i <= j}
  BY DEF WriteList
<1> HIDE DEF dirty, run
<1>3. i \in dirty /\ i \in Nat /\ i .. i = {i}
  BY <1>1 DEF dirty
<1>4. i \in run /\ run \subseteq Nat
  BY <1>1, <1>2, <1>3
<1>5. ASSUME NEW j \in run PROVE j <= Len(c)
  <2>1. j \in Nat /\ Start(j) < Len(c) /\ Len(c) \in Nat \ {0}
    BY <1>1, <1>2, StartLemma
  <2>2. j <= LastPage(Len(c)) /\ LastPage(Len(c)) \in Nat
    BY <2>1, LastPageLemma
  <2>3. \A p \in Nat : p <= Start(p)
    BY SizesAssumption DEF Start
  <2> QED
    BY <2>1, <2>3, StartLemma
<1>6. PICK m \in run : \A j \in run : j <= m
  BY <1>1, <1>4, <1>5, LargestElement
<1>7. m \in Nat /\ i <= m /\ i .. m \subseteq dirty
  BY <1>2, <1>4, <1>6
<1>8. ASSUME NEW j \in i .. m PROVE j \in run
  <2>1. j \in dirty /\ i .. j \subseteq i .. m
    BY <1>3, <1>7
  <2> QED
    BY <1>2, <1>3, <1>7, <2>1
<1>9. run = i .. m
  <2>1. ASSUME NEW j \in run PROVE j \in i .. m
    <3>1. i <= j /\ j <= m /\ j \in Nat
      BY <1>2, <1>4, <1>6
    <3> QED
      BY <1>3, <1>7, <3>1
  <2> QED
    BY <1>8, <2>1
<1>10. ASSUME NEW j \in i .. m - 1 PROVE PageLen(Len(c), j) = PageSize
  <2>1. j \in Nat /\ j + 1 \in i .. m /\ j \in i .. m
    BY <1>3, <1>7
  <2>2. Start(j + 1) < Len(c) /\ Start(j) < Len(c)
    BY <1>1, <1>7, <2>1
  <2>3. Start(j + 1) = Start(j) + PageSize /\ Start(j) \in Nat
    BY <2>1, StartLemma
  <2> QED
    BY <1>1, <2>2, <2>3, SizesAssumption DEF PageLen, Smaller
<1> QED
  BY <1>1, <1>3, <1>7, <1>9, <1>10 DEF run, dirty, IsRun

(* Where a run of pages from i to m ends, in a file of n bytes *)
EndByte(n, m) == Start(m) + PageLen(n, m)

(* a byte is in the run exactly when its page is *)
LEMMA RunBytes ==
    ASSUME NEW c \in Bytes, NEW s, NEW i, NEW m, IsRun(c, s, i, m)
    PROVE  /\ EndByte(Len(c), m) \in Nat /\ EndByte(Len(c), m) <= Len(c)
           /\ Start(i) \in Nat /\ Start(i) < EndByte(Len(c), m)
           /\ \A j \in i .. m : EndByte(Len(c), j) <= EndByte(Len(c), m)
           /\ \A k \in Nat : Start(i) < k /\ k <= EndByte(Len(c), m) =>
                 /\ PageOf(k) \in i .. m /\ Start(PageOf(k)) \in Nat /\ Start(PageOf(k)) < k
                 /\ k <= EndByte(Len(c), PageOf(k))
           /\ \A k \in 1 .. Len(c) : PageOf(k) \in i .. m =>
                 Start(i) < k /\ k <= EndByte(Len(c), m)
<1> DEFINE n == Len(c)
           e == EndByte(n, m)
<1>1. n \in Nat /\ i \in Nat /\ m \in Nat /\ i <= m
  BY DEF IsRun, Bytes
<1>2. ASSUME NEW j \in i .. m
      PROVE  /\ j \in Nat /\ Start(j) \in Nat /\ Start(j) < n
             /\ EndByte(n, j) = IF n - Start(j) < PageSize THEN n ELSE Start(j) + PageSize
             /\ j # m => EndByte(n, j) = Start(j) + PageSize
  <2>0. j \in Nat
    BY <1>1
  <2>1. j \in Nat /\ Start(j) \in Nat /\ Start(j) < n
    BY <2>0, StartLemma DEF IsRun
  <2>2. j # m => PageLen(n, j) = PageSize
    BY <1>1 DEF IsRun
  <2> HIDE DEF n
  <2> QED
    BY <1>1, <2>1, <2>2, SizesAssumption DEF EndByte, PageLen, Smaller
<1> HIDE DEF n
<1>3. \A j \in i .. m : j # m => Start(j) + PageSize <= Start(m)
  BY <1>1, <1>2, StartLemma
<1>4. \A j \in i .. m : j # i => Start(i) + PageSize <= Start(j)
  BY <1>1, <1>2, StartLemma
<1>5. m \in i .. m /\ i \in i .. m
  BY <1>1
<1>6. e \in Nat /\ e <= n /\ Start(i) \in Nat /\ Start(m) < e /\ e <= Start(m) + PageSize
      /\ Start(m) \in Nat /\ Start(i) <= Start(m)
  BY <1>1, <1>2, <1>3, <1>5, SizesAssumption
<1>7. \A j \in i .. m : EndByte(n, j) <= e
  BY <1>1, <1>2, <1>3, <1>6, SizesAssumption
<1> HIDE DEF e
<1>8. ASSUME NEW k \in Nat, Start(i) < k, k <= e
      PROVE  /\ PageOf(k) \in i .. m /\ Start(PageOf(k)) \in Nat /\ Start(PageOf(k)) < k
             /\ k <= EndByte(n, PageOf(k))
  <2> DEFINE p == PageOf(k)
  <2>1. p \in Nat /\ Start(p) \in Nat /\ Start(p) < k /\ k <= Start(p) + PageSize
    BY <1>6, <1>8, PageIndex
  <2>2. (p < i => Start(p) + PageSize <= Start(i)) /\ (m < p => Start(m) + PageSize <= Start(p))
    BY <1>1, <2>1, StartLemma
  <2> HIDE DEF p
  <2>3. p \in i .. m
    BY <1>1, <1>6, <1>8, <2>1, <2>2, SizesAssumption
  <2>4. k <= EndByte(n, p)
    BY <1>1, <1>2, <1>6, <1>8, <2>1, <2>3, SizesAssumption
  <2> QED
    BY <2>1, <2>3, <2>4 DEF p
<1>9. ASSUME NEW k \in 1 .. n, PageOf(k) \in i .. m PROVE Start(i) < k /\ k <= e
  <2> DEFINE p == PageOf(k)
  <2>1. p \in Nat /\ Start(p) \in Nat /\ Start(p) < k /\ k <= Start(p) + PageSize
    BY <1>1, PageIndex
  <2>2. p \in i .. m
    BY <1>9
  <2> HIDE DEF p
  <2>3. k <= EndByte(n, p) /\ EndByte(n, p) <= e
    BY <1>1, <1>2, <1>7, <2>1, <2>2
  <2>4. Start(i) <= Start(p)
    BY <1>4, <1>6, <2>1, <2>2, SizesAssumption
  <2>5. EndByte(n, p) \in Nat
    BY <1>1, <1>2, <2>2, SizesAssumption
  <2> QED
    BY <1>1, <1>6, <2>1, <2>3, <2>4, <2>5
<1> QED
  BY <1>6, <1>7, <1>8, <1>9 DEF e, n

(* the page of a byte, and where it is there *)
ByteAt(q) == <<PageOf(q), q - Start(PageOf(q))>>

(* FlushPageList() adds up what it writes *)
LEMMA TotalSizeLemma ==
    ASSUME NEW c \in Bytes, NEW s, NEW i, NEW m, IsRun(c, s, i, m)
    PROVE  TotalSize(s, i .. m) = EndByte(Len(c), m) - Start(i)
<1> DEFINE e == EndByte(Len(c), m)
           size == e - Start(i)
           B == {b \in (i .. m) \X (1 .. PageSize) : b[2] <= Len(s.pages[b[1]].data)}
           f == [k \in 1 .. size |-> ByteAt(Start(i) + k)]
<1>1. /\ e \in Nat /\ Start(i) \in Nat /\ Start(i) < e /\ e <= Len(c) /\ Len(c) \in Nat
      /\ \A j \in i .. m : EndByte(Len(c), j) <= e
  BY RunBytes DEF Bytes
<1>2. \A k \in Nat : Start(i) < k /\ k <= e =>
         /\ PageOf(k) \in i .. m /\ Start(PageOf(k)) \in Nat /\ Start(PageOf(k)) < k
         /\ k <= EndByte(Len(c), PageOf(k))
  BY RunBytes
<1>3. ASSUME NEW j \in i .. m
      PROVE  /\ j \in Nat /\ Start(j) \in Nat /\ Start(i) <= Start(j)
             /\ Len(s.pages[j].data) = EndByte(Len(c), j) - Start(j)
             /\ EndByte(Len(c), j) \in Nat /\ EndByte(Len(c), j) <= Start(j) + PageSize
  <2>1. j \in Nat /\ i \in Nat /\ i <= j /\ Start(j) < Len(c) /\ Len(s.pages[j].data) = PageLen(Len(c), j)
    BY DEF IsRun
  <2>2. Start(j) \in Nat /\ Start(i) <= Start(j)
    BY <1>1, <2>1, StartLemma, SizesAssumption
  <2>3. PageLen(Len(c), j) \in Nat /\ PageLen(Len(c), j) <= PageSize
    BY <1>1, <2>1, <2>2, SizesAssumption DEF PageLen, Smaller
  <2>4. EndByte(Len(c), j) = Start(j) + PageLen(Len(c), j)
    BY DEF EndByte
  <2> QED
    BY <2>1, <2>2, <2>3, <2>4, SizesAssumption
<1> HIDE DEF e
<1>4. size \in Nat
  BY <1>1
<1>5. ASSUME NEW k \in 1 .. size PROVE ByteAt(Start(i) + k) \in B
  <2> DEFINE q == Start(i) + k
             p == PageOf(q)
  <2>1. q \in Nat /\ Start(i) < q /\ q <= e
    BY <1>1, <1>4
  <2>2. p \in i .. m /\ Start(p) \in Nat /\ Start(p) < q /\ q <= EndByte(Len(c), p)
    BY <1>2, <2>1
  <2> HIDE DEF q, p
  <2>3. q - Start(p) \in 1 .. PageSize /\ q - Start(p) <= Len(s.pages[p].data)
    BY <1>3, <2>1, <2>2, SizesAssumption
  <2>4. <<p, q - Start(p)>> \in B
    BY <2>2, <2>3
  <2>5. ByteAt(Start(i) + k) = <<p, q - Start(p)>>
    BY DEF p, q, ByteAt
  <2> QED
    BY <2>4, <2>5
<1>6. f \in [1 .. size -> B]
  BY <1>5
<1>7. ASSUME NEW k \in 1 .. size, NEW l \in 1 .. size, f[k] = f[l] PROVE k = l
  <2> DEFINE x == Start(i) + k
             y == Start(i) + l
  <2>1. ByteAt(x) = ByteAt(y)
    BY <1>7
  <2>4. ByteAt(x)[1] = PageOf(x) /\ ByteAt(x)[2] = x - Start(PageOf(x))
        /\ ByteAt(y)[1] = PageOf(y) /\ ByteAt(y)[2] = y - Start(PageOf(y))
    BY DEF ByteAt
  <2> HIDE DEF x, y
  <2>5. PageOf(x) = PageOf(y) /\ x - Start(PageOf(x)) = y - Start(PageOf(x))
    BY <2>1, <2>4
  <2>2. PageOf(Start(i) + k) = PageOf(Start(i) + l)
        /\ (Start(i) + k) - Start(PageOf(Start(i) + k)) = (Start(i) + l) - Start(PageOf(Start(i) + k))
    BY <2>5 DEF x, y
  <2>3. Start(PageOf(Start(i) + k)) \in Nat
    BY <1>1, <1>2, <1>4
  <2> QED
    BY <1>1, <1>4, <2>2, <2>3
<1>8. ASSUME NEW b \in B PROVE \E k \in 1 .. size : f[k] = b
  <2>1. PICK j \in i .. m, r \in 1 .. PageSize : b = <<j, r>> /\ r <= Len(s.pages[j].data)
    OBVIOUS
  <2> DEFINE k == (Start(j) + r) - Start(i)
  <2>2. /\ j \in Nat /\ Start(j) \in Nat /\ Start(i) <= Start(j) /\ r \in Nat /\ r >= 1
        /\ Start(j) + r <= EndByte(Len(c), j) /\ EndByte(Len(c), j) <= e /\ r <= PageSize
        /\ EndByte(Len(c), j) \in Nat
    BY <1>1, <1>3, <2>1, SizesAssumption
  <2>3. k \in 1 .. size /\ Start(i) + k = Start(j) + r
    BY <1>1, <2>2
  <2>4. PageOf(Start(j) + r) = j
    <3>1. Start(j) + r \in Nat /\ Start(j) < Start(j) + r /\ Start(j) + r <= Start(j) + PageSize
      BY <2>2, SizesAssumption
    <3> QED
      BY <2>2, <3>1, PageUnique
  <2>6. (Start(j) + r) - Start(j) = r
    BY <2>2
  <2> HIDE DEF k
  <2>7. ASSUME NEW q, PageOf(q) = j, q - Start(j) = r PROVE ByteAt(q) = <<j, r>>
    BY <2>7 DEF ByteAt
  <2>5. ByteAt(Start(i) + k) = <<j, r>>
    BY <2>3, <2>4, <2>6, <2>7
  <2> QED
    BY <2>1, <2>3, <2>5
<1>9. f \in Bijection(1 .. size, B)
  <2> HIDE DEF f, B, size
  <2> QED
    BY <1>6, <1>7, <1>8, Fun_IsBij
<1>10. IsFiniteSet(1 .. size) /\ Cardinality(1 .. size) = size
  BY <1>4, FS_Interval
<1>11. Cardinality(B) = size
  <2> HIDE DEF f, B, size
  <2>1. ExistsBijection(1 .. size, B)
    BY <1>9 DEF ExistsBijection
  <2> QED
    BY <1>10, <2>1, FS_Bijection
<1> QED
  BY <1>11 DEF TotalSize, e

-----------------------------------------------------------------------------
(* What is sent of a run is the file's content there. *)
LEMMA SentLemma ==
    ASSUME NEW c \in Bytes, NEW s, PagesOK(c, s), NEW i, NEW m, IsRun(c, s, i, m)
    PROVE  /\ Sent(s, i) \in Bytes /\ Len(Sent(s, i)) = EndByte(Len(c), m) - Start(i)
           /\ \A k \in 1 .. EndByte(Len(c), m) - Start(i) : Sent(s, i)[k] = c[Start(i) + k]
<1> DEFINE e == EndByte(Len(c), m)
           size == e - Start(i)
           read(k) == s.pages[PageOf(Start(i) + k)].data[Start(i) + (k - Start(PageOf(Start(i) + k)))]
<1>0. e \in Nat /\ Start(i) \in Nat /\ Start(i) < e /\ e <= Len(c)
  BY RunBytes
<1>1. /\ e \in Nat /\ Start(i) \in Nat /\ Start(i) < e /\ e <= Len(c) /\ Len(c) \in Nat
      /\ i \in Nat /\ m \in Nat /\ i <= m
  BY <1>0 DEF Bytes, IsRun
<1>2. \A k \in Nat : Start(i) < k /\ k <= e =>
         /\ PageOf(k) \in i .. m /\ Start(PageOf(k)) \in Nat /\ Start(PageOf(k)) < k
         /\ k <= EndByte(Len(c), PageOf(k))
  BY RunBytes
<1>3. \A j \in i .. m : Len(s.pages[j].data) = PageLen(Len(c), j)
  BY DEF IsRun
<1>4. \A j \in i .. m : j \in DOMAIN s.pages
  BY DEF IsRun, DirtyPages
<1>5. {j \in WriteList(s, i) : \A k \in i .. j - 1 : Len(s.pages[k].data) = PageSize} = i .. m
  <2>1. ASSUME NEW j \in i .. m, NEW k \in i .. j - 1 PROVE Len(s.pages[k].data) = PageSize
    <3>1. k \in i .. m - 1 /\ k \in i .. m
      BY <1>1
    <3> QED
      BY <1>3, <3>1 DEF IsRun
  <2>2. WriteList(s, i) = i .. m
    BY DEF IsRun
  <2> QED
    BY <2>1, <2>2
<1>6. Max(i .. m) = m
  <2>1. m \in i .. m /\ \A y \in i .. m : m >= y
    BY <1>1
  <2>2. \A x \in i .. m : (\A y \in i .. m : x >= y) => x = m
    BY <1>1
  <2> QED
    BY <2>1, <2>2 DEF Max
<1>7. Start(m) - Start(i) + Len(s.pages[m].data) = size
  <2>1. m \in i .. m /\ Start(m) \in Nat /\ Start(m) < Len(c)
    BY <1>1, StartLemma DEF IsRun
  <2>2. Len(s.pages[m].data) \in Nat /\ Start(m) + Len(s.pages[m].data) = e
    <3>1. PageLen(Len(c), m) \in Nat
      BY <1>1, <2>1, SizesAssumption DEF PageLen, Smaller
    <3> QED
      BY <1>3, <2>1, <3>1 DEF EndByte
  <2> HIDE DEF e
  <2> QED
    BY <1>1, <2>1, <2>2
<1>8. Sent(s, i) = [k \in 1 .. size |-> read(k)]
  <2> HIDE DEF size
  <2> QED
    BY <1>5, <1>6, <1>7 DEF Sent
<1>9. ASSUME NEW k \in 1 .. size PROVE read(k) = c[Start(i) + k] /\ c[Start(i) + k] \in Nat
  <2> DEFINE q == Start(i) + k
             p == PageOf(q)
             n == Start(i) + (k - Start(p))
  <2>1. q \in Nat /\ Start(i) < q /\ q <= e /\ k \in Int
    BY <1>1
  <2>2. p \in i .. m /\ Start(p) \in Nat /\ Start(p) < q /\ q <= EndByte(Len(c), p)
    BY <1>2, <2>1
  <2>3. Len(s.pages[p].data) = PageLen(Len(c), p) /\ PageOK(c, s.pages[p], p)
    BY <1>3, <1>4, <2>2 DEF PagesOK
  <2>4. c[q] \in Nat
    BY <1>1, <2>1 DEF Bytes
  <2>5. n = q - Start(p) /\ Start(p) + n = q
    BY <1>1, <2>1, <2>2
  <2> HIDE DEF q, p, n
  <2>6. Len(s.pages[p].data) \in Nat
    BY <2>3 DEF PageOK, Bytes
  <2>7. n \in 1 .. Len(s.pages[p].data)
    BY <2>1, <2>2, <2>3, <2>5, <2>6 DEF EndByte
  <2>8. s.pages[p].data[n] = Byte(c, Start(p) + n)
    BY <2>3, <2>7 DEF PageOK
  <2>9. s.pages[p].data[n] = c[q]
    BY <1>1, <2>1, <2>5, <2>8 DEF Byte
  <2> QED
    BY <2>4, <2>9 DEF n, p, q
<1> HIDE DEF e, read
<1>10. size \in Nat
  BY <1>1
<1> HIDE DEF size
<1>11. \A k \in 1 .. size : read(k) \in Nat
  BY <1>9
<1>12. Sent(s, i) \in Bytes
  BY <1>8, <1>10, <1>11, IsASeq DEF Bytes
<1>13. Len(Sent(s, i)) = size
  BY <1>8, <1>10, <1>12, LenProperties DEF Bytes
<1>14. \A k \in 1 .. size : Sent(s, i)[k] = c[Start(i) + k]
  BY <1>8, <1>9
<1> QED
  BY <1>12, <1>13, <1>14 DEF e, size

(* A run that the server has got. *)
Flushed(s, i) ==
    [pages |-> [j \in DOMAIN s.pages |->
                  IF j \in WriteList(s, i) THEN [s.pages[j] EXCEPT !.dirty = FALSE] ELSE s.pages[j]],
     server |-> WriteAt(s.server, Start(i), Sent(s, i)),
     exists |-> TRUE,
     size |-> Larger(s.size, Start(i) + TotalSize(s, WriteList(s, i)))]

LEMMA FlushedPages ==
    ASSUME NEW c \in Bytes, NEW s, PagesOK(c, s), NEW i
    PROVE  /\ PagesOK(c, Flushed(s, i))
           /\ DOMAIN Flushed(s, i).pages = DOMAIN s.pages
           /\ DirtyPages(Flushed(s, i).pages) = DirtyPages(s.pages) \ WriteList(s, i)
<1> DEFINE f == Flushed(s, i)
           run == WriteList(s, i)
<1>1. f.pages = [j \in DOMAIN s.pages |->
                   IF j \in run THEN [s.pages[j] EXCEPT !.dirty = FALSE] ELSE s.pages[j]]
  BY DEF Flushed
<1> HIDE DEF f, run
<1>2. ASSUME NEW j \in DOMAIN s.pages
      PROVE  /\ PageOK(c, f.pages[j], j)
             /\ f.pages[j].dirty = (s.pages[j].dirty /\ j \notin run)
  <2>1. PageOK(c, s.pages[j], j) /\ s.pages[j] \in [data : Bytes, dirty : BOOLEAN]
    BY DEF PagesOK, PageOK
  <2>2. CASE j \in run
    <3>1. f.pages[j] = [s.pages[j] EXCEPT !.dirty = FALSE]
      BY <1>1, <2>2
    <3>2. f.pages[j].data = s.pages[j].data /\ f.pages[j].dirty = FALSE
          /\ f.pages[j] \in [data : Bytes, dirty : BOOLEAN]
      BY <2>1, <3>1
    <3> QED
      BY <2>1, <2>2, <3>2 DEF PageOK
  <2>3. CASE j \notin run
    <3>1. f.pages[j] = s.pages[j]
      BY <1>1, <2>3
    <3> QED
      BY <2>1, <2>3, <3>1
  <2> QED
    BY <2>2, <2>3
<1>3. DOMAIN f.pages = DOMAIN s.pages
  BY <1>1
<1>4. DirtyPages(f.pages) = DirtyPages(s.pages) \ run
  BY <1>2, <1>3 DEF DirtyPages
<1> QED
  BY <1>2, <1>3, <1>4 DEF f, run, PagesOK

LEMMA FlushedState ==
    ASSUME NEW c \in Bytes, NEW s, PagesOK(c, s), ServerOK(c, s), NEW i, NEW m, IsRun(c, s, i, m)
    PROVE  LET f == Flushed(s, i)
               e == EndByte(Len(c), m)
           IN  /\ IsState(f) /\ f.exists = TRUE
               /\ f.size = Larger(s.size, e) /\ Len(f.server) = f.size /\ f.size <= Len(c)
               /\ \A k \in 1 .. f.size : f.server[k] =
                     IF Start(i) < k /\ k <= e THEN c[k]
                     ELSE IF k <= s.size THEN s.server[k] ELSE 0
<1> DEFINE f == Flushed(s, i)
           e == EndByte(Len(c), m)
           t == TotalSize(s, WriteList(s, i))
           sent == Sent(s, i)
<1>1. e \in Nat /\ Start(i) \in Nat /\ Start(i) < e /\ e <= Len(c)
  BY RunBytes
<1>2. s.server \in Bytes /\ s.size \in Nat /\ Len(s.server) = s.size /\ s.size <= Len(c) /\ Len(c) \in Nat
  BY DEF ServerOK, IsState, Bytes
<1>3. t = e - Start(i)
  BY TotalSizeLemma DEF IsRun
<1>4. sent \in Bytes /\ Len(sent) = e - Start(i)
      /\ \A k \in 1 .. e - Start(i) : sent[k] = c[Start(i) + k]
  BY SentLemma
<1> HIDE DEF e, t, sent
<1>5. Start(i) + t = e /\ Start(i) + Len(sent) = e /\ Larger(s.size, e) \in Nat
      /\ Larger(s.size, e) <= Len(c)
  BY <1>1, <1>2, <1>3, <1>4 DEF Larger
<1>6. f = [pages |-> f.pages, server |-> WriteAt(s.server, Start(i), sent),
           exists |-> TRUE, size |-> Larger(s.size, e)]
  BY <1>5 DEF Flushed, sent, t
<1> HIDE DEF f
<1>7. f.server = WriteAt(s.server, Start(i), sent) /\ f.exists = TRUE /\ f.size = Larger(s.size, e)
  BY <1>6
<1>8. f.server \in Bytes /\ Len(f.server) = f.size
      /\ \A k \in 1 .. f.size : f.server[k] =
            IF k > Start(i) /\ k <= e THEN sent[k - Start(i)]
            ELSE IF k <= Len(s.server) THEN s.server[k] ELSE 0
  <2> DEFINE w == WriteAt(s.server, Start(i), sent)
             g == Start(i) + Len(sent)
  <2>1. /\ w \in Bytes /\ Len(w) = Larger(Len(s.server), g)
        /\ \A k \in 1 .. Larger(Len(s.server), g) :
              w[k] = IF k > Start(i) /\ k <= g THEN sent[k - Start(i)]
                     ELSE IF k <= Len(s.server) THEN s.server[k] ELSE 0
    <3>1. s.server \in Bytes /\ Start(i) \in Nat /\ sent \in Bytes
      BY <1>1, <1>2, <1>4
    <3> QED
      BY <3>1, WriteAtLemma
  <2>2. g = e /\ Larger(Len(s.server), g) = f.size /\ w = f.server
    BY <1>2, <1>5, <1>7
  <2> HIDE DEF w, g
  <2> QED
    BY <2>1, <2>2
<1>9. IsState(f)
  BY <1>5, <1>6, <1>7, <1>8 DEF IsState
<1>10. ASSUME NEW k \in 1 .. f.size
       PROVE  f.server[k] = IF Start(i) < k /\ k <= e THEN c[k]
                            ELSE IF k <= s.size THEN s.server[k] ELSE 0
  <2>1. k \in Nat
    BY <1>5, <1>7
  <2>2. CASE Start(i) < k /\ k <= e
    <3>1. k - Start(i) \in 1 .. e - Start(i) /\ Start(i) + (k - Start(i)) = k
      BY <1>1, <2>1, <2>2
    <3>2. sent[k - Start(i)] = c[k]
      BY <1>4, <3>1
    <3> QED
      BY <1>1, <1>8, <2>1, <2>2, <3>2
  <2>3. CASE ~(Start(i) < k /\ k <= e)
    BY <1>1, <1>2, <1>8, <2>1, <2>3
  <2> QED
    BY <2>2, <2>3
<1> QED
  BY <1>5, <1>7, <1>8, <1>9, <1>10 DEF f, e

LEMMA FlushedServer ==
    ASSUME NEW c \in Bytes, NEW s, PagesOK(c, s), ServerOK(c, s), NEW i, NEW m, IsRun(c, s, i, m)
    PROVE  /\ ServerOK(c, Flushed(s, i))
           /\ s.exists /\ EndIsKnown(c, s) => EndIsKnown(c, Flushed(s, i))
<1> DEFINE f == Flushed(s, i)
           e == EndByte(Len(c), m)
           n == Len(c)
<1>1. /\ IsState(f) /\ f.exists = TRUE
      /\ f.size = Larger(s.size, e) /\ Len(f.server) = f.size /\ f.size <= n
      /\ \A k \in 1 .. f.size : f.server[k] =
            IF Start(i) < k /\ k <= e THEN c[k]
            ELSE IF k <= s.size THEN s.server[k] ELSE 0
  BY FlushedState
<1>2. DirtyPages(f.pages) = DirtyPages(s.pages) \ (i .. m)
  BY FlushedPages DEF IsRun
<1>3. /\ \A k \in Nat : Start(i) < k /\ k <= e => PageOf(k) \in i .. m
      /\ \A k \in 1 .. n : PageOf(k) \in i .. m => Start(i) < k /\ k <= e
  BY RunBytes
<1>4. e \in Nat /\ e <= n /\ Start(i) \in Nat
  BY RunBytes
<1>5. s.size \in Nat /\ n \in Nat /\ Larger(s.size, e) = (IF s.size > e THEN s.size ELSE e)
  BY DEF ServerOK, IsState, Larger, Bytes
<1> HIDE DEF f, e
<1>6. ASSUME NEW k \in 1 .. n, PageOf(k) \notin DirtyPages(f.pages) PROVE c[k] = Stored(f, k)
  <2> HIDE DEF n
  <2>1. CASE PageOf(k) \in i .. m
    <3>1. Start(i) < k /\ k <= e /\ k \in 1 .. f.size
      BY <1>1, <1>3, <1>4, <1>5, <2>1
    <3> QED
      BY <1>1, <3>1 DEF Stored
  <2>2. CASE PageOf(k) \notin i .. m
    <3>1. c[k] = Stored(s, k)
      BY <1>2, <1>6, <2>2 DEF ServerOK, n
    <3>2. ~(Start(i) < k /\ k <= e)
      BY <1>3, <1>5, <2>2
    <3>3. CASE k <= f.size
      <4>1. f.server[k] = IF k <= s.size THEN s.server[k] ELSE 0
        BY <1>1, <1>4, <1>5, <3>2, <3>3
      <4> QED
        BY <3>1, <3>3, <4>1 DEF Stored
    <3>4. CASE ~(k <= f.size)
      <4>1. ~(k <= s.size)
        BY <1>1, <1>4, <1>5, <3>4
      <4> QED
        BY <3>1, <3>4, <4>1 DEF Stored
    <3> QED
      BY <3>3, <3>4
  <2> QED
    BY <2>1, <2>2
<1>7. ServerOK(c, f)
  BY <1>1, <1>6 DEF ServerOK
<1>8. ASSUME s.exists, EndIsKnown(c, s) PROVE EndIsKnown(c, f)
  <2> DEFINE l == LastPage(n)
  <2>1. SUFFICES ASSUME f.size < n, l \in i .. m PROVE FALSE
    <3>1. f.size < n => s.size < n
      BY <1>1, <1>4, <1>5
    <3>2. f.size < n => l \in DirtyPages(s.pages)
      BY <1>8, <3>1 DEF EndIsKnown
    <3>3. EndIsKnown(c, f) <=> (f.size < n => l \in DirtyPages(f.pages))
      BY <1>1 DEF EndIsKnown
    <3> QED
      BY <1>2, <3>2, <3>3, <2>1
  <2>2. n \in Nat \ {0} /\ m \in Nat /\ i \in Nat /\ Start(m) < n /\ m \in i .. m
    BY <1>1, <1>4, <1>5, <2>1 DEF IsRun
  <2>3. m <= l /\ l \in Nat /\ (m = l <=> PageLen(n, m) = n - Start(m)) /\ Start(m) \in Nat
    BY <2>2, LastPageLemma, StartLemma
  <2> HIDE DEF l
  <2>4. PageLen(n, m) = n - Start(m)
    BY <2>1, <2>2, <2>3
  <2>5. e = n
    BY <1>5, <2>3, <2>4 DEF e, EndByte
  <2> QED
    BY <1>1, <1>4, <1>5, <2>1, <2>5
<1> QED
  BY <1>7, <1>8 DEF f

(* The file is made at the server: a truncation it has not seen catches up. *)
LEMMA FlushCreateLemma ==
    ASSUME NEW c \in Bytes, Len(c) = mFileSize, NEW s, PagesOK(c, s), ServerOK(c, s)
    PROVE  /\ Good(c, FlushCreate(s)) /\ FlushCreate(s).pages = s.pages
           /\ FlushCreate(s).exists = TRUE
<1> DEFINE n == Len(c)
           f == FlushCreate(s)
           dirty == DirtyPages(s.pages)
           short == s.size < n /\ \A i \in dirty : EndOf(s.pages, i) < n
<1>1. /\ s = [pages |-> s.pages, server |-> s.server, exists |-> s.exists, size |-> s.size]
      /\ s.server \in Bytes /\ s.size \in Nat /\ n \in Nat /\ s.size <= n /\ Len(s.server) = s.size
      /\ \A k \in 1 .. n : PageOf(k) \notin dirty => c[k] = Stored(s, k)
  BY DEF ServerOK, IsState, Bytes
<1>2. f = IF short THEN [s EXCEPT !.exists = TRUE, !.server = Resize(@, n), !.size = n]
          ELSE [s EXCEPT !.exists = TRUE]
  BY DEF FlushCreate
<1>3. CASE short
  <2> HIDE DEF n, short
  <2>1. f = [pages |-> s.pages, server |-> Resize(s.server, n), exists |-> TRUE, size |-> n]
    BY <1>1, <1>2, <1>3
  <2> HIDE DEF f
  <2>2. f.pages = s.pages /\ f.server = Resize(s.server, n) /\ f.exists = TRUE /\ f.size = n
    BY <2>1
  <2>3. f.server \in Bytes /\ Len(f.server) = n
        /\ \A k \in 1 .. n : f.server[k] = IF k <= s.size THEN s.server[k] ELSE 0
    <3> DEFINE d == Resize(s.server, n)
    <3>1. d \in Bytes /\ Len(d) = n
          /\ \A k \in 1 .. n : d[k] = IF k <= Len(s.server) THEN s.server[k] ELSE 0
      BY <1>1, ResizeLemma
    <3>2. f.server = d /\ Len(s.server) = s.size
      BY <1>1, <2>2
    <3> HIDE DEF d
    <3> QED
      BY <3>1, <3>2
  <2>4. IsState(f)
    BY <1>1, <2>1, <2>2, <2>3 DEF IsState
  <2>5. \A k \in 1 .. n : PageOf(k) \notin DirtyPages(f.pages) => c[k] = Stored(f, k)
    <3>1. \A k \in 1 .. n : Stored(f, k) = Stored(s, k)
      BY <1>1, <2>2, <2>3 DEF Stored
    <3> QED
      BY <1>1, <2>2, <3>1
  <2>6. ServerOK(c, f)
    BY <1>1, <2>2, <2>3, <2>4, <2>5 DEF ServerOK, n
  <2>7. PagesOK(c, f)
    BY <2>2 DEF PagesOK
  <2>8. EndIsKnown(c, f)
    BY <1>1, <2>2 DEF EndIsKnown, n
  <2> QED
    BY <2>2, <2>6, <2>7, <2>8 DEF Good, f
<1>4. CASE ~short
  <2>1. f = [pages |-> s.pages, server |-> s.server, exists |-> TRUE, size |-> s.size]
    <3> HIDE DEF n, short
    <3> QED
      BY <1>1, <1>2, <1>4
  <2> HIDE DEF f
  <2>2. f.pages = s.pages /\ f.server = s.server /\ f.exists = TRUE /\ f.size = s.size
    BY <2>1
  <2>3. ServerOK(c, f)
    BY <1>1, <2>1, <2>2 DEF ServerOK, IsState, Stored
  <2>4. PagesOK(c, f)
    BY <2>2 DEF PagesOK
  <2>5. ASSUME s.size < n PROVE LastPage(n) \in dirty
    <3>1. PICK i \in dirty : ~(EndOf(s.pages, i) < n)
      BY <1>4, <2>5
    <3>2. i \in Nat /\ Start(i) < n /\ Len(s.pages[i].data) = PageLen(n, i)
      BY DEF PagesOK, PageOK, DirtyPages
    <3>3. n \in Nat \ {0} /\ Start(i) \in Nat
      BY <1>1, <3>2, StartLemma
    <3> HIDE DEF n
    <3>4. ~(Start(i) + PageLen(n, i) < n)
      BY <3>1, <3>2 DEF EndOf
    <3>5. i < LastPage(n) <=> Start(i) + PageSize < n
      BY <3>2, <3>3, LastPageLemma
    <3>6. PageLen(n, i) = n - Start(i)
      BY <3>2, <3>3, <3>4, SizesAssumption DEF PageLen, Smaller
    <3>7. i = LastPage(n)
      BY <3>2, <3>3, <3>6, LastPageLemma
    <3> QED
      BY <3>7
  <2>6. EndIsKnown(c, f)
    BY <2>2, <2>5 DEF EndIsKnown
  <2> QED
    BY <2>2, <2>3, <2>4, <2>6 DEF Good, f
<1> QED
  BY <1>3, <1>4

(* A flush of the run at a page: everything stays as it should be, and the page is
   not dirty any more. *)
LEMMA FlushRunLemma ==
    ASSUME NEW c \in Bytes, Len(c) = mFileSize, NEW s, Good(c, s), NEW i \in DirtyPages(s.pages)
    PROVE  /\ Good(c, FlushRun(s, i))
           /\ DOMAIN FlushRun(s, i).pages = DOMAIN s.pages
           /\ DirtyPages(FlushRun(s, i).pages) \subseteq DirtyPages(s.pages) \ {i}
           /\ FlushRun(s, i).exists = TRUE
<1> DEFINE f == Flushed(s, i)
<1>0. PagesOK(c, s) /\ ServerOK(c, s) /\ EndIsKnown(c, s)
  BY DEF Good
<1>1. PICK m : IsRun(c, s, i, m)
  BY <1>0, RunShape
<1>3. /\ PagesOK(c, f) /\ ServerOK(c, f) /\ (s.exists => EndIsKnown(c, f))
      /\ DOMAIN f.pages = DOMAIN s.pages
      /\ DirtyPages(f.pages) = DirtyPages(s.pages) \ WriteList(s, i)
  BY <1>0, <1>1, FlushedPages, FlushedServer
<1>4. i \in WriteList(s, i)
  BY <1>1 DEF IsRun
<1>5. FlushRun(s, i) = IF s.exists THEN f ELSE FlushCreate(f)
  BY DEF FlushRun, Flushed
<1>6. f.exists = TRUE
  BY DEF Flushed
<1> HIDE DEF f
<1>7. CASE s.exists
  BY <1>3, <1>4, <1>5, <1>6, <1>7 DEF Good
<1>8. CASE ~s.exists
  <2>1. FlushRun(s, i) = FlushCreate(f)
    BY <1>5, <1>8
  <2>2. Good(c, FlushCreate(f)) /\ FlushCreate(f).pages = f.pages /\ FlushCreate(f).exists = TRUE
    BY <1>3, FlushCreateLemma
  <2> QED
    BY <1>3, <1>4, <2>1, <2>2
<1> QED
  BY <1>7, <1>8

-----------------------------------------------------------------------------
(* FlushPages() writes one run after another: the state when it has been at page i *)
FlushAt(s, i) == IF i \in DirtyPages(s.pages) THEN FlushRun(s, i) ELSE s
UpTo(s) == CHOOSE f : f = [i \in Indexes |-> FlushAt(IF i = 0 THEN s ELSE f[i - 1], i)]

LEMMA FlushAllIsUpTo ==
    ASSUME NEW s
    PROVE  FlushAll(s) = IF DirtyPages(s.pages) # {} THEN UpTo(s)[LastPage(MaxSize)]
                         ELSE IF s.exists THEN s ELSE FlushCreate(s)
BY DEF FlushAll, UpTo, FlushAt

LEMMA UpToLemma ==
    ASSUME NEW s
    PROVE  UpTo(s) = [i \in Indexes |-> FlushAt(IF i = 0 THEN s ELSE UpTo(s)[i - 1], i)]
<1> DEFINE Rec(g, n) == g = [i \in 0 .. n |-> FlushAt(IF i = 0 THEN s ELSE g[i - 1], i)]
           S == {n \in Nat : \E g : Rec(g, n)}
<1>1. 0 \in S
  <2> DEFINE g == [i \in 0 .. 0 |-> FlushAt(s, 0)]
  <2>1. \A i \in 0 .. 0 : i = 0
    OBVIOUS
  <2>2. Rec(g, 0)
    BY <2>1
  <2> QED
    BY <2>2
<1>2. ASSUME NEW n \in Nat, n \in S PROVE n + 1 \in S
  <2>1. PICK g : Rec(g, n)
    BY <1>2
  <2> DEFINE last == FlushAt(g[n], n + 1)
             h == [i \in 0 .. n + 1 |-> IF i = n + 1 THEN last ELSE g[i]]
  <2>2. ASSUME NEW i \in 0 .. n + 1 PROVE h[i] = FlushAt(IF i = 0 THEN s ELSE h[i - 1], i)
    <3> HIDE DEF last
    <3>1. CASE i = n + 1
      <4>1. h[i] = last /\ i # 0 /\ i - 1 = n /\ n \in 0 .. n + 1 /\ n # n + 1
        BY <3>1
      <4>2. h[n] = g[n]
        BY <4>1
      <4> HIDE DEF h
      <4>3. last = FlushAt(h[i - 1], i)
        BY <3>1, <4>1, <4>2 DEF last
      <4> QED
        BY <4>1, <4>3
    <3>2. CASE i # n + 1
      <4>1. i \in 0 .. n /\ h[i] = g[i]
        BY <3>2
      <4>2. g[i] = FlushAt(IF i = 0 THEN s ELSE g[i - 1], i)
        BY <2>1, <4>1
      <4>3. i # 0 => i - 1 \in 0 .. n + 1 /\ i - 1 # n + 1
        BY <4>1
      <4>4. i # 0 => h[i - 1] = g[i - 1]
        BY <4>3
      <4> HIDE DEF h
      <4>5. (IF i = 0 THEN s ELSE g[i - 1]) = (IF i = 0 THEN s ELSE h[i - 1])
        BY <4>4
      <4> QED
        BY <4>1, <4>2, <4>5
    <3> QED
      BY <3>1, <3>2
  <2>3. h = [i \in 0 .. n + 1 |-> h[i]]
    OBVIOUS
  <2> HIDE DEF h
  <2>4. Rec(h, n + 1)
    BY <2>2, <2>3
  <2> QED
    BY <2>4
<1>3. LastPage(MaxSize) \in Nat
  BY SizesAssumption, PageIndex DEF LastPage
<1>4. LastPage(MaxSize) \in S
  <2> HIDE DEF S
  <2>1. \A n \in Nat : n \in S => n + 1 \in S
    BY <1>2
  <2> QED
    BY <1>1, <1>3, <2>1, SetInduction
<1>5. \E f : f = [i \in Indexes |-> FlushAt(IF i = 0 THEN s ELSE f[i - 1], i)]
  BY <1>4 DEF Indexes
<1> QED
  BY <1>5 DEF UpTo

LEMMA FlushAllLemma ==
    ASSUME NEW c \in Bytes, Len(c) = mFileSize, NEW s, Good(c, s)
    PROVE  Good(c, FlushAll(s))
<1> DEFINE u == UpTo(s)
           S == {n \in Nat : n \in Indexes => Good(c, u[n])}
<1>1. \A i \in Indexes : u[i] = FlushAt(IF i = 0 THEN s ELSE u[i - 1], i)
  BY UpToLemma
<1> HIDE DEF u
<1>2. ASSUME NEW t, Good(c, t), NEW i PROVE Good(c, FlushAt(t, i))
  BY <1>2, FlushRunLemma DEF FlushAt
<1>3. LastPage(MaxSize) \in Nat
  BY SizesAssumption, PageIndex DEF LastPage
<1>4. 0 \in S
  <2>1. 0 \in Indexes
    BY <1>3 DEF Indexes
  <2>2. u[0] = FlushAt(s, 0)
    BY <1>1, <2>1
  <2> QED
    BY <1>2, <2>2
<1>5. ASSUME NEW n \in Nat, n \in S, n + 1 \in Indexes PROVE Good(c, u[n + 1])
  <2>1. n \in Indexes /\ n + 1 # 0 /\ (n + 1) - 1 = n
    BY <1>3, <1>5 DEF Indexes
  <2>2. u[n + 1] = FlushAt(u[n], n + 1)
    BY <1>1, <1>5, <2>1
  <2> QED
    BY <1>2, <1>5, <2>1, <2>2
<1>6. LastPage(MaxSize) \in S
  <2>1. \A n \in Nat : n \in S => n + 1 \in S
    BY <1>5
  <2> HIDE DEF S
  <2> QED
    BY <1>3, <1>4, <2>1, SetInduction
<1>7. LastPage(MaxSize) \in Indexes
  BY <1>3 DEF Indexes
<1>8. Good(c, u[LastPage(MaxSize)])
  BY <1>6, <1>7
<1>9. PagesOK(c, s) /\ ServerOK(c, s)
  BY DEF Good
<1>10. Good(c, FlushCreate(s))
  BY <1>9, FlushCreateLemma
<1>11. FlushAll(s) = IF DirtyPages(s.pages) # {} THEN u[LastPage(MaxSize)]
                     ELSE IF s.exists THEN s ELSE FlushCreate(s)
  BY FlushAllIsUpTo DEF u
<1> QED
  BY <1>8, <1>10, <1>11

-----------------------------------------------------------------------------
(* Clean pages come and go without harm. *)
LEMMA CleanPages ==
    ASSUME NEW c, NEW s, Good(c, s), NEW t, IsState(t),
           t.server = s.server, t.exists = s.exists, t.size = s.size,
           DirtyPages(t.pages) = DirtyPages(s.pages), PagesOK(c, t)
    PROVE  Good(c, t)
BY DEF Good, ServerOK, EndIsKnown, Stored

LEMMA AddClean ==
    ASSUME NEW c, NEW s, Good(c, s), NEW i \in Nat, i \notin DOMAIN s.pages,
           NEW page, PageOK(c, page, i), ~page.dirty,
           NEW t, IsState(t), t.server = s.server, t.exists = s.exists, t.size = s.size,
           t.pages = SetPage(s.pages, i, page)
    PROVE  Good(c, t)
<1>1. /\ DOMAIN t.pages = DOMAIN s.pages \cup {i} /\ t.pages[i] = page
      /\ \A j \in DOMAIN s.pages : t.pages[j] = s.pages[j]
  BY DEF SetPage
<1>2. DirtyPages(t.pages) = DirtyPages(s.pages)
  BY <1>1 DEF DirtyPages
<1>3. PagesOK(c, t)
  BY <1>1 DEF Good, PagesOK
<1> QED
  BY <1>2, <1>3, CleanPages

LEMMA DropClean ==
    ASSUME NEW c, NEW s, Good(c, s), NEW i, i \notin DirtyPages(s.pages),
           NEW t, IsState(t), t.server = s.server, t.exists = s.exists, t.size = s.size,
           t.pages = Without(s.pages, {i})
    PROVE  Good(c, t)
<1>1. /\ DOMAIN t.pages = DOMAIN s.pages \ {i}
      /\ \A j \in DOMAIN t.pages : t.pages[j] = s.pages[j]
  BY DEF Without
<1>2. DirtyPages(t.pages) = DirtyPages(s.pages)
  BY <1>1 DEF DirtyPages
<1>3. PagesOK(c, t)
  BY <1>1 DEF Good, PagesOK
<1> QED
  BY <1>2, <1>3, CleanPages

(* A byte of a page that is not in memory is at the server, or zero past its end. *)
LEMMA StoredByte ==
    ASSUME NEW c \in Bytes, NEW s, Good(c, s), NEW i \in Nat, i \notin DirtyPages(s.pages),
           NEW n \in 1 .. PageSize
    PROVE  Byte(c, Start(i) + n) = Stored(s, Start(i) + n)
<1> DEFINE q == Start(i) + n
<1>1. Start(i) \in Nat /\ q \in Nat \ {0} /\ Start(i) < q /\ q <= Start(i) + PageSize
      /\ Len(c) \in Nat
  <2>1. Start(i) \in Nat /\ n \in Nat /\ 0 < n /\ n <= PageSize
    BY StartLemma, SizesAssumption
  <2>2. Len(c) \in Nat
    BY DEF Bytes
  <2> QED
    BY <2>1, <2>2, SizesAssumption
<1>2. PageOf(q) = i
  BY <1>1, PageUnique
<1>3. s.size \in Nat /\ s.size <= Len(c)
      /\ \A k \in 1 .. Len(c) : PageOf(k) \notin DirtyPages(s.pages) => c[k] = Stored(s, k)
  BY DEF Good, ServerOK, IsState
<1> HIDE DEF q
<1>4. CASE q <= Len(c)
  <2>1. q \in 1 .. Len(c)
    BY <1>1, <1>4
  <2> QED
    BY <1>2, <1>3, <1>4, <2>1 DEF Byte, q
<1>5. CASE ~(q <= Len(c))
  <2>1. ~(q <= s.size)
    BY <1>1, <1>3, <1>5
  <2> QED
    BY <1>5, <2>1 DEF Byte, Stored, q
<1> QED
  BY <1>4, <1>5

(* GetPageRead() makes an empty page only behind the end at the server. *)
LEMMA EmptyPage ==
    ASSUME NEW c \in Bytes, NEW s, Good(c, s), NEW i \in Nat, i \notin DOMAIN s.pages,
           Start(i) < Len(c), s.size <= Start(i)
    PROVE  PageOK(c, [data |-> Resize(<<>>, PageSize), dirty |-> FALSE], i)
<1> DEFINE d == Resize(<<>>, PageSize)
<1>1. d \in Bytes /\ Len(d) = PageSize /\ \A k \in 1 .. PageSize : d[k] = 0
  <2>1. <<>> \in Bytes /\ Len(<<>>) = 0
    BY DEF Bytes
  <2>2. PageSize \in Nat /\ \A k \in 1 .. PageSize : ~(k <= 0)
    BY SizesAssumption
  <2> QED
    BY <2>1, <2>2, ResizeLemma
<1> HIDE DEF d
<1>2. ASSUME NEW n \in 1 .. PageSize PROVE Byte(c, Start(i) + n) = 0
  <2>1. Byte(c, Start(i) + n) = Stored(s, Start(i) + n)
    BY StoredByte DEF DirtyPages
  <2>2. ~(Start(i) + n <= s.size)
    BY StartLemma DEF Good, ServerOK, IsState
  <2> QED
    BY <2>1, <2>2 DEF Stored
<1>3. PageLen(Len(c), i) <= PageSize
  <2>1. Len(c) - Start(i) \in Int
    BY StartLemma DEF Bytes
  <2> QED
    BY <2>1, SizesAssumption DEF PageLen, Smaller
<1> DEFINE page == [data |-> d, dirty |-> FALSE]
<1>4. page \in [data : Bytes, dirty : BOOLEAN] /\ page.data = d /\ page.dirty = FALSE
  BY <1>1
<1> HIDE DEF page
<1>5. PageOK(c, page, i)
  BY <1>1, <1>2, <1>3, <1>4, SizesAssumption DEF PageOK
<1> QED
  BY <1>5 DEF page, d

(* A page that is fetched is what the file has there, although it may be shorter at the
   server: the callback resizes it. *)
LEMMA FetchedPage ==
    ASSUME NEW c \in Bytes, NEW s, Good(c, s), NEW i \in Nat, i \notin DOMAIN s.pages,
           Start(i) < s.size, NEW size, size = Smaller(s.size - Start(i), PageSize),
           NEW n \in Nat, PageLen(Len(c), i) <= n, size <= n, n <= PageSize
    PROVE  PageOK(c, [data |-> Resize(SubSeq(s.server, Start(i) + 1, Start(i) + size), n),
                      dirty |-> FALSE], i)
<1> DEFINE old == SubSeq(s.server, Start(i) + 1, Start(i) + size)
           d == Resize(old, n)
<1>1. /\ s.server \in Bytes /\ Len(s.server) = s.size /\ s.size \in Nat /\ s.size <= Len(c)
      /\ Len(c) \in Nat
  BY DEF Good, ServerOK, IsState, Bytes
<1>2. Start(i) \in Nat
  BY StartLemma
<1>3. /\ size \in Nat /\ Start(i) + size \in Nat /\ Start(i) + size <= s.size
      /\ (Start(i) + size) - Start(i) = size
      /\ size = PageSize \/ Start(i) + size = s.size
  BY <1>1, <1>2, SizesAssumption DEF Smaller
<1>4. old \in Bytes /\ Len(old) = size /\ \A k \in 1 .. size : old[k] = s.server[Start(i) + k]
  <2> DEFINE b == Start(i) + size
  <2>1. b \in Nat /\ Start(i) <= b /\ b <= Len(s.server) /\ b - Start(i) = size
    BY <1>1, <1>2, <1>3
  <2> HIDE DEF b
  <2>2. LET w == SubSeq(s.server, Start(i) + 1, b)
        IN  w \in Bytes /\ Len(w) = b - Start(i) /\ \A k \in 1 .. b - Start(i) : w[k] = s.server[Start(i) + k]
    BY <1>1, <1>2, <2>1, SubSeqLemma
  <2> QED
    BY <2>1, <2>2 DEF b
<1> HIDE DEF old
<1>5. d \in Bytes /\ Len(d) = n /\ \A k \in 1 .. n : d[k] = IF k <= size THEN old[k] ELSE 0
  BY <1>4, ResizeLemma
<1> HIDE DEF d
<1>6. ASSUME NEW k \in 1 .. n PROVE d[k] = Byte(c, Start(i) + k)
  <2>1. k \in 1 .. PageSize
    BY SizesAssumption
  <2>2. Byte(c, Start(i) + k) = Stored(s, Start(i) + k)
    BY <2>1, StoredByte DEF DirtyPages
  <2>3. CASE k <= size
    <3>1. Start(i) + k <= s.size /\ k \in 1 .. size
      BY <1>1, <1>2, <1>3, <2>3
    <3> QED
      BY <1>4, <1>5, <2>2, <2>3, <3>1 DEF Stored
  <2>4. CASE ~(k <= size)
    <3>1. ~(Start(i) + k <= s.size)
      BY <1>1, <1>2, <1>3, <2>1, <2>4, SizesAssumption
    <3> QED
      BY <1>5, <2>2, <2>4, <3>1 DEF Stored
  <2> QED
    BY <2>3, <2>4
<1> DEFINE page == [data |-> d, dirty |-> FALSE]
<1>7. page \in [data : Bytes, dirty : BOOLEAN] /\ page.data = d /\ page.dirty = FALSE
  BY <1>5
<1> HIDE DEF page
<1>8. Start(i) < Len(c)
  BY <1>1, <1>2
<1>9. PageOK(c, page, i)
  BY <1>5, <1>6, <1>7, <1>8 DEF PageOK
<1> QED
  BY <1>9 DEF page, d, old

-----------------------------------------------------------------------------
(* The pages and the server are the content, and what a fetch thread that has the
   file's lock is to fetch is at the server. *)
LockedInRange == \A f \in fetchers : f.locked => Start(f.index + f.count - 1) < mBackendSize
DataInv ==
    /\ content \in Bytes /\ mFileSize = Len(content) /\ changes \in Nat
    /\ Good(content, Cached)
    /\ LockedInRange

LEMMA CachedFields ==
    /\ Cached.pages = mPages /\ Cached.server = server
    /\ Cached.exists = mBackendExists /\ Cached.size = mBackendSize
BY DEF Cached

LEMMA SetCachedLemma ==
    ASSUME NEW s, IsState(s), SetCached(s)
    PROVE  Cached' = s
BY DEF SetCached, Cached, IsState

LEMMA StateKeeps ==
    ASSUME DataInv, IsState(Cached'), Good(content', Cached'), UNCHANGED fileVars,
           UNCHANGED changes, LockedInRange'
    PROVE  DataInv'
BY DEF DataInv, fileVars

LEMMA NextStateIs ==
    ASSUME DataInv, UNCHANGED <<server, mBackendExists, mBackendSize>>
    PROVE  /\ IsState(Cached') /\ Cached'.pages = mPages' /\ Cached'.server = Cached.server
           /\ Cached'.exists = Cached.exists /\ Cached'.size = Cached.size
<1>1. IsState(Cached)
  BY DEF DataInv, Good, ServerOK
<1> QED
  BY <1>1 DEF Cached, IsState

LEMMA StutterKeeps ==
    ASSUME DataInv, UNCHANGED <<fileVars, mPages, changes>>, LockedInRange'
    PROVE  DataInv'
BY DEF DataInv, fileVars, Cached

(* new threads do not have the lock yet *)
LEMMA FetchVarsKeep ==
    ASSUME LockedInRange, UNCHANGED mBackendSize,
           \A f \in fetchers' : f \in fetchers \/ ~f.locked
    PROVE  LockedInRange'
BY DEF LockedInRange

LEMMA AdvanceKeeps ==
    ASSUME NEW i, UNCHANGED fetchVars \/ AdvanceRead(i) \/ \E n \in FetchSizes(i) : StartFetch(i, n)
    PROVE  \A f \in fetchers' : f \in fetchers \/ ~f.locked
<1>1. UNCHANGED fetchVars \/ \E j, n : StartFetch(j, n)
  BY DEF AdvanceRead
<1>2. ASSUME NEW j, NEW n, StartFetch(j, n) PROVE \A f \in fetchers' : f \in fetchers \/ ~f.locked
  BY <1>2 DEF StartFetch
<1> QED
  BY <1>1, <1>2 DEF fetchVars

LEMMA GetPageReadData ==
    ASSUME DataInv, NEW r \in Readers, GetPageRead(r)
    PROVE  DataInv'
<1>1. PICK i \in Indexes : GetPageRead(r)!(i)
  BY DEF GetPageRead
<1>2. i \in Nat /\ Start(i) < mFileSize /\ UNCHANGED fileVars /\ UNCHANGED changes
  BY <1>1 DEF Indexes
<1>3. UNCHANGED fetchVars \/ AdvanceRead(i) \/ \E n \in FetchSizes(i) : StartFetch(i, n)
  BY <1>1
<1>4. LockedInRange'
  BY <1>2, <1>3, AdvanceKeeps, FetchVarsKeep DEF DataInv, fileVars
<1>5. CASE UNCHANGED mPages
  BY <1>2, <1>4, <1>5, StutterKeeps
<1>6. CASE /\ i \notin DOMAIN mPages /\ ~isFetchPending(i) /\ FetchSizes(i) = {}
           /\ mPages' = SetPage(mPages, i, [data |-> Resize(<<>>, PageSize), dirty |-> FALSE])
  <2> DEFINE page == [data |-> Resize(<<>>, PageSize), dirty |-> FALSE]
  <2>1. mBackendSize \in Nat /\ Start(i) \in Nat
    BY <1>2, StartLemma, CachedFields DEF DataInv, Good, ServerOK, IsState
  <2>2. mBackendSize <= Start(i)
    <3>1. i + 1 - 1 = i /\ i .. i = {i} /\ 1 \in 1 .. MaxFetch
      BY <1>2, SizesAssumption
    <3>2. \A j \in i .. i : j \notin DOMAIN mPages /\ ~isFetchPending(j)
      BY <1>6, <3>1
    <3>3. ~(mBackendSize > 0 /\ i <= LastPage(mBackendSize))
      BY <1>6, <3>1, <3>2 DEF FetchSizes
    <3>4. mBackendSize # 0 /\ Start(i) < mBackendSize => i <= LastPage(mBackendSize)
      BY <1>2, <2>1, LastPageLemma
    <3> QED
      BY <2>1, <3>3, <3>4
  <2>3. PageOK(content, page, i)
    BY <1>2, <1>6, <2>2, CachedFields, EmptyPage DEF DataInv
  <2>4. /\ IsState(Cached') /\ Cached'.pages = mPages' /\ Cached'.server = Cached.server
        /\ Cached'.exists = Cached.exists /\ Cached'.size = Cached.size
    BY <1>2, NextStateIs DEF fileVars
  <2>5. ~page.dirty
    OBVIOUS
  <2>6. mPages' = SetPage(Cached.pages, i, page) /\ i \notin DOMAIN Cached.pages
    BY <1>6, CachedFields
  <2> HIDE DEF page
  <2>7. Good(content, Cached')
    BY <1>2, <2>3, <2>4, <2>5, <2>6, AddClean DEF DataInv
  <2>8. content' = content
    BY <1>2 DEF fileVars
  <2> QED
    BY <1>2, <1>4, <2>4, <2>7, <2>8, StateKeeps
<1> QED
  BY <1>1, <1>5, <1>6

LEMMA FetchStartData ==
    ASSUME DataInv, NEW f \in fetchers, FetchStart(f), f \in Fetchers
    PROVE  DataInv'
<1>1. LockedInRange'
  <2>1. UNCHANGED <<fileVars, mPages, changes>> /\ mBackendSize' = mBackendSize
    BY DEF FetchStart, fileVars
  <2>2. CASE UNCHANGED fetchers
    BY <2>1, <2>2 DEF DataInv, LockedInRange
  <2>3. CASE /\ Start(f.index + f.count - 1) < mBackendSize
             /\ fetchers' = (fetchers \ {f}) \cup {[f EXCEPT !.locked = TRUE]}
    <3> DEFINE g == [f EXCEPT !.locked = TRUE]
    <3>1. g.index = f.index /\ g.count = f.count
      BY DEF Fetchers
    <3> HIDE DEF g
    <3>2. fetchers' = (fetchers \ {f}) \cup {g}
      BY <2>3 DEF g
    <3> QED
      BY <2>1, <2>3, <3>1, <3>2 DEF DataInv, LockedInRange
  <2> QED
    BY <2>2, <2>3 DEF FetchStart
<1> QED
  BY <1>1, StutterKeeps DEF FetchStart

LEMMA FetchFailsData ==
    ASSUME DataInv, NEW f \in fetchers, FetchFails(f)
    PROVE  DataInv'
<1>1. LockedInRange'
  BY FetchVarsKeep DEF FetchFails, fileVars, DataInv
<1> QED
  BY <1>1, StutterKeeps DEF FetchFails

LEMMA FetchNextData ==
    ASSUME DataInv, FetchInv, NEW f \in fetchers, FetchNext(f)
    PROVE  DataInv'
<1> DEFINE i == f.cur
           size == Smaller(mBackendSize - Start(i), PageSize)
           realSize == Smaller(mFileSize - Start(f.index), PageSize)
           n == Larger(size, realSize)
           page == [data |-> Resize(SubSeq(server, Start(i) + 1, Start(i) + size), n), dirty |-> FALSE]
<1>1. f \in Fetchers /\ i \in Nat /\ f.index \in Nat /\ f.count \in Nat
      /\ f.index <= i /\ i <= f.index + (f.count - 1) /\ f.index + (f.count - 1) \in Nat
  <2>1. f \in Fetchers /\ f.index <= f.cur /\ f.cur < EndOfRange(f)
    BY DEF FetchInv
  <2> QED
    BY <2>1 DEF Fetchers, EndOfRange
<1>2. /\ f.locked /\ UNCHANGED <<fileVars, changes>>
      /\ mPages' = IF i \in DOMAIN mPages THEN mPages ELSE SetPage(mPages, i, page)
      /\ fetchers' = (fetchers \ {f}) \cup
             (IF i + 1 < f.index + f.count THEN {[f EXCEPT !.cur = i + 1]} ELSE {})
  BY DEF FetchNext
<1>3. Start(i) < mBackendSize /\ mBackendSize \in Nat /\ mBackendSize <= mFileSize
      /\ mFileSize \in Nat /\ Start(i) \in Nat /\ Start(f.index) \in Nat /\ Start(f.index) <= Start(i)
  <2>1. mBackendSize \in Nat /\ mBackendSize <= mFileSize /\ mFileSize \in Nat
    BY CachedFields DEF DataInv, Good, ServerOK, IsState, Bytes
  <2>2. Start(f.index + (f.count - 1)) < mBackendSize
    BY <1>2 DEF DataInv, LockedInRange
  <2>3. Start(i) <= Start(f.index + (f.count - 1)) /\ Start(f.index) <= Start(i)
        /\ Start(i) \in Nat /\ Start(f.index) \in Nat /\ Start(f.index + (f.count - 1)) \in Nat
    <3> DEFINE e == f.index + (f.count - 1)
    <3>1. e \in Nat /\ i <= e
      BY <1>1
    <3> HIDE DEF e, i
    <3>2. i \in Nat /\ f.index \in Nat /\ f.index <= i
      BY <1>1
    <3>3. Start(i) <= Start(e)
      BY <3>1, <3>2, StartLemma, SizesAssumption
    <3>5. Start(i) \in Nat /\ Start(f.index) \in Nat /\ Start(e) \in Nat
      BY <3>1, <3>2, StartLemma
    <3>6. f.index < i => Start(f.index) + PageSize <= Start(i)
      BY <3>2, StartLemma
    <3>4. Start(f.index) <= Start(i)
      BY <3>2, <3>5, <3>6, SizesAssumption
    <3> QED
      BY <3>3, <3>4, <3>5 DEF e
  <2> HIDE DEF i
  <2> QED
    BY <2>1, <2>2, <2>3
<1>4. LockedInRange'
  <2>1. mBackendSize' = mBackendSize
    BY <1>2 DEF fileVars
  <2> DEFINE g == [f EXCEPT !.cur = i + 1]
  <2>2. g.index = f.index /\ g.count = f.count /\ g.locked = f.locked
    BY <1>1 DEF Fetchers
  <2> HIDE DEF g
  <2>3. \A h \in fetchers' : h \in fetchers \/ h = g
    BY <1>2 DEF g
  <2> QED
    BY <2>1, <2>2, <2>3 DEF DataInv, LockedInRange
<1>5. CASE i \in DOMAIN mPages
  BY <1>2, <1>4, <1>5, StutterKeeps
<1>6. CASE i \notin DOMAIN mPages
  <2>1. /\ n \in Nat /\ size <= n /\ n <= PageSize /\ PageLen(mFileSize, i) <= n
    <3> HIDE DEF i
    <3>1. size = IF mBackendSize - Start(i) < PageSize THEN mBackendSize - Start(i) ELSE PageSize
      BY DEF Smaller
    <3>2. realSize = IF mFileSize - Start(f.index) < PageSize THEN mFileSize - Start(f.index) ELSE PageSize
      BY DEF Smaller
    <3>3. n = IF size > realSize THEN size ELSE realSize
      BY DEF Larger
    <3>4. PageLen(mFileSize, i) = IF mFileSize - Start(i) < PageSize THEN mFileSize - Start(i) ELSE PageSize
      BY DEF PageLen, Smaller
    <3> HIDE DEF size, realSize, n
    <3> QED
      BY <1>3, <3>1, <3>2, <3>3, <3>4, SizesAssumption
  <2> HIDE DEF n
  <2>2. content \in Bytes /\ Good(content, Cached) /\ mFileSize = Len(content)
    BY DEF DataInv
  <2>3. i \notin DOMAIN Cached.pages /\ Start(i) < Cached.size
        /\ size = Smaller(Cached.size - Start(i), PageSize) /\ server = Cached.server
    BY <1>3, <1>6, CachedFields
  <2> HIDE DEF size, i
  <2>4. PageOK(content, page, i)
    BY <1>1, <2>1, <2>2, <2>3, FetchedPage
  <2>5. ~page.dirty
    OBVIOUS
  <2> HIDE DEF page
  <2>6. /\ IsState(Cached') /\ Cached'.pages = mPages' /\ Cached'.server = Cached.server
        /\ Cached'.exists = Cached.exists /\ Cached'.size = Cached.size
    BY <1>2, NextStateIs DEF fileVars
  <2>7. mPages' = SetPage(Cached.pages, i, page)
    BY <1>2, <1>6, CachedFields
  <2>8. Good(content, Cached')
    BY <1>1, <2>2, <2>3, <2>4, <2>5, <2>6, <2>7, AddClean
  <2>9. content' = content
    BY <1>2 DEF fileVars
  <2> QED
    BY <1>2, <1>4, <2>6, <2>8, <2>9, StateKeeps
<1> QED
  BY <1>5, <1>6

(* With the file's lock, no fetch thread has it. *)
LEMMA LockedKeeps ==
    ASSUME WriteLocked
    PROVE  LockedInRange'
BY DEF WriteLocked, LockedInRange, fetchVars

LEMMA WriterFailsData ==
    ASSUME DataInv, WriterFails
    PROVE  DataInv'
BY LockedKeeps, StutterKeeps DEF WriterFails

(* what is not flushed by way of FlushCreate() is a state like any other *)
LEMMA FlushedIsState ==
    ASSUME DataInv, WriteLocked, NEW s, Good(content, s), SetCached(s),
           UNCHANGED <<content, mFileSize, changes>>
    PROVE  DataInv'
<1>1. Cached' = s
  BY SetCachedLemma DEF Good, ServerOK
<1> QED
  BY <1>1, LockedKeeps DEF DataInv

LEMMA FlushPageData ==
    ASSUME DataInv, FlushPage
    PROVE  DataInv'
<1>1. PICK i \in DirtyPages(mPages) : SetCached(FlushRun(Cached, i))
  BY DEF FlushPage
<1>2. Good(content, FlushRun(Cached, i))
  BY CachedFields, FlushRunLemma DEF DataInv
<1> QED
  BY <1>1, <1>2, FlushedIsState DEF FlushPage

LEMMA FlushPagesData ==
    ASSUME DataInv, FlushPages
    PROVE  DataInv'
<1>1. Good(content, FlushAll(Cached))
  BY FlushAllLemma DEF DataInv
<1> QED
  BY <1>1, FlushedIsState DEF FlushPages

LEMMA EvictPageData ==
    ASSUME DataInv, EvictPage
    PROVE  DataInv'
<1>1. PICK i \in DOMAIN mPages :
         LET s == IF mPages[i].dirty THEN FlushRun(Cached, i) ELSE Cached
         IN  SetCached([s EXCEPT !.pages = Without(@, {i})])
  BY DEF EvictPage
<1> DEFINE s == IF mPages[i].dirty THEN FlushRun(Cached, i) ELSE Cached
           t == [s EXCEPT !.pages = Without(@, {i})]
<1>2. Good(content, s) /\ i \notin DirtyPages(s.pages)
  <2>1. CASE mPages[i].dirty
    <3>1. i \in DirtyPages(Cached.pages)
      BY <2>1, CachedFields DEF DirtyPages
    <3>2. Good(content, FlushRun(Cached, i)) /\ i \notin DirtyPages(FlushRun(Cached, i).pages)
      BY <3>1, FlushRunLemma DEF DataInv
    <3> QED
      BY <2>1, <3>2
  <2>2. CASE ~mPages[i].dirty
    BY <2>2, CachedFields DEF DataInv, DirtyPages
  <2> QED
    BY <2>1, <2>2
<1>3. SetCached(t)
  BY <1>1
<1> HIDE DEF s
<1>4. s = [pages |-> s.pages, server |-> s.server, exists |-> s.exists, size |-> s.size]
      /\ s.server \in Bytes /\ s.exists \in BOOLEAN /\ s.size \in Nat
  BY <1>2 DEF Good, ServerOK, IsState
<1>5. t = [pages |-> Without(s.pages, {i}), server |-> s.server, exists |-> s.exists, size |-> s.size]
  BY <1>4
<1> HIDE DEF t
<1>6. IsState(t) /\ t.server = s.server /\ t.exists = s.exists /\ t.size = s.size
      /\ t.pages = Without(s.pages, {i})
  BY <1>4, <1>5 DEF IsState
<1>7. Good(content, t)
  BY <1>2, <1>6, DropClean
<1> QED
  BY <1>3, <1>7, FlushedIsState DEF EvictPage

(* A file that is all at the server, with no page in memory *)
LEMMA FreshState ==
    ASSUME NEW c \in Bytes, NEW s, IsState(s), s.pages = <<>>, s.server = c, s.size = Len(c),
           s.exists \/ c = <<>>
    PROVE  Good(c, s)
<1>1. DOMAIN s.pages = {}
  OBVIOUS
<1>2. s.size \in Nat /\ (c = <<>> => Len(c) = 0)
  BY DEF IsState
<1> QED
  BY <1>1, <1>2 DEF Good, PagesOK, ServerOK, EndIsKnown, Stored, DirtyPages

LEMMA Constant ==
    ASSUME NEW v \in Nat, NEW n \in Nat
    PROVE  [k \in 1 .. n |-> v] \in Bytes /\ Len([k \in 1 .. n |-> v]) = n
<1>1. [k \in 1 .. n |-> v] \in Bytes
  BY IsASeq DEF Bytes
<1> QED
  BY <1>1, LenProperties DEF Bytes

(* another client has changed the file and no page is dirty: nothing is left of it *)
LEMMA RemoteChangedData ==
    ASSUME DataInv, RemoteChanged, Faults = {}
    PROVE  DataInv'
<1>1. DirtyPages(mPages) = {}
  BY DEF RemoteChanged
<1> DEFINE dirty == DirtyPages(mPages)
           ends == {EndOf(mPages, i) : i \in dirty}
<1>2. PICK size \in 0 .. MaxSize :
         /\ server' = [k \in 1 .. size |-> changes + 1]
         /\ mBackendSize' = size
         /\ mFileSize' = Max(ends \cup {size})
         /\ mPages' = [i \in dirty |-> mPages[i]]
         /\ content' = [k \in 1 .. Max(ends \cup {size}) |->
                LET i == PageOf(k)
                IN  IF i \in dirty /\ k <= EndOf(mPages, i) THEN mPages[i].data[k - Start(i)]
                    ELSE IF k <= size THEN changes + 1 ELSE 0]
  <2>1. \E size \in 0 .. MaxSize \ {mBackendSize} :
         /\ server' = [k \in 1 .. size |-> changes + 1]
         /\ mBackendSize' = size
         /\ mFileSize' = Max(ends \cup {size})
         /\ mPages' = [i \in dirty |-> mPages[i]]
         /\ content' = [k \in 1 .. Max(ends \cup {size}) |->
                LET i == PageOf(k)
                IN  IF i \in dirty /\ k <= EndOf(mPages, i) THEN mPages[i].data[k - Start(i)]
                    ELSE IF k <= size THEN changes + 1 ELSE 0]
    BY DEF RemoteChanged
  <2> QED
    BY <2>1
<1>3. size \in Nat /\ changes + 1 \in Nat /\ changes' = changes + 1 /\ mBackendExists /\ mBackendExists' = mBackendExists
  BY SizesAssumption DEF RemoteChanged, DataInv
<1>4. Max(ends \cup {size}) = size
  <2>1. ends \cup {size} = {size}
    BY <1>1
  <2>2. Max({size}) = size
    BY <1>3 DEF Max
  <2> QED
    BY <2>1, <2>2
<1>5. mPages' = <<>>
  BY <1>1, <1>2
<1>6. content' = [k \in 1 .. size |-> changes + 1]
  <2> DEFINE new(k) == LET i == PageOf(k)
                       IN  IF i \in dirty /\ k <= EndOf(mPages, i) THEN mPages[i].data[k - Start(i)]
                           ELSE IF k <= size THEN changes + 1 ELSE 0
  <2>1. content' = [k \in 1 .. size |-> new(k)]
    BY <1>2, <1>4
  <2>2. \A k \in 1 .. size : new(k) = changes + 1
    BY <1>1, <1>3
  <2> HIDE DEF new
  <2> QED
    BY <2>1, <2>2
<1>7. content' \in Bytes /\ Len(content') = size
  BY <1>3, <1>6, Constant
<1>8. server' = content' /\ mFileSize' = size
  BY <1>2, <1>4, <1>6
<1>9. /\ IsState(Cached') /\ Cached'.pages = <<>> /\ Cached'.server = content'
      /\ Cached'.size = Len(content') /\ Cached'.exists
  <2>1. mBackendExists \in BOOLEAN
    BY CachedFields DEF DataInv, Good, ServerOK, IsState
  <2> QED
    BY <1>2, <1>3, <1>5, <1>7, <1>8, <2>1 DEF Cached, IsState
<1>10. Good(content', Cached')
  BY <1>7, <1>9, FreshState
<1>11. LockedInRange'
  BY LockedKeeps DEF RemoteChanged
<1> QED
  BY <1>3, <1>7, <1>8, <1>10, <1>11 DEF DataInv

LEMMA InitData == Init => DataInv
<1> SUFFICES ASSUME Init PROVE DataInv
  OBVIOUS
<1>1. mBackendSize \in Nat /\ mBackendExists \in BOOLEAN /\ (mBackendExists \/ mBackendSize = 0)
  <2>1. \/ mBackendExists = TRUE /\ mBackendSize = InitialSize
        \/ mBackendExists = FALSE /\ mBackendSize = 0
    BY DEF Init
  <2>2. InitialSize \in Nat
    BY SizesAssumption
  <2>3. CASE mBackendExists = TRUE /\ mBackendSize = InitialSize
    BY <2>2, <2>3
  <2>4. CASE mBackendExists = FALSE /\ mBackendSize = 0
    BY <2>4
  <2> QED
    BY <2>1, <2>3, <2>4
<1>2. content \in Bytes /\ Len(content) = mBackendSize
  BY <1>1, Constant DEF Init
<1>3. mBackendExists \/ content = <<>>
  BY <1>1 DEF Init
<1>4. IsState(Cached)
  BY <1>1, <1>2 DEF Init, Cached, IsState
<1>5. Good(content, Cached)
  BY <1>2, <1>3, <1>4, CachedFields, FreshState DEF Init
<1> QED
  BY <1>2, <1>5 DEF Init, DataInv, LockedInRange

(* bytes of a page that is longer or shorter than it was *)
LEMMA ResizedPage ==
    ASSUME NEW c \in Bytes, NEW i \in Nat, NEW page, PageOK(c, page, i), NEW n \in 0 .. PageSize
    PROVE  /\ SizedTo(page, n) \in [data : Bytes, dirty : BOOLEAN]
           /\ SizedTo(page, n).dirty = page.dirty
           /\ Len(SizedTo(page, n).data) = n
           /\ \A k \in 1 .. n : SizedTo(page, n).data[k] = Byte(c, Start(i) + k)
<1> DEFINE d == page.data
           new == Resize(d, n)
           p == SizedTo(page, n)
<1>1. page \in [data : Bytes, dirty : BOOLEAN] /\ d \in Bytes /\ Len(d) \in Nat /\ n \in Nat
      /\ Start(i) \in Nat /\ Len(c) \in Nat /\ Start(i) < Len(c)
  <2>1. page \in [data : Bytes, dirty : BOOLEAN] /\ Start(i) < Len(c)
    BY DEF PageOK
  <2>2. Start(i) \in Nat /\ n \in Nat
    BY StartLemma, SizesAssumption
  <2> QED
    BY <2>1, <2>2 DEF Bytes
<1>2. PageLen(Len(c), i) <= Len(d) /\ \A k \in 1 .. Len(d) : d[k] = Byte(c, Start(i) + k)
  BY DEF PageOK
<1>3. new \in Bytes /\ Len(new) = n /\ \A k \in 1 .. n : new[k] = IF k <= Len(d) THEN d[k] ELSE 0
  BY <1>1, ResizeLemma
<1>4. p = [page EXCEPT !.data = new]
  BY DEF SizedTo
<1> HIDE DEF new, p
<1>5. p \in [data : Bytes, dirty : BOOLEAN] /\ p.dirty = page.dirty /\ p.data = new
  BY <1>1, <1>3, <1>4
<1>6. ASSUME NEW k \in 1 .. n PROVE new[k] = Byte(c, Start(i) + k)
  <2>1. k \in Nat /\ 1 <= k /\ k <= n /\ k <= PageSize
    BY SizesAssumption
  <2> HIDE DEF d
  <2>2. CASE k <= Len(d)
    <3>1. k \in 1 .. Len(d)
      BY <1>1, <2>1, <2>2
    <3> QED
      BY <1>2, <1>3, <2>2, <3>1
  <2>3. CASE ~(k <= Len(d))
    <3>1. ~(Start(i) + k <= Len(c))
      BY <1>1, <1>2, <2>1, <2>3, SizesAssumption DEF PageLen, Smaller
    <3> QED
      BY <1>3, <2>3, <3>1 DEF Byte
  <2> QED
    BY <2>2, <2>3
<1> QED
  BY <1>3, <1>5, <1>6 DEF p

LEMMA TruncatePages ==
    ASSUME NEW c \in Bytes, NEW s, Good(c, s), NEW n \in Nat,
           NEW t, t.pages = [i \in {j \in DOMAIN s.pages : n > 0 /\ j <= LastPage(n)} |->
                      SizedTo(s.pages[i], IF i = LastPage(n) THEN n - Start(i) ELSE PageSize)]
    PROVE  /\ PagesOK(Resize(c, n), t)
           /\ DirtyPages(t.pages) = {j \in DirtyPages(s.pages) : n > 0 /\ j <= LastPage(n)}
<1> DEFINE new == Resize(c, n)
           last == LastPage(n)
           kept == {j \in DOMAIN s.pages : n > 0 /\ j <= last}
<1>1. new \in Bytes /\ Len(new) = n /\ \A k \in 1 .. n : new[k] = IF k <= Len(c) THEN c[k] ELSE 0
  BY ResizeLemma
<1> HIDE DEF new
<1>2. ASSUME NEW i \in kept
      PROVE  /\ PageOK(new, t.pages[i], i)
             /\ t.pages[i].dirty = s.pages[i].dirty
  <2> DEFINE len == IF i = last THEN n - Start(i) ELSE PageSize
             p == SizedTo(s.pages[i], len)
  <2>1. PageOK(c, s.pages[i], i) /\ i \in Nat /\ Start(i) < Len(c) /\ Start(i) \in Nat
        /\ n \in Nat \ {0} /\ i <= last
    <3>1. PageOK(c, s.pages[i], i)
      BY DEF Good, PagesOK
    <3>2. i \in Nat /\ Start(i) < Len(c)
      BY <3>1 DEF PageOK
    <3> QED
      BY <3>1, <3>2, StartLemma
  <2>2. last \in Nat /\ Start(last) \in Nat /\ Start(last) < n /\ n <= Start(last) + PageSize
    BY <2>1, PageIndex DEF LastPage
  <2>3. Start(i) < n
    <3>1. i < last => Start(i) + PageSize <= Start(last)
      BY <2>1, <2>2, StartLemma
    <3> HIDE DEF last
    <3> QED
      BY <2>1, <2>2, <3>1, SizesAssumption
  <2>4. len = PageLen(n, i)
    BY <2>1, <2>3, LastPageLemma
  <2> HIDE DEF last, len
  <2>5. len \in 0 .. PageSize
    BY <2>1, <2>3, <2>4, SizesAssumption DEF PageLen, Smaller
  <2>6. /\ p \in [data : Bytes, dirty : BOOLEAN] /\ p.dirty = s.pages[i].dirty /\ Len(p.data) = len
        /\ \A k \in 1 .. len : p.data[k] = Byte(c, Start(i) + k)
    BY <2>1, <2>5, ResizedPage
  <2>7. t.pages[i] = p
    BY DEF last, len
  <2> HIDE DEF p
  <2>8. ASSUME NEW k \in 1 .. len PROVE Byte(new, Start(i) + k) = Byte(c, Start(i) + k)
    <3> DEFINE q == Start(i) + k
    <3>1. q \in 1 .. n
      BY <2>1, <2>3, <2>4, <2>5, SizesAssumption DEF PageLen, Smaller
    <3> HIDE DEF q
    <3>2. Byte(new, q) = Byte(c, q)
      BY <1>1, <3>1 DEF Byte
    <3> QED
      BY <3>2 DEF q
  <2>9. PageOK(new, p, i)
    <3>1. len <= PageSize /\ PageLen(n, i) <= len
      BY <2>4, <2>5, SizesAssumption
    <3>2. \A k \in 1 .. len : p.data[k] = Byte(new, Start(i) + k)
      BY <2>6, <2>8
    <3> QED
      BY <1>1, <2>1, <2>3, <2>4, <2>6, <3>1, <3>2 DEF PageOK
  <2> QED
    BY <2>6, <2>7, <2>9
<1>3. DOMAIN t.pages = kept
  OBVIOUS
<1>4. PagesOK(new, t)
  BY <1>2, <1>3 DEF PagesOK
<1>5. DirtyPages(t.pages) = {j \in DirtyPages(s.pages) : n > 0 /\ j <= last}
  BY <1>2, <1>3 DEF DirtyPages
<1> QED
  BY <1>4, <1>5 DEF new, last

LEMMA TruncateGood ==
    ASSUME NEW c \in Bytes, NEW s, Good(c, s), NEW n \in Nat,
           NEW t, IsState(t),
           t.pages = [i \in {j \in DOMAIN s.pages : n > 0 /\ j <= LastPage(n)} |->
                      SizedTo(s.pages[i], IF i = LastPage(n) THEN n - Start(i) ELSE PageSize)],
           t.exists = s.exists,
           IF s.exists /\ s.size # n THEN t.server = Resize(s.server, n) /\ t.size = n
           ELSE t.server = s.server /\ t.size = s.size
    PROVE  Good(Resize(c, n), t)
<1> DEFINE new == Resize(c, n)
<1>1. new \in Bytes /\ Len(new) = n /\ \A k \in 1 .. n : new[k] = IF k <= Len(c) THEN c[k] ELSE 0
  BY ResizeLemma
<1> HIDE DEF new
<1>2. /\ PagesOK(new, t)
      /\ DirtyPages(t.pages) = {j \in DirtyPages(s.pages) : n > 0 /\ j <= LastPage(n)}
  BY TruncatePages DEF new
<1>3. /\ s.server \in Bytes /\ s.size \in Nat /\ Len(s.server) = s.size /\ s.size <= Len(c)
      /\ (~s.exists => s.size = 0) /\ Len(c) \in Nat
      /\ \A k \in 1 .. Len(c) : PageOf(k) \notin DirtyPages(s.pages) => c[k] = Stored(s, k)
  BY DEF Good, ServerOK, IsState, Bytes
<1>4. /\ t.size = IF s.exists THEN n ELSE 0
      /\ Len(t.server) = t.size
      /\ \A k \in 1 .. n : Stored(t, k) = Stored(s, k)
  <2>1. CASE s.exists /\ s.size # n
    <3>1. t.server = Resize(s.server, n) /\ t.size = n
      BY <2>1
    <3>2. Len(t.server) = n /\ \A k \in 1 .. n : t.server[k] = IF k <= s.size THEN s.server[k] ELSE 0
      <4> DEFINE d == Resize(s.server, n)
      <4>1. Len(d) = n /\ \A k \in 1 .. n : d[k] = IF k <= Len(s.server) THEN s.server[k] ELSE 0
        BY <1>3, ResizeLemma
      <4>2. t.server = d /\ Len(s.server) = s.size
        BY <1>3, <3>1
      <4> HIDE DEF d
      <4> QED
        BY <4>1, <4>2
    <3> QED
      BY <2>1, <3>1, <3>2 DEF Stored
  <2>2. CASE ~(s.exists /\ s.size # n)
    <3>1. t.server = s.server /\ t.size = s.size
      BY <2>2
    <3> QED
      BY <1>3, <2>2, <3>1 DEF Stored
  <2> QED
    BY <2>1, <2>2
<1>5. ASSUME NEW k \in 1 .. n, PageOf(k) \notin DirtyPages(t.pages) PROVE new[k] = Stored(t, k)
  <2>1. n > 0 /\ n \in Nat \ {0} /\ k \in Nat \ {0} /\ k <= n
    OBVIOUS
  <2>2. PageOf(k) <= LastPage(n)
    <3>1. PageOf(k) \in Nat /\ Start(PageOf(k)) < k /\ Start(PageOf(k)) \in Nat
      BY <2>1, PageIndex
    <3>2. Start(PageOf(k)) < n
      BY <2>1, <3>1
    <3> QED
      BY <2>1, <3>1, <3>2, LastPageLemma
  <2>3. PageOf(k) \notin DirtyPages(s.pages)
    BY <1>2, <1>5, <2>1, <2>2
  <2>4. CASE k <= Len(c)
    <3>1. k \in 1 .. Len(c) /\ new[k] = c[k]
      BY <1>1, <1>3, <2>1, <2>4
    <3> QED
      BY <1>3, <1>4, <2>3, <3>1
  <2>5. CASE ~(k <= Len(c))
    <3>1. new[k] = 0 /\ ~(k <= s.size)
      BY <1>1, <1>3, <2>1, <2>5
    <3> QED
      BY <1>4, <3>1 DEF Stored
  <2> QED
    BY <2>4, <2>5
<1>6. ServerOK(new, t)
  BY <1>1, <1>4, <1>5 DEF ServerOK
<1>7. EndIsKnown(new, t)
  BY <1>1, <1>4 DEF EndIsKnown
<1>8. Good(new, t)
  BY <1>2, <1>6, <1>7 DEF Good
<1> QED
  BY <1>8 DEF new

LEMMA TruncateData ==
    ASSUME DataInv, Truncate
    PROVE  DataInv'
<1>1. PICK n \in 0 .. MaxSize : TruncateTo(n) /\ content' = Resize(content, n)
  BY DEF Truncate
<1>2. n \in Nat /\ content \in Bytes /\ Good(content, Cached) /\ changes' = changes + 1 /\ changes \in Nat
  BY SizesAssumption DEF DataInv, Truncate
<1>3. /\ IF mBackendExists /\ mBackendSize # n
         THEN server' = Resize(server, n) /\ mBackendSize' = n
         ELSE server' = server /\ mBackendSize' = mBackendSize
      /\ mFileSize' = n /\ mBackendExists' = mBackendExists
      /\ mPages' = [i \in {j \in DOMAIN mPages : n > 0 /\ j <= LastPage(n)} |->
               SizedTo(mPages[i], IF i = LastPage(n) THEN n - Start(i) ELSE PageSize)]
  BY <1>1 DEF TruncateTo
<1>4. /\ Cached'.pages = mPages' /\ Cached'.server = server' /\ Cached'.exists = mBackendExists'
      /\ Cached'.size = mBackendSize'
      /\ Cached' = [pages |-> mPages', server |-> server', exists |-> mBackendExists', size |-> mBackendSize']
  BY DEF Cached
<1>5. server \in Bytes /\ mBackendSize \in Nat /\ mBackendExists \in BOOLEAN
  BY CachedFields DEF DataInv, Good, ServerOK, IsState
<1>6. Resize(server, n) \in Bytes
  BY <1>2, <1>5, ResizeLemma
<1>7. IsState(Cached')
  BY <1>2, <1>3, <1>4, <1>5, <1>6 DEF IsState
<1>8. Good(Resize(content, n), Cached')
  <2> DEFINE t == Cached'
  <2>1. /\ IsState(t) /\ t.exists = Cached.exists
        /\ t.pages = [i \in {j \in DOMAIN Cached.pages : n > 0 /\ j <= LastPage(n)} |->
                SizedTo(Cached.pages[i], IF i = LastPage(n) THEN n - Start(i) ELSE PageSize)]
        /\ IF Cached.exists /\ Cached.size # n THEN t.server = Resize(Cached.server, n) /\ t.size = n
           ELSE t.server = Cached.server /\ t.size = Cached.size
    BY <1>3, <1>4, <1>7, CachedFields
  <2> HIDE DEF t
  <2>2. Good(Resize(content, n), t)
    BY <1>2, <2>1, TruncateGood
  <2> QED
    BY <2>2 DEF t
<1>9. content' \in Bytes /\ Len(content') = n
  BY <1>1, <1>2, ResizeLemma
<1>10. LockedInRange'
  BY LockedKeeps DEF Truncate
<1> QED
  BY <1>1, <1>2, <1>3, <1>8, <1>9, <1>10 DEF DataInv

-----------------------------------------------------------------------------
(* What a write to a page does to the file *)
IsWrite(i, offset, data) ==
    /\ i \in Nat /\ offset \in 0 .. PageSize - 1
    /\ data \in Bytes /\ Len(data) \in 1 .. PageSize - offset
NewContent(c, i, offset, data) == WriteAt(c, Start(i) + offset, data)

LEMMA WriteRange ==
    ASSUME NEW i, NEW offset, NEW data, IsWrite(i, offset, data)
    PROVE  /\ i \in Nat /\ Start(i) \in Nat /\ offset \in Nat /\ offset < PageSize
           /\ Len(data) \in Nat /\ 0 < Len(data) /\ offset + Len(data) <= PageSize
           /\ Start(i) + offset \in Nat /\ data \in Bytes
<1>1. i \in Nat /\ offset \in Nat /\ offset < PageSize /\ data \in Bytes
  BY SizesAssumption DEF IsWrite
<1>2. Len(data) \in Nat /\ 0 < Len(data) /\ offset + Len(data) <= PageSize
  BY <1>1, SizesAssumption DEF IsWrite
<1>3. Start(i) \in Nat
  BY <1>1, StartLemma
<1> QED
  BY <1>1, <1>2, <1>3

LEMMA WrittenBytes ==
    ASSUME NEW c \in Bytes, NEW i, NEW offset, NEW data, IsWrite(i, offset, data)
    PROVE  LET new == NewContent(c, i, offset, data)
               a == Start(i) + offset
               b == a + Len(data)
           IN  /\ new \in Bytes /\ Len(new) = Larger(Len(c), b) /\ Len(new) \in Nat
               /\ Len(c) <= Len(new) /\ b <= Len(new) /\ (Len(new) = Len(c) \/ Len(new) = b)
               /\ \A q \in Nat : 0 < q => Byte(new, q) =
                     IF a < q /\ q <= b THEN data[q - a] ELSE Byte(c, q)
<1> DEFINE new == NewContent(c, i, offset, data)
           a == Start(i) + offset
           b == a + Len(data)
           n == Larger(Len(c), b)
<1>1. a \in Nat /\ data \in Bytes /\ Len(data) \in Nat
  BY WriteRange
<1>2. Len(c) \in Nat
  BY DEF Bytes
<1>3. new = WriteAt(c, a, data)
  BY DEF NewContent
<1> HIDE DEF new, a
<1>4. /\ new \in Bytes /\ Len(new) = n
      /\ \A k \in 1 .. n : new[k] = IF k > a /\ k <= b THEN data[k - a]
                                     ELSE IF k <= Len(c) THEN c[k] ELSE 0
  BY <1>1, <1>3, WriteAtLemma
<1>5. b \in Nat
  BY <1>1
<1> HIDE DEF b
<1>6. n = IF Len(c) > b THEN Len(c) ELSE b
  BY DEF Larger
<1> HIDE DEF n
<1>7. n \in Nat /\ Len(c) <= n /\ b <= n /\ (n = Len(c) \/ n = b)
  BY <1>2, <1>5, <1>6
<1>8. ASSUME NEW q \in Nat, 0 < q
      PROVE  Byte(new, q) = IF a < q /\ q <= b THEN data[q - a] ELSE Byte(c, q)
  <2>1. CASE q <= n
    <3>1. q \in 1 .. n
      BY <1>7, <1>8, <2>1
    <3>2. Byte(new, q) = new[q]
      BY <1>4, <2>1 DEF Byte
    <3>3. q > a <=> a < q
      BY <1>1
    <3> QED
      BY <1>4, <3>1, <3>2, <3>3 DEF Byte
  <2>2. CASE ~(q <= n)
    <3>1. ~(q <= b) /\ ~(q <= Len(c))
      BY <1>2, <1>5, <1>7, <2>2
    <3> QED
      BY <1>4, <2>2, <3>1 DEF Byte
  <2> QED
    BY <2>1, <2>2
<1> QED
  BY <1>4, <1>7, <1>8 DEF new, a, b, n

(* GetPageWrite(): the page has what the file has, but where it is written over *)
LEMMA PageForWriteLemma ==
    ASSUME DataInv, NEW i, NEW offset, NEW data, IsWrite(i, offset, data),
           NEW size \in 1 .. PageSize,
           NEW partial, partial <=> offset > 0 \/ Len(data) < size
    PROVE  LET page == PageForWrite(i, size, partial)
           IN  /\ page.data \in Bytes /\ Len(page.data) = size
               /\ \A k \in 1 .. size : ~(offset < k /\ k <= offset + Len(data)) =>
                     page.data[k] = Byte(content, Start(i) + k)
<1> DEFINE page == PageForWrite(i, size, partial)
           old == SubSeq(server, Start(i) + 1, Smaller(mBackendSize, Start(i + 1)))
<1>1. i \in Nat /\ Start(i) \in Nat /\ offset \in Nat /\ Len(data) \in Nat
      /\ size \in Nat /\ size <= PageSize /\ PageSize \in Nat /\ Start(i + 1) = Start(i) + PageSize
  <2>1. i \in Nat /\ Start(i) \in Nat /\ offset \in Nat /\ Len(data) \in Nat
    BY WriteRange
  <2>2. Start(i + 1) = Start(i) + PageSize
    BY <2>1, StartLemma
  <2> QED
    BY <2>1, <2>2, SizesAssumption
<1>2. /\ content \in Bytes /\ Good(content, Cached) /\ server \in Bytes /\ mBackendSize \in Nat
      /\ Len(server) = mBackendSize
  BY CachedFields DEF DataInv, Good, ServerOK, IsState
<1>3. CASE i \in DOMAIN mPages
  <2>1. page = SizedTo(mPages[i], size)
    BY <1>3 DEF PageForWrite
  <2>2. PageOK(content, mPages[i], i)
    BY <1>2, <1>3, CachedFields DEF Good, PagesOK
  <2>3. size \in 0 .. PageSize
    BY <1>1
  <2> HIDE DEF page
  <2>4. /\ page \in [data : Bytes, dirty : BOOLEAN] /\ Len(page.data) = size
        /\ \A k \in 1 .. size : page.data[k] = Byte(content, Start(i) + k)
    BY <1>1, <1>2, <2>1, <2>2, <2>3, ResizedPage
  <2> QED
    BY <2>4 DEF page
<1>4. CASE i \notin DOMAIN mPages
  <2>1. \A k \in 1 .. PageSize : Byte(content, Start(i) + k) =
            IF Start(i) + k <= mBackendSize THEN server[Start(i) + k] ELSE 0
    <3>1. i \notin DirtyPages(Cached.pages)
      BY <1>4, CachedFields DEF DirtyPages
    <3>2. \A k \in 1 .. PageSize : Byte(content, Start(i) + k) = Stored(Cached, Start(i) + k)
      BY <1>1, <1>2, <3>1, StoredByte
    <3> QED
      BY <3>2, CachedFields DEF Stored
  <2>2. CASE Start(i) >= mBackendSize \/ ~partial
    <3>1. page = [data |-> Resize(<<>>, size), dirty |-> FALSE]
      BY <1>4, <2>2 DEF PageForWrite
    <3> DEFINE d == Resize(<<>>, size)
    <3>2. d \in Bytes /\ Len(d) = size /\ \A k \in 1 .. size : d[k] = 0
      <4>1. <<>> \in Bytes /\ Len(<<>>) = 0
        BY DEF Bytes
      <4>2. \A k \in 1 .. size : ~(k <= 0)
        BY <1>1
      <4> QED
        BY <1>1, <4>1, <4>2, ResizeLemma
    <3> HIDE DEF d
    <3>3. page.data = d
      BY <3>1 DEF d
    <3>4. ASSUME NEW k \in 1 .. size, ~(offset < k /\ k <= offset + Len(data))
          PROVE  Byte(content, Start(i) + k) = 0
      <4>1. k \in 1 .. PageSize
        BY <1>1
      <4>2. CASE Start(i) >= mBackendSize
        <5>1. ~(Start(i) + k <= mBackendSize)
          BY <1>1, <1>2, <4>1, <4>2
        <5> QED
          BY <2>1, <4>1, <5>1
      <4>3. CASE ~partial
        <5>1. ~(offset > 0 \/ Len(data) < size)
          BY <4>3
        <5> QED
          BY <1>1, <3>4, <5>1
      <4> QED
        BY <2>2, <4>2, <4>3
    <3> HIDE DEF page
    <3> QED
      BY <3>2, <3>3, <3>4 DEF page
  <2>3. CASE ~(Start(i) >= mBackendSize \/ ~partial)
    <3> DEFINE e == Smaller(mBackendSize, Start(i + 1))
               d == Resize(old, size)
    <3>1. page = [data |-> d, dirty |-> FALSE]
      BY <1>4, <2>3 DEF PageForWrite
    <3>2. /\ e \in Nat /\ Start(i) <= e /\ e <= Len(server) /\ e <= Start(i) + PageSize
          /\ e = mBackendSize \/ e = Start(i) + PageSize
      BY <1>1, <1>2, <2>3, SizesAssumption DEF Smaller
    <3> HIDE DEF e
    <3>3. old \in Bytes /\ Len(old) = e - Start(i)
          /\ \A k \in 1 .. e - Start(i) : old[k] = server[Start(i) + k]
      <4> DEFINE w == SubSeq(server, Start(i) + 1, e)
      <4>1. w \in Bytes /\ Len(w) = e - Start(i)
            /\ \A k \in 1 .. e - Start(i) : w[k] = server[Start(i) + k]
        <5>1. server \in Bytes /\ Start(i) \in Nat /\ e \in Nat /\ Start(i) <= e /\ e <= Len(server)
          BY <1>1, <1>2, <3>2
        <5> QED
          BY <5>1, SubSeqLemma
      <4> QED
        BY <4>1 DEF e
    <3> HIDE DEF old
    <3>4. d \in Bytes /\ Len(d) = size /\ \A k \in 1 .. size : d[k] = IF k <= Len(old) THEN old[k] ELSE 0
      BY <1>1, <3>3, ResizeLemma
    <3> HIDE DEF d
    <3>5. ASSUME NEW k \in 1 .. size PROVE d[k] = Byte(content, Start(i) + k)
      <4>1. k \in 1 .. PageSize
        BY <1>1
      <4>2. CASE k <= Len(old)
        <5>1. k \in 1 .. e - Start(i) /\ Start(i) + k <= mBackendSize
          BY <1>1, <1>2, <3>2, <3>3, <4>1, <4>2
        <5> QED
          BY <2>1, <3>3, <3>4, <4>1, <4>2, <5>1
      <4>3. CASE ~(k <= Len(old))
        <5>1. ~(Start(i) + k <= mBackendSize)
          BY <1>1, <1>2, <3>2, <3>3, <4>1, <4>3
        <5> QED
          BY <2>1, <3>4, <4>1, <4>3, <5>1
      <4> QED
        BY <4>2, <4>3
    <3>6. page.data = d
      BY <3>1
    <3> HIDE DEF page
    <3> QED
      BY <3>4, <3>5, <3>6 DEF page
  <2> QED
    BY <2>2, <2>3
<1> QED
  BY <1>3, <1>4

LEMMA WrittenPage ==
    ASSUME DataInv, NEW i, NEW offset, NEW data, IsWrite(i, offset, data),
           NEW new, new = NewContent(content, i, offset, data),
           NEW size, size = PageLen(Len(new), i),
           NEW partial, partial <=> offset > 0 \/ Len(data) < size
    PROVE  PageOK(new, [data |-> WriteAt(PageForWrite(i, size, partial).data, offset, data),
                        dirty |-> TRUE], i)
<1> DEFINE a == Start(i) + offset
           b == a + Len(data)
           before == PageForWrite(i, size, partial).data
           after == WriteAt(before, offset, data)
           page == [data |-> after, dirty |-> TRUE]
<1>1. /\ i \in Nat /\ Start(i) \in Nat /\ offset \in Nat /\ offset < PageSize
      /\ Len(data) \in Nat /\ 0 < Len(data) /\ offset + Len(data) <= PageSize
      /\ a \in Nat /\ data \in Bytes
  BY WriteRange
<1>2. content \in Bytes
  BY DEF DataInv
<1>3. /\ new \in Bytes /\ Len(new) \in Nat /\ b <= Len(new)
      /\ \A q \in Nat : 0 < q => Byte(new, q) =
            IF a < q /\ q <= b THEN data[q - a] ELSE Byte(content, q)
  BY <1>2, WrittenBytes
<1>4. size \in 1 .. PageSize /\ offset + Len(data) <= size /\ Start(i) < Len(new)
  BY <1>1, <1>3, SizesAssumption DEF PageLen, Smaller
<1>5. /\ before \in Bytes /\ Len(before) = size
      /\ \A k \in 1 .. size : ~(offset < k /\ k <= offset + Len(data)) =>
            before[k] = Byte(content, Start(i) + k)
  BY <1>4, PageForWriteLemma
<1> HIDE DEF before
<1>6. Larger(size, offset + Len(data)) = size
  BY <1>1, <1>4 DEF Larger
<1>7. /\ after \in Bytes /\ Len(after) = size
      /\ \A k \in 1 .. size : after[k] =
            IF k > offset /\ k <= offset + Len(data) THEN data[k - offset]
            ELSE IF k <= size THEN before[k] ELSE 0
  <2>1. /\ after \in Bytes /\ Len(after) = Larger(Len(before), offset + Len(data))
        /\ \A k \in 1 .. Larger(Len(before), offset + Len(data)) : after[k] =
              IF k > offset /\ k <= offset + Len(data) THEN data[k - offset]
              ELSE IF k <= Len(before) THEN before[k] ELSE 0
    BY <1>1, <1>5, WriteAtLemma
  <2>2. Len(before) = size /\ Larger(Len(before), offset + Len(data)) = size
    BY <1>5, <1>6
  <2> HIDE DEF after
  <2> QED
    BY <2>1, <2>2
<1> HIDE DEF after
<1>8. ASSUME NEW k \in 1 .. size PROVE after[k] = Byte(new, Start(i) + k)
  <2> DEFINE q == Start(i) + k
  <2>1. k \in Nat /\ 1 <= k /\ k <= size /\ q \in Nat /\ 0 < q /\ q - a = k - offset
        /\ (a < q <=> offset < k) /\ (q <= b <=> k <= offset + Len(data))
        /\ (k > offset <=> offset < k)
    <3>1. k \in Nat /\ 1 <= k /\ k <= size
      BY <1>4, SizesAssumption
    <3>2. q \in Nat /\ 0 < q
      BY <1>1, <3>1
    <3>3. q - a = k - offset /\ (a < q <=> offset < k)
      BY <1>1, <3>1
    <3>4. (q <= b <=> k <= offset + Len(data)) /\ (k > offset <=> offset < k)
      BY <1>1, <3>1
    <3> QED
      BY <3>1, <3>2, <3>3, <3>4
  <2> HIDE DEF q, a, b
  <2>2. Byte(new, q) = IF a < q /\ q <= b THEN data[q - a] ELSE Byte(content, q)
    BY <1>3, <2>1
  <2>3. CASE offset < k /\ k <= offset + Len(data)
    <3>1. Byte(new, q) = data[k - offset]
      BY <2>1, <2>2, <2>3
    <3>2. after[k] = data[k - offset]
      BY <1>7, <2>1, <2>3
    <3> QED
      BY <3>1, <3>2 DEF q
  <2>4. CASE ~(offset < k /\ k <= offset + Len(data))
    <3>1. Byte(new, q) = Byte(content, q)
      BY <2>1, <2>2, <2>4
    <3>2. after[k] = before[k]
      BY <1>7, <2>1, <2>4
    <3>3. before[k] = Byte(content, q)
      BY <1>5, <2>4 DEF q
    <3> QED
      BY <3>1, <3>2, <3>3 DEF q
  <2> QED
    BY <2>3, <2>4
<1>9. page \in [data : Bytes, dirty : BOOLEAN] /\ page.data = after /\ page.dirty = TRUE
  BY <1>7
<1> HIDE DEF page
<1>10. PageOK(new, page, i)
  <2>1. size <= PageSize /\ size <= size
    BY <1>4, SizesAssumption
  <2> QED
    BY <1>1, <1>4, <1>7, <1>8, <1>9, <2>1 DEF PageOK
<1> QED
  BY <1>10 DEF page, after, before

(* The bytes of the other pages are what they were. *)
LEMMA OtherBytes ==
    ASSUME DataInv, NEW i, NEW offset, NEW data, IsWrite(i, offset, data),
           NEW new, new = NewContent(content, i, offset, data),
           NEW j \in Nat, j # i, NEW k \in 1 .. PageSize
    PROVE  Byte(new, Start(j) + k) = Byte(content, Start(j) + k)
<1> DEFINE a == Start(i) + offset
           b == a + Len(data)
           q == Start(j) + k
<1>1. /\ i \in Nat /\ Start(i) \in Nat /\ offset \in Nat /\ Len(data) \in Nat
      /\ offset + Len(data) <= PageSize /\ content \in Bytes
  BY WriteRange DEF DataInv
<1>2. Start(j) \in Nat /\ k \in Nat /\ 1 <= k /\ k <= PageSize
  BY StartLemma, SizesAssumption
<1>3. q \in Nat /\ 0 < q /\ Start(j) < q /\ q <= Start(j) + PageSize
  BY <1>2, SizesAssumption
<1>4. Byte(new, q) = IF a < q /\ q <= b THEN data[q - a] ELSE Byte(content, q)
  <2>1. \A m \in Nat : 0 < m => Byte(new, m) =
           IF a < m /\ m <= b THEN data[m - a] ELSE Byte(content, m)
    BY <1>1, WrittenBytes
  <2> HIDE DEF q, a, b
  <2> QED
    BY <1>3, <2>1
<1>5. ASSUME a < q, q <= b PROVE FALSE
  <2>1. Start(i) < q /\ q <= Start(i) + PageSize
    BY <1>1, <1>3, <1>5, SizesAssumption
  <2>2. PageOf(q) = i /\ PageOf(q) = j
    <3> HIDE DEF q
    <3> QED
      BY <1>1, <1>3, <2>1, PageUnique
  <2> QED
    BY <2>2
<1> QED
  BY <1>4, <1>5

(* A write past the end leaves no page too short: the old last page is extended. *)
LEMMA OtherPages ==
    ASSUME DataInv, NEW i, NEW offset, NEW data, IsWrite(i, offset, data),
           NEW new, new = NewContent(content, i, offset, data),
           NEW j \in DOMAIN mPages, j # i
    PROVE  /\ DOMAIN OldLastExtended(i) = DOMAIN mPages
           /\ PageOK(new, OldLastExtended(i)[j], j)
           /\ OldLastExtended(i)[j].dirty = mPages[j].dirty
<1> DEFINE n == Len(content)
           old == LastPage(mFileSize)
           extended == i \notin DOMAIN mPages /\ Start(i) >= mBackendSize
                       /\ Start(i) > mFileSize /\ mFileSize > 0 /\ old \in DOMAIN mPages
           page == OldLastExtended(i)[j]
<1>1. /\ content \in Bytes /\ n = mFileSize /\ n \in Nat /\ mBackendSize \in Nat /\ mBackendSize <= n
      /\ \A p \in DOMAIN mPages : PageOK(content, mPages[p], p)
  BY CachedFields DEF DataInv, Good, PagesOK, ServerOK, IsState, Bytes
<1>2. /\ i \in Nat /\ Start(i) \in Nat /\ offset \in Nat /\ 0 < Len(data) /\ Len(data) \in Nat
      /\ offset + Len(data) <= PageSize
  BY WriteRange
<1>3. /\ PageOK(content, mPages[j], j) /\ j \in Nat /\ Start(j) \in Nat /\ Start(j) < n
      /\ n \in Nat \ {0}
  <2>1. PageOK(content, mPages[j], j)
    BY <1>1
  <2>2. j \in Nat /\ Start(j) < n
    BY <2>1 DEF PageOK
  <2> QED
    BY <1>1, <2>1, <2>2, StartLemma
<1>4. /\ mPages[j] \in [data : Bytes, dirty : BOOLEAN]
      /\ PageLen(n, j) <= Len(mPages[j].data) /\ Len(mPages[j].data) <= PageSize
      /\ Len(mPages[j].data) \in Nat
      /\ mPages[j].dirty => Len(mPages[j].data) = PageLen(n, j)
      /\ \A k \in 1 .. Len(mPages[j].data) : mPages[j].data[k] = Byte(content, Start(j) + k)
  BY <1>3 DEF PageOK, Bytes
<1>5. /\ Len(new) \in Nat /\ n <= Len(new)
      /\ Start(i) + offset + Len(data) <= Len(new)
      /\ Len(new) = n \/ Len(new) = Start(i) + offset + Len(data)
  BY <1>1, WrittenBytes
<1>6. \A k \in 1 .. PageSize : Byte(new, Start(j) + k) = Byte(content, Start(j) + k)
  BY <1>3, OtherBytes
<1>7. Start(j) < Len(new)
  BY <1>3, <1>5
<1>8. DOMAIN OldLastExtended(i) = DOMAIN mPages
  BY DEF OldLastExtended, SetPage
<1>9. page = IF extended /\ j = old THEN SizedTo(mPages[j], PageSize) ELSE mPages[j]
  BY DEF OldLastExtended, SetPage
<1> HIDE DEF n, old, extended, page
<1>10. (i < j => Start(i) + PageSize <= Start(j)) /\ (j < i => Start(j) + PageSize <= Start(i))
  BY <1>2, <1>3, StartLemma
<1>11. old = LastPage(n)
  BY <1>1 DEF old
<1>12. /\ j <= old /\ old \in Nat /\ (j = old <=> PageLen(n, j) = n - Start(j))
       /\ (j # old => PageLen(n, j) = PageSize)
       /\ (j < old <=> Start(j) + PageSize < n)
  BY <1>3, <1>11, LastPageLemma
<1>13. CASE extended /\ j = old
  <2>1. page = SizedTo(mPages[j], PageSize)
    BY <1>9, <1>13
  <2>2. PageSize \in 0 .. PageSize
    BY SizesAssumption
  <2>3. /\ page \in [data : Bytes, dirty : BOOLEAN] /\ page.dirty = mPages[j].dirty
        /\ Len(page.data) = PageSize
        /\ \A k \in 1 .. PageSize : page.data[k] = Byte(content, Start(j) + k)
    BY <1>1, <1>3, <2>1, <2>2, ResizedPage
  <2>4. PageLen(Len(new), j) = PageSize
    <3>1. n < Start(i)
      BY <1>1, <1>2, <1>13 DEF extended
    <3>2. j < i
      BY <1>2, <1>3, <1>10, <3>1, SizesAssumption
    <3> QED
      BY <1>2, <1>3, <1>5, <1>10, <3>2, SizesAssumption DEF PageLen, Smaller
  <2>5. PageOK(new, page, j)
    <3>1. PageSize <= PageSize
      BY SizesAssumption
    <3> QED
      BY <1>3, <1>6, <1>7, <2>3, <2>4, <3>1 DEF PageOK
  <2> QED
    BY <1>8, <2>3, <2>5 DEF page
<1>14. CASE ~(extended /\ j = old)
  <2>1. page = mPages[j]
    BY <1>9, <1>14
  <2>2. PageLen(Len(new), j) <= Len(page.data)
        /\ (page.dirty => Len(page.data) = PageLen(Len(new), j))
    <3>1. CASE Len(new) = n
      BY <1>4, <2>1, <3>1
    <3>2. CASE Len(new) # n
      <4>1. Len(new) = Start(i) + offset + Len(data) /\ n < Len(new)
        BY <1>3, <1>5, <3>2
      <4>2. j < i
        BY <1>2, <1>3, <1>7, <1>10, <4>1, SizesAssumption
      <4>3. Start(j) + PageSize <= Start(i) /\ Start(i) < Len(new)
        BY <1>2, <1>10, <4>1, <4>2
      <4>4. PageLen(Len(new), j) = PageSize
        BY <1>2, <1>3, <1>5, <4>3, SizesAssumption DEF PageLen, Smaller
      <4>5. PageLen(n, j) = PageSize
        <5>1. CASE j # old
          BY <1>12, <5>1
        <5>2. CASE j = old
          <6>1. ~extended
            BY <1>14, <5>2
          <6>2. i \notin DOMAIN mPages
            <7>1. i \in DOMAIN mPages => Start(i) < n
              BY <1>1 DEF PageOK, n
            <7>2. ~(Start(j) + PageSize < n)
              BY <1>12, <5>2
            <7> QED
              BY <1>2, <1>3, <4>3, <7>1, <7>2, SizesAssumption
          <6>3. n <= Start(i)
            BY <1>2, <1>3, <1>12, <4>3, <5>2, SizesAssumption
          <6>4. Start(i) >= mBackendSize /\ mFileSize > 0 /\ old \in DOMAIN mPages
            BY <1>1, <1>2, <1>3, <5>2, <6>3
          <6>5. ~(Start(i) > mFileSize)
            BY <6>1, <6>2, <6>4 DEF extended
          <6>6. n = Start(i)
            BY <1>1, <1>2, <6>3, <6>5
          <6> QED
            BY <1>3, <4>3, <6>6, SizesAssumption DEF PageLen, Smaller
        <5> QED
          BY <5>1, <5>2
      <4> QED
        BY <1>4, <2>1, <4>4, <4>5, SizesAssumption
    <3> QED
      BY <3>1, <3>2
  <2>3. \A k \in 1 .. Len(page.data) : page.data[k] = Byte(new, Start(j) + k)
    <3>1. \A k \in 1 .. Len(mPages[j].data) : k \in 1 .. PageSize
      BY <1>4, SizesAssumption
    <3> QED
      BY <1>4, <1>6, <2>1, <3>1
  <2>4. PageOK(new, page, j)
    BY <1>3, <1>4, <1>7, <2>1, <2>2, <2>3 DEF PageOK
  <2> QED
    BY <1>8, <2>1, <2>4 DEF page
<1> QED
  BY <1>13, <1>14

LEMMA WriteInData ==
    ASSUME DataInv, NEW i, NEW offset, NEW data, IsWrite(i, offset, data), WriteIn(i, offset, data),
           content' = NewContent(content, i, offset, data),
           UNCHANGED <<server, mBackendExists, mBackendSize>>
    PROVE  /\ content' \in Bytes /\ mFileSize' = Len(content')
           /\ Good(content', Cached')
<1> DEFINE new == NewContent(content, i, offset, data)
           n == Len(content)
           b == Start(i) + offset + Len(data)
           size == PageLen(Len(new), i)
           partial == offset > 0 \/ Len(data) < size
           page == [data |-> WriteAt(PageForWrite(i, size, partial).data, offset, data), dirty |-> TRUE]
<1>1. /\ content \in Bytes /\ n = mFileSize /\ n \in Nat /\ Good(content, Cached)
      /\ mBackendSize \in Nat /\ mBackendSize <= n
      /\ (mBackendExists /\ mBackendSize < n => LastPage(n) \in DirtyPages(mPages))
      /\ \A k \in 1 .. n : PageOf(k) \notin DirtyPages(mPages) => content[k] = Stored(Cached, k)
      /\ Len(server) = mBackendSize /\ (~mBackendExists => mBackendSize = 0)
  BY CachedFields DEF DataInv, Good, ServerOK, IsState, EndIsKnown, Bytes
<1>2. /\ i \in Nat /\ Start(i) \in Nat /\ offset \in Nat /\ 0 < Len(data) /\ Len(data) \in Nat
      /\ offset + Len(data) <= PageSize
  BY WriteRange
<1>3. /\ new \in Bytes /\ Len(new) = Larger(n, b) /\ Len(new) \in Nat
      /\ n <= Len(new) /\ b <= Len(new) /\ (Len(new) = n \/ Len(new) = b)
      /\ \A q \in Nat : 0 < q => Byte(new, q) =
            IF Start(i) + offset < q /\ q <= b THEN data[q - (Start(i) + offset)] ELSE Byte(content, q)
  BY <1>1, WrittenBytes
<1>4. /\ mFileSize' = Len(new)
      /\ mPages' = SetPage(OldLastExtended(i), i, page)
  <2>1. Larger(mFileSize, b) = Len(new)
    BY <1>1, <1>3
  <2>2. /\ mFileSize' = Larger(mFileSize, b)
        /\ mPages' = LET pageSize == Smaller(Larger(mFileSize, b) - Start(i), PageSize)
                         p == PageForWrite(i, pageSize, offset > 0 \/ Len(data) < pageSize)
                     IN  SetPage(OldLastExtended(i), i, [data |-> WriteAt(p.data, offset, data), dirty |-> TRUE])
    BY DEF WriteIn
  <2> HIDE DEF new, b
  <2> QED
    BY <2>1, <2>2 DEF PageLen
<1>5. PageOK(new, page, i)
  BY WrittenPage
<1>6. page.dirty
  OBVIOUS
<1> HIDE DEF new, page
<1>7. /\ DOMAIN mPages' = DOMAIN mPages \cup {i} /\ mPages'[i] = page
      /\ \A j \in DOMAIN mPages \ {i} :
            PageOK(new, mPages'[j], j) /\ mPages'[j].dirty = mPages[j].dirty
  <2>1. DOMAIN OldLastExtended(i) = DOMAIN mPages
    BY DEF OldLastExtended, SetPage
  <2>2. DOMAIN mPages' = DOMAIN mPages \cup {i} /\ mPages'[i] = page
        /\ \A j \in DOMAIN mPages \ {i} : mPages'[j] = OldLastExtended(i)[j]
    BY <1>4, <2>1 DEF SetPage
  <2>3. \A j \in DOMAIN mPages \ {i} :
           PageOK(new, OldLastExtended(i)[j], j) /\ OldLastExtended(i)[j].dirty = mPages[j].dirty
    BY OtherPages DEF new
  <2> QED
    BY <2>2, <2>3
<1>8. DirtyPages(mPages') = DirtyPages(mPages) \cup {i}
  BY <1>6, <1>7 DEF DirtyPages
<1>9. /\ IsState(Cached') /\ Cached'.pages = mPages' /\ Cached'.server = server
      /\ Cached'.exists = mBackendExists /\ Cached'.size = mBackendSize
  BY NextStateIs, CachedFields
<1>10. PagesOK(new, Cached')
  BY <1>5, <1>7, <1>9 DEF PagesOK
<1>11. ASSUME NEW k \in 1 .. Len(new), PageOf(k) \notin DirtyPages(mPages')
       PROVE  new[k] = Stored(Cached', k)
  <2>1. k \in Nat /\ 0 < k /\ k <= Len(new)
    BY <1>3
  <2>2. ~(Start(i) + offset < k /\ k <= b)
    <3>1. SUFFICES ASSUME Start(i) + offset < k, k <= b PROVE PageOf(k) = i
      BY <1>8, <1>11
    <3>2. Start(i) < k /\ k <= Start(i) + PageSize
      BY <1>2, <2>1, <3>1, SizesAssumption
    <3> QED
      BY <1>2, <2>1, <3>2, PageUnique
  <2>3. Byte(new, k) = Byte(content, k) /\ Byte(new, k) = new[k]
    BY <1>3, <2>1, <2>2 DEF Byte
  <2>4. Stored(Cached', k) = Stored(Cached, k)
    BY <1>9, CachedFields DEF Stored
  <2>5. CASE k <= n
    <3>1. k \in 1 .. n /\ PageOf(k) \notin DirtyPages(mPages)
      BY <1>1, <1>8, <1>11, <2>1, <2>5
    <3> QED
      BY <1>1, <2>3, <2>4, <2>5, <3>1 DEF Byte
  <2>6. CASE ~(k <= n)
    <3>1. ~(k <= mBackendSize)
      BY <1>1, <2>1, <2>6
    <3> QED
      BY <2>3, <2>4, <2>6, <3>1, CachedFields DEF Byte, Stored
  <2> QED
    BY <2>5, <2>6
<1>12. ServerOK(new, Cached')
  <2>1. mBackendSize <= Len(new)
    BY <1>1, <1>3
  <2> QED
    BY <1>1, <1>9, <1>11, <2>1 DEF ServerOK
<1>13. EndIsKnown(new, Cached')
  <2>1. SUFFICES ASSUME mBackendExists, mBackendSize < Len(new)
                 PROVE  LastPage(Len(new)) \in DirtyPages(mPages')
    BY <1>9 DEF EndIsKnown
  <2>2. CASE Len(new) = n
    BY <1>1, <1>8, <2>1, <2>2
  <2>3. CASE Len(new) = b
    <3>1. b \in Nat /\ Start(i) < b /\ b <= Start(i) + PageSize
      BY <1>2, SizesAssumption
    <3> HIDE DEF b
    <3>2. LastPage(Len(new)) = i
      BY <1>2, <2>3, <3>1, PageUnique DEF LastPage
    <3> QED
      BY <1>8, <3>2
  <2> QED
    BY <1>3, <2>2, <2>3
<1>14. Good(new, Cached')
  BY <1>10, <1>12, <1>13 DEF Good
<1>15. content' = new
  BY DEF new
<1> QED
  BY <1>3, <1>4, <1>14, <1>15

LEMMA WritePageData ==
    ASSUME DataInv, WritePage
    PROVE  DataInv'
<1> DEFINE data(length) == [k \in 1 .. length |-> changes + 1]
<1>1. PICK i \in Indexes, offset \in 0 .. PageSize - 1 : \E length \in 1 .. PageSize - offset :
         /\ WriteIn(i, offset, data(length))
         /\ content' = WriteAt(content, Start(i) + offset, data(length))
  BY DEF WritePage
<1>2. PICK length \in 1 .. PageSize - offset :
         /\ WriteIn(i, offset, data(length))
         /\ content' = WriteAt(content, Start(i) + offset, data(length))
  BY <1>1
<1>3. /\ changes + 1 \in Nat /\ changes' = changes + 1
      /\ UNCHANGED <<server, mBackendExists, mBackendSize>> /\ LockedInRange'
  BY LockedKeeps DEF WritePage, DataInv
<1>4. length \in Nat
  BY SizesAssumption
<1>5. data(length) \in Bytes /\ Len(data(length)) = length
  BY <1>3, <1>4, Constant
<1> HIDE DEF data
<1>6. IsWrite(i, offset, data(length))
  BY <1>5 DEF IsWrite, Indexes
<1>7. content' = NewContent(content, i, offset, data(length))
  BY <1>2 DEF NewContent
<1>8. content' \in Bytes /\ mFileSize' = Len(content') /\ Good(content', Cached')
  BY <1>2, <1>3, <1>6, <1>7, WriteInData
<1> QED
  BY <1>3, <1>8 DEF DataInv

LEMMA NextKeepsData ==
    ASSUME Faults = {}, DataInv, FetchInv, [Next]_vars
    PROVE  DataInv'
<1>1. CASE UNCHANGED vars
  BY <1>1, StutterKeeps DEF vars, fileVars, DataInv, LockedInRange
<1>2. ASSUME NEW r \in Readers, GetPageRead(r) PROVE DataInv'
  BY <1>2, GetPageReadData
<1>3. ASSUME NEW r \in Readers, Waited(r) \/ Copy(r) PROVE DataInv'
  <2>1. LockedInRange' /\ UNCHANGED <<fileVars, mPages, changes>>
    BY <1>3 DEF Waited, Copy, fetchVars, fileVars, DataInv, LockedInRange
  <2> QED
    BY <2>1, StutterKeeps
<1>4. ASSUME NEW f \in fetchers, Fetch(f) PROVE DataInv'
  <2>1. f \in Fetchers
    BY DEF FetchInv
  <2> QED
    BY <1>4, <2>1, FetchStartData, FetchNextData, FetchFailsData DEF Fetch
<1>5. CASE WriterWaits
  <2>1. LockedInRange' /\ UNCHANGED <<fileVars, mPages, changes>>
    BY <1>5 DEF WriterWaits, fetchVars, fileVars, DataInv, LockedInRange
  <2> QED
    BY <2>1, StutterKeeps
<1>6. CASE WriterFails
  BY <1>6, WriterFailsData
<1>7. CASE WritePage
  BY <1>7, WritePageData
<1>8. CASE Truncate
  BY <1>8, TruncateData
<1>9. CASE EvictPage
  BY <1>9, EvictPageData
<1>10. CASE FlushPage
  BY <1>10, FlushPageData
<1>11. CASE FlushPages
  BY <1>11, FlushPagesData
<1>12. CASE RemoteChanged
  BY <1>12, RemoteChangedData
<1>13. ~WriteOutOfMemory /\ ~FlushLost
  BY DEF WriteOutOfMemory, FlushLost
<1>14. CASE Next
  BY <1>2, <1>3, <1>4, <1>5, <1>6, <1>7, <1>8, <1>9, <1>10, <1>11, <1>12, <1>13, <1>14 DEF Next
<1> QED
  BY <1>1, <1>14

LEMMA DataCoherent ==
    ASSUME DataInv
    PROVE  Coherent
<1> DEFINE n == Len(content)
           view(k) == LET i == PageOf(k)
                      IN  IF i \in DOMAIN mPages
                          THEN IF k - Start(i) <= Len(mPages[i].data) THEN mPages[i].data[k - Start(i)]
                               ELSE PastEnd
                          ELSE IF k <= mBackendSize THEN server[k] ELSE 0
<1>1. /\ content \in Bytes /\ n = mFileSize /\ n \in Nat
      /\ \A i \in DOMAIN mPages : PageOK(content, mPages[i], i)
      /\ \A k \in 1 .. n : PageOf(k) \notin DirtyPages(mPages) => content[k] = Stored(Cached, k)
  BY CachedFields DEF DataInv, Good, ServerOK, PagesOK, Bytes
<1>2. ASSUME NEW k \in 1 .. n PROVE view(k) = content[k]
  <2> DEFINE i == PageOf(k)
  <2>1. k \in Nat \ {0} /\ k <= n
    BY <1>1
  <2>2. i \in Nat /\ Start(i) \in Nat /\ Start(i) < k /\ k <= Start(i) + PageSize
    BY <2>1, PageIndex
  <2> HIDE DEF i
  <2>3. CASE i \in DOMAIN mPages
    <3> DEFINE d == mPages[i].data
               m == k - Start(i)
    <3>1. /\ PageLen(n, i) <= Len(d) /\ Len(d) \in Nat
          /\ \A p \in 1 .. Len(d) : d[p] = Byte(content, Start(i) + p)
      BY <1>1, <2>3 DEF PageOK, Bytes
    <3> HIDE DEF d, n
    <3>2. m \in 1 .. Len(d) /\ m <= Len(d) /\ Start(i) + m = k
      BY <1>1, <2>1, <2>2, <3>1, SizesAssumption DEF PageLen, Smaller
    <3> HIDE DEF m
    <3>3. d[m] = content[k]
      BY <2>1, <3>1, <3>2 DEF Byte, n
    <3>4. view(k) = d[m]
      BY <2>3, <3>2 DEF i, d, m
    <3> QED
      BY <3>3, <3>4
  <2>4. CASE i \notin DOMAIN mPages
    <3>1. content[k] = Stored(Cached, k)
      BY <1>1, <2>4 DEF DirtyPages, i
    <3>2. view(k) = IF k <= mBackendSize THEN server[k] ELSE 0
      BY <2>4 DEF i
    <3> QED
      BY <3>1, <3>2, CachedFields DEF Stored
  <2> QED
    BY <2>3, <2>4
<1>3. View = [k \in 1 .. n |-> view(k)]
  BY <1>1 DEF View
<1>4. content = [k \in 1 .. n |-> content[k]]
  BY <1>1 DEF Bytes
<1> HIDE DEF view
<1>5. [k \in 1 .. n |-> view(k)] = [k \in 1 .. n |-> content[k]]
  BY <1>2
<1> QED
  BY <1>3, <1>4, <1>5 DEF Coherent

LEMMA DataStored ==
    ASSUME DataInv
    PROVE  CleanMeansStored
<1> SUFFICES ASSUME DirtyPages(mPages) = {}, mBackendExists PROVE server = content
  BY DEF CleanMeansStored
<1>1. /\ content \in Bytes /\ server \in Bytes /\ Len(server) = mBackendSize
      /\ mBackendSize <= Len(content) /\ ~(mBackendSize < Len(content))
      /\ mBackendSize \in Nat /\ Len(content) \in Nat
      /\ \A k \in 1 .. Len(content) : content[k] = Stored(Cached, k)
  BY CachedFields DEF DataInv, Good, ServerOK, IsState, EndIsKnown, Bytes
<1>2. Len(server) = Len(content)
  BY <1>1
<1>3. ASSUME NEW k \in 1 .. Len(content) PROVE content[k] = server[k]
  <2>1. k <= mBackendSize
    BY <1>1
  <2> QED
    BY <1>1, <2>1, CachedFields DEF Stored
<1> QED
  BY <1>1, <1>2, <1>3, SeqEqual DEF Bytes

(* The pages and the server are the file, as long as no other client changes it while
   pages are dirty, memory does not run out and every answer arrives. *)
THEOREM DataInvariance ==
    ASSUME Faults = {}
    PROVE  Spec => []DataInv
<1>1. Init => FetchInv /\ ReadInv /\ DataInv
  BY InitKeeps, InitData
<1>2. FetchInv /\ ReadInv /\ DataInv /\ [Next]_vars => (FetchInv /\ ReadInv /\ DataInv)'
  BY NextKeeps, NextKeepsData
<1> QED
  BY <1>1, <1>2, PTL DEF Spec

(* A read returns what was written last, for files and pages of any size, whatever was
   fetched, extended, evicted, flushed or truncated in between. *)
THEOREM FileIsCoherent ==
    ASSUME Faults = {}
    PROVE  Spec => []Coherent
BY DataInvariance, DataCoherent, PTL

(* A file without dirty pages that exists at the server is all there. *)
THEOREM CleanIsStored ==
    ASSUME Faults = {}
    PROVE  Spec => []CleanMeansStored
BY DataInvariance, DataStored, PTL
=============================================================================
