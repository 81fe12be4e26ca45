------------------------- MODULE AsyncReaderProofs --------------------------
(***************************************************************************)
(* Proofs about the page cache of the Media Foundation source, for any     *)
(* tracks, blocks, sizes and files.                                        *)
(***************************************************************************)
EXTENDS AsyncReader, FiniteSetTheorems, SequenceTheorems, WellFoundedInduction, TLAPS

(***************************************************************************)
(* The pages.  A page is blank, or holds what the file has at its          *)
(* position, or is the one that is being read.                             *)
(***************************************************************************)
APage == [at : Int, size : Nat, ref : Int]
Slots == UNION {[1..n -> APage] : n \in Nat}
AFile == [slots : Slots, free : SUBSET Nat, cache : SUBSET Nat, length : Int, avail : Int,
          pos : Int, len : Int, at : Nat]

Aligned(k)   == k \in Nat /\ KeyOf(k) = k
HasKey(f, k) == \E i \in f.cache : f.slots[i].at = k
HasData(f, k) == \E i \in f.cache : f.slots[i].at = k /\ f.slots[i].size > 0

(* What is cached with its bytes stays.                                    *)
Keeps(f, g) ==
  \A i \in f.cache : f.slots[i].size > 0 =>
    i \in g.cache /\ g.slots[i].at = f.slots[i].at /\ g.slots[i].size = f.slots[i].size

(* A page is free or cached, and none is held twice.                       *)
RightPage(length, s) ==
  /\ s.at < 0 => s = Blank
  /\ s.at >= 0 => Aligned(s.at) /\ s.at <= total
  /\ s.ref < 0 => s.size = 0 /\ s.at >= 0
  /\ s.at >= 0 /\ s.ref >= 0 =>
       /\ s.size = Least({PageBytes, total - s.at}) /\ s.size > 0
       /\ length >= 0 \/ s.size = PageBytes

HeldApart(f) ==
  /\ f.free \cup f.cache = DOMAIN f.slots /\ f.free \cap f.cache = {}
  /\ \A i \in f.cache : f.slots[i].at >= 0

OnePageEach(f) ==
  \A i, j \in DOMAIN f.slots :
    f.slots[i].at >= 0 /\ f.slots[i].at = f.slots[j].at => i = j

FewPages(f) == Cardinality(DOMAIN f.slots) < Cardinality(KeysOf(0, total + 1)) + RegionPages

HeldPages(f) ==
  /\ HeldApart(f) /\ OnePageEach(f) /\ FewPages(f) /\ f.length \in {-1, total}
  /\ \A i \in DOMAIN f.slots : RightPage(f.length, f.slots[i])

NoneRead(f) == \A i \in DOMAIN f.slots : f.slots[i].ref >= 0

Busy(f, i) ==
  /\ i \in f.cache /\ f.slots[i] = [at |-> KeyOf(f.pos), size |-> 0, ref |-> -1]
  /\ \A j \in DOMAIN f.slots : j # i => f.slots[j].ref >= 0

RangeIs(f) ==
  /\ f.pos \in Nat /\ f.len \in Nat \ {0} /\ KeyOf(f.pos) <= total
  /\ f.length >= 0 => f.pos + f.len <= total

(* The counts, for streams that have locked the blocks idx says.           *)
LockersOf(f, pin, idx, i) ==
  {t \in Tracks : pin[t] /\ i \in PagesOf(f, TrackBlocks[t][idx[t]])}

RefsAre(f, pin, idx) ==
  \A i \in DOMAIN f.slots : f.slots[i].ref >= 0 =>
    f.slots[i].ref = Cardinality(LockersOf(f, pin, idx, i))

PinsThere(f, pin, idx) ==
  \A t \in Tracks : pin[t] =>
    idx[t] \in DOMAIN TrackBlocks[t] /\ AllThere(f, TrackBlocks[t][idx[t]])

Held(f, pin, idx) ==
  f \in AFile /\ HeldPages(f) /\ RefsAre(f, pin, idx) /\ PinsThere(f, pin, idx)

(***************************************************************************)
(* The state of the worker and the read.                                   *)
(***************************************************************************)
AsyncTypes ==
  /\ total \in FileSizes /\ file \in AFile
  /\ index \in [Tracks -> Nat] /\ pinned \in [Tracks -> BOOLEAN]
  /\ extent \in [Tracks -> Nat] /\ front \in Tracks \cup {NoTrack}
  /\ worker \in {"request", "load", "read", "cancel", "quit"}
  /\ goal \in {"ahead", "parse", "extent", "lock"}
  /\ io \in {"none", "pending", "aborted", "ok", "more", "fail"}
  /\ base \in Nat /\ missed \in BOOLEAN /\ down \in BOOLEAN

InRead == {"pending", "aborted"}

AsyncControl ==
  /\ worker \in {"request", "load"} /\ ~down => io = "none"
  /\ worker = "load" => ~down /\ front \in Tracks /\ index[front] \in DOMAIN TrackBlocks[front]
  /\ io \in InRead => worker \in {"read", "cancel"}
  /\ worker = "read" /\ ~down => io \notin {"none", "aborted"}
  /\ io = "pending" => ~down

AsyncRange ==
  /\ io \in InRead => \E i \in file.cache : Busy(file, i)
  /\ io \notin InRead => NoneRead(file)
  /\ worker # "quit" =>
       IF io \in InRead \cup {"more"} THEN RangeIs(file) ELSE file.pos = -1 /\ file.len = -1
  /\ io = "pending" => file.at = KeyOf(file.pos)
  /\ io = "aborted" => file.at = KeyOf(file.pos) \/ file.at <= KeyOf(base)
  /\ worker = "read" /\ ~down /\ io = "more" => file.pos <= file.at

(* What the streams still need before the place the file is read at.       *)
SerialFrom(f, idx, n) ==
  \A k \in Nat : \A p \in PositionsOf(idx) :
    Aligned(k) /\ KeyOf(p) <= k /\ k < n => HasKey(f, k)

AsyncSerial ==
  /\ \A p \in PositionsOf(index) : base <= p
  /\ SerialFrom(file, index, file.at)

(* The blocks of the sample that is being loaded.                          *)
AsyncExtents ==
  \A t \in Tracks : extent[t] > 0 =>
    /\ t = front /\ index[t] \in DOMAIN TrackBlocks[t]
    /\ \A i \in index[t] .. index[t] + extent[t] - 1 :
         i \in SampleOf(t) /\ AllThere(file, TrackBlocks[t][i])

AsyncTarget ==
  worker = "read" /\ ~down /\ goal \in {"extent", "lock"} =>
    /\ front \in Tracks /\ index[front] \in DOMAIN TrackBlocks[front]
    /\ goal = (IF MoreExtents(front) THEN "extent" ELSE "lock")
    /\ MoreExtents(front) \/ ~pinned[front]
    /\ io = "ok" => AllThere(file, ToLoad(front))
    /\ io \in {"pending", "more"} =>
         /\ file.pos + file.len = BlockEnd(ToLoad(front))
         /\ \A k \in KeysOf(ToLoad(front).start, BlockEnd(ToLoad(front))) :
              k < KeyOf(file.pos) => HasKey(file, k)

AsyncInv ==
  /\ AsyncTypes /\ Held(file, pinned, index)
  /\ AsyncControl /\ AsyncRange /\ AsyncSerial /\ AsyncExtents /\ AsyncTarget
  /\ ~missed

-----------------------------------------------------------------------------
(* What Least and Greatest choose.                                         *)
LEMMA LeastIs ==
  ASSUME NEW S, S \subseteq Nat, S # {}
  PROVE  Least(S) \in S /\ \A y \in S : Least(S) <= y
<1>1. PICK x \in S : \A y \in S : ~(<<y, x>> \in OpToRel(<, Nat))
  BY NatLessThanWellFounded, WFMin
<1>2. ASSUME NEW y \in S PROVE x <= y
  <2>1. <<y, x>> \in Nat \X Nat /\ <<y, x>>[1] = y /\ <<y, x>>[2] = x
    OBVIOUS
  <2>2. ~(y < x)
    BY <1>1, <2>1 DEF OpToRel
  <2> QED
    BY <2>2
<1> QED
  BY <1>2 DEF Least

LEMMA GreatestIs ==
  ASSUME NEW S, S \subseteq Int, S # {}, NEW n \in Int, \A y \in S : y <= n
  PROVE  Greatest(S) \in S /\ \A y \in S : y <= Greatest(S)
<1> DEFINE D == {n - y : y \in S}
<1>1. D \subseteq Nat /\ D # {}
  <2>1. ASSUME NEW y \in S PROVE n - y \in Nat
    OBVIOUS
  <2> QED
    BY <2>1
<1>2. Least(D) \in D /\ \A e \in D : Least(D) <= e
  BY <1>1, LeastIs
<1>3. PICK m \in S : Least(D) = n - m
  BY <1>2
<1>4. ASSUME NEW y \in S PROVE y <= m
  <2>1. n - y \in D /\ m \in Int /\ y \in Int
    OBVIOUS
  <2>2. n - m <= n - y
    BY <1>2, <1>3, <2>1
  <2> QED
    BY <2>1, <2>2
<1> QED
  BY <1>4 DEF Greatest

LEMMA LessOfTwo ==
  ASSUME NEW x \in Int, NEW y \in Int
  PROVE  Least({x, y}) = IF x <= y THEN x ELSE y
BY DEF Least

LEMMA MoreOfTwo ==
  ASSUME NEW x \in Int, NEW y \in Int
  PROVE  Greatest({x, y}) = IF x <= y THEN y ELSE x
BY DEF Greatest

-----------------------------------------------------------------------------
(***************************************************************************)
(* Positions of pages.                                                     *)
(***************************************************************************)
LEMMA Sizes == PageBytes \in Nat /\ PageBytes > 0 /\ RegionPages \in Nat /\ RegionPages > 0
BY ReaderAssumption

LEMMA QuotientOnce ==
  ASSUME NEW p \in Nat, p > 0, NEW q \in Int, NEW d \in Int, NEW x \in Int,
         p * q <= x, x < p * q + p, p * d <= x, x < p * d + p
  PROVE  q = d
<1>1. p * q \in Int /\ p * d \in Int
  OBVIOUS
<1>2. ASSUME q < d PROVE FALSE
  <2>1. q + 1 <= d
    BY <1>2
  <2>2. p * (q + 1) <= p * d
    BY <2>1
  <2>3. p * (q + 1) = p * q + p
    OBVIOUS
  <2> QED
    BY <1>1, <2>2, <2>3
<1>3. ASSUME d < q PROVE FALSE
  <2>1. d + 1 <= q
    BY <1>3
  <2>2. p * (d + 1) <= p * q
    BY <2>1
  <2>3. p * (d + 1) = p * d + p
    OBVIOUS
  <2> QED
    BY <1>1, <2>2, <2>3
<1> QED
  BY <1>2, <1>3

(* The page of byte x begins at KeyOf(x).                                  *)
LEMMA KeyIs ==
  ASSUME NEW x \in Nat
  PROVE  /\ KeyOf(x) \in Nat /\ KeyOf(x) <= x /\ x < KeyOf(x) + PageBytes
         /\ Aligned(KeyOf(x))
<1> DEFINE p == PageBytes
           q == x \div p
<1>1. p \in Nat /\ p > 0
  BY Sizes
<1>2. q \in Nat /\ x = (p * q) + (x % p) /\ x % p \in 0 .. p - 1
  BY <1>1
<1>3. p * q \in Nat /\ p * q <= x /\ x < p * q + p
  BY <1>1, <1>2
<1>4. KeyOf(x) = p * q
  BY DEF KeyOf
<1> DEFINE k == p * q
           d == k \div p
<1>5. d \in Nat /\ k = (p * d) + (k % p) /\ k % p \in 0 .. p - 1
  BY <1>1, <1>3
<1>6. p * d <= k /\ k < p * d + p
  <2>1. p * d \in Int
    BY <1>1, <1>5
  <2> HIDE DEF d, k
  <2> QED
    BY <1>5, <2>1, <1>1
<1>7. d = q
  <2>1. k <= k /\ k < k + p /\ k \in Int
    BY <1>1, <1>3
  <2> HIDE DEF d
  <2> QED
    BY <1>1, <1>2, <1>5, <1>6, <2>1, QuotientOnce
<1>8. KeyOf(k) = k
  BY <1>7 DEF KeyOf
<1> QED
  BY <1>3, <1>4, <1>8 DEF Aligned

(* A position is on one page, and pages follow each other.                 *)
LEMMA KeyOnce ==
  ASSUME NEW k, Aligned(k), NEW x \in Nat, k <= x, x < k + PageBytes
  PROVE  KeyOf(x) = k
<1> DEFINE p == PageBytes
           q == x \div p
           d == k \div p
<1>1. p \in Nat /\ p > 0 /\ k \in Nat
  BY Sizes DEF Aligned
<1>2. k = p * d /\ d \in Nat
  BY <1>1 DEF Aligned, KeyOf
<1>3. KeyOf(x) <= x /\ x < KeyOf(x) + p /\ KeyOf(x) = p * q /\ q \in Nat
  BY <1>1, KeyIs DEF KeyOf
<1>4. q = d
  <2> HIDE DEF q, d
  <2> QED
    BY <1>1, <1>2, <1>3, QuotientOnce
<1> QED
  BY <1>2, <1>3, <1>4

LEMMA KeyGap ==
  ASSUME NEW k, NEW m, Aligned(k), Aligned(m), k < m
  PROVE  k + PageBytes <= m
<1>1. k \in Nat /\ m \in Nat /\ KeyOf(m) = m /\ PageBytes \in Nat /\ PageBytes > 0
  BY Sizes DEF Aligned
<1>2. ASSUME m < k + PageBytes PROVE FALSE
  BY <1>1, <1>2, KeyOnce
<1> QED
  BY <1>1, <1>2

LEMMA KeyGrows ==
  ASSUME NEW x \in Nat, NEW y \in Nat, x <= y
  PROVE  KeyOf(x) <= KeyOf(y)
<1>1. /\ KeyOf(x) \in Nat /\ KeyOf(x) <= x /\ x < KeyOf(x) + PageBytes /\ Aligned(KeyOf(x))
      /\ KeyOf(y) \in Nat /\ KeyOf(y) <= y /\ y < KeyOf(y) + PageBytes /\ Aligned(KeyOf(y))
  BY KeyIs
<1>2. ASSUME KeyOf(y) < KeyOf(x) PROVE FALSE
  <2>1. KeyOf(y) + PageBytes <= KeyOf(x)
    BY <1>1, <1>2, KeyGap
  <2> QED
    BY <1>1, <2>1, Sizes
<1> QED
  BY <1>1, <1>2

LEMMA KeyAfter ==
  ASSUME NEW k, Aligned(k) PROVE Aligned(k + PageBytes)
<1> DEFINE m == KeyOf(k + PageBytes)
<1>1. k \in Nat /\ PageBytes \in Nat /\ PageBytes > 0 /\ KeyOf(k) = k
  BY Sizes DEF Aligned
<1>2. m \in Nat /\ m <= k + PageBytes /\ k + PageBytes < m + PageBytes /\ Aligned(m)
  BY <1>1, KeyIs
<1> HIDE DEF m
<1>3. k < m
  BY <1>1, <1>2
<1>4. k + PageBytes <= m
  BY <1>2, <1>3, KeyGap
<1> QED
  BY <1>1, <1>2, <1>4 DEF m, Aligned

(* The keys of a range are those from the first one's to its end.          *)
LEMMA KeysAre ==
  ASSUME NEW p \in Nat, NEW e \in Nat, p < e, NEW k
  PROVE  k \in KeysOf(p, e) <=> Aligned(k) /\ KeyOf(p) <= k /\ k < e
<1>1. ASSUME k \in KeysOf(p, e) PROVE Aligned(k) /\ KeyOf(p) <= k /\ k < e
  <2>1. PICK x \in p .. e - 1 : k = KeyOf(x)
    BY <1>1 DEF KeysOf
  <2>2. x \in Nat /\ p <= x /\ x < e
    OBVIOUS
  <2>3. k \in Nat /\ k <= x /\ Aligned(k)
    BY <2>1, <2>2, KeyIs
  <2>4. KeyOf(p) <= k
    BY <2>1, <2>2, KeyGrows
  <2> QED
    BY <2>2, <2>3, <2>4
<1>2. ASSUME Aligned(k), KeyOf(p) <= k, k < e PROVE k \in KeysOf(p, e)
  <2>1. k \in Nat /\ KeyOf(k) = k
    BY <1>2 DEF Aligned
  <2>2. /\ KeyOf(p) \in Nat /\ KeyOf(p) <= p /\ p < KeyOf(p) + PageBytes
    BY KeyIs
  <2>3. CASE p <= k
    <3>1. k \in p .. e - 1
      BY <1>2, <2>1, <2>3
    <3> QED
      BY <2>1, <3>1 DEF KeysOf
  <2>4. CASE k < p
    <3>1. k <= p /\ p < k + PageBytes
      BY <1>2, <2>1, <2>2, <2>4, Sizes
    <3>2. KeyOf(p) = k
      BY <1>2, <3>1, KeyOnce
    <3>3. p \in p .. e - 1
      OBVIOUS
    <3> QED
      BY <3>2, <3>3 DEF KeysOf
  <2> QED
    BY <2>1, <2>3, <2>4
<1> QED
  BY <1>1, <1>2

LEMMA KeysFew ==
  ASSUME NEW n \in Nat
  PROVE  /\ IsFiniteSet(KeysOf(0, n + 1)) /\ KeysOf(0, n + 1) \subseteq Nat
         /\ \A k : k \in KeysOf(0, n + 1) <=> Aligned(k) /\ k <= n
<1>1. KeyOf(0) = 0
  BY KeyIs
<1>2. \A k : k \in KeysOf(0, n + 1) <=> Aligned(k) /\ k <= n
  <2> SUFFICES ASSUME NEW k PROVE k \in KeysOf(0, n + 1) <=> Aligned(k) /\ k <= n
    OBVIOUS
  <2>1. k \in KeysOf(0, n + 1) <=> Aligned(k) /\ 0 <= k /\ k < n + 1
    BY <1>1, KeysAre
  <2> QED
    BY <2>1 DEF Aligned
<1>3. KeysOf(0, n + 1) \subseteq Nat /\ \A k \in KeysOf(0, n + 1) : k <= n
  BY <1>2 DEF Aligned
<1> QED
  BY <1>2, <1>3, FS_BoundedSetOfNaturals

-----------------------------------------------------------------------------
(***************************************************************************)
(* Pages and blocks.                                                       *)
(***************************************************************************)
LEMMA FileIs ==
  ASSUME NEW f \in AFile
  PROVE  /\ f.slots \in Slots /\ f.free \subseteq Nat /\ f.cache \subseteq Nat
         /\ f.length \in Int /\ f.avail \in Int /\ f.pos \in Int /\ f.len \in Int /\ f.at \in Nat
BY DEF AFile

LEMMA SlotsAre ==
  ASSUME NEW s \in Slots
  PROVE  /\ \E n \in Nat : DOMAIN s = 1 .. n /\ s \in [1 .. n -> APage]
         /\ \A i \in DOMAIN s : /\ s[i] \in APage /\ s[i].at \in Int /\ s[i].size \in Nat
                                /\ s[i].ref \in Int
                                /\ s[i] = [at |-> s[i].at, size |-> s[i].size, ref |-> s[i].ref]
                                /\ i \in Nat
<1>1. PICK n \in Nat : s \in [1 .. n -> APage]
  BY DEF Slots
<1>2. DOMAIN s = 1 .. n
  BY <1>1
<1>3. ASSUME NEW i \in DOMAIN s
      PROVE  /\ s[i] \in APage /\ s[i].at \in Int /\ s[i].size \in Nat /\ s[i].ref \in Int
             /\ s[i] = [at |-> s[i].at, size |-> s[i].size, ref |-> s[i].ref] /\ i \in Nat
  <2>1. s[i] \in APage /\ i \in Nat
    BY <1>1, <1>2
  <2> QED
    BY <2>1 DEF APage
<1> QED
  BY <1>1, <1>2, <1>3

(* What is known of a page of a reader that is in order.                   *)
LEMMA RightPageIs ==
  ASSUME total \in Nat, NEW n \in Int, NEW s, RightPage(n, s), s.at \in Int, s.size \in Nat, s.ref \in Int
  PROVE  /\ s.size <= PageBytes
         /\ s.at >= 0 => Aligned(s.at) /\ s.at <= total
         /\ s.ref < 0 => s.size = 0 /\ s.at >= 0
         /\ s.at >= 0 /\ s.ref >= 0 => s.size > 0
         /\ s.size > 0 =>
              /\ s.at >= 0 /\ s.ref >= 0 /\ s.at + s.size <= total
              /\ s.size = PageBytes \/ (n >= 0 /\ s.at + s.size = total)
<1>1. PageBytes \in Nat /\ PageBytes > 0
  BY Sizes
<1>2. CASE s.at < 0
  <2>1. s.at = -1 /\ s.size = 0 /\ s.ref = 0
    BY <1>2 DEF RightPage, Blank
  <2> QED
    BY <1>1, <1>2, <2>1
<1>3. CASE s.at >= 0 /\ s.ref < 0
  <2>1. s.size = 0 /\ Aligned(s.at) /\ s.at <= total
    BY <1>3 DEF RightPage
  <2> QED
    BY <1>1, <1>3, <2>1
<1>4. CASE s.at >= 0 /\ s.ref >= 0
  <2>1. total - s.at \in Int /\ s.at <= total /\ Aligned(s.at)
    BY <1>4 DEF RightPage
  <2>2. s.size = (IF PageBytes <= total - s.at THEN PageBytes ELSE total - s.at)
    BY <1>1, <1>4, <2>1, LessOfTwo DEF RightPage
  <2>3. s.size > 0 /\ (n >= 0 \/ s.size = PageBytes)
    BY <1>4 DEF RightPage
  <2>4. s.size <= PageBytes /\ s.at + s.size <= total
    BY <1>1, <1>4, <2>1, <2>2
  <2>5. s.size = PageBytes \/ (n >= 0 /\ s.at + s.size = total)
    <3>1. s.size # PageBytes => s.at + s.size = total
      BY <1>1, <2>1, <2>2
    <3> QED
      BY <2>3, <3>1
  <2> QED
    BY <1>4, <2>1, <2>3, <2>4, <2>5
<1> QED
  BY <1>2, <1>3, <1>4

LEMMA PageIs ==
  ASSUME total \in Nat, NEW f \in AFile, HeldPages(f), NEW i \in DOMAIN f.slots
  PROVE  LET s == f.slots[i] IN
         /\ s.at \in Int /\ s.size \in Nat /\ s.ref \in Int /\ i \in Nat
         /\ s = [at |-> s.at, size |-> s.size, ref |-> s.ref]
         /\ s.size <= PageBytes
         /\ s.at < 0 => s = Blank
         /\ s.at >= 0 => Aligned(s.at) /\ s.at <= total
         /\ s.ref < 0 => s.size = 0 /\ s.at >= 0
         /\ s.at >= 0 /\ s.ref >= 0 => s.size > 0
         /\ s.size > 0 =>
              /\ s.at >= 0 /\ s.ref >= 0 /\ s.at + s.size <= total
              /\ s.size = PageBytes \/ (f.length >= 0 /\ s.at + s.size = total)
<1> DEFINE s == f.slots[i]
<1>1. /\ s.at \in Int /\ s.size \in Nat /\ s.ref \in Int /\ i \in Nat
      /\ s = [at |-> s.at, size |-> s.size, ref |-> s.ref]
  BY FileIs, SlotsAre
<1>2. RightPage(f.length, s)
  BY DEF HeldPages
<1>3. s.at < 0 => s = Blank
  BY <1>2 DEF RightPage
<1> QED
  BY <1>1, <1>2, <1>3, RightPageIs, FileIs

LEMMA CachedIs ==
  ASSUME NEW f, HeldPages(f), NEW i \in f.cache
  PROVE  i \in DOMAIN f.slots /\ f.slots[i].at >= 0 /\ i \notin f.free
BY DEF HeldPages, HeldApart

LEMMA PageOnce ==
  ASSUME NEW f, HeldPages(f), NEW i \in DOMAIN f.slots, NEW j \in DOMAIN f.slots,
         f.slots[i].at >= 0, f.slots[i].at = f.slots[j].at
  PROVE  i = j
BY DEF HeldPages, OnePageEach

(* What is assumed of blocks: they lie in the file, clusters in order.     *)
LEMMA BlockIs ==
  ASSUME total \in FileSizes, NEW t \in Tracks, NEW n \in DOMAIN TrackBlocks[t]
  PROVE  LET b == TrackBlocks[t][n] IN
         /\ b.start \in Nat /\ b.size \in Nat /\ b.size > 0 /\ b.cluster \in Nat
         /\ b.cluster <= b.start /\ BlockEnd(b) \in Nat /\ b.start < BlockEnd(b) /\ BlockEnd(b) <= total
         /\ b.cluster < total /\ BlockEnd(b) = b.start + b.size
         /\ n \in Nat /\ n > 0 /\ n <= Len(TrackBlocks[t]) /\ Len(TrackBlocks[t]) \in Nat
         /\ \A j \in 1 .. n : TrackBlocks[t][j].cluster <= b.cluster
<1> DEFINE q == TrackBlocks[t]
           b == q[n]
<1>1. q \in Seq([start : Nat, size : Nat \ {0}, cluster : Nat])
  BY ReaderAssumption
<1>2. /\ b.cluster <= b.start /\ \A m \in FileSizes : b.start + b.size <= m
      /\ \A j \in 1 .. n : q[j].cluster <= b.cluster
  BY ReaderAssumption
<1>3. total \in Nat
  BY ReaderAssumption
<1> HIDE DEF q
<1>4. /\ b \in [start : Nat, size : Nat \ {0}, cluster : Nat]
      /\ n \in Nat /\ n > 0 /\ n <= Len(q) /\ Len(q) \in Nat
  <2>1. DOMAIN q = 1 .. Len(q) /\ Len(q) \in Nat /\ n \in DOMAIN q
    BY <1>1 DEF q
  <2>2. n \in 1 .. Len(q)
    BY <2>1
  <2>3. q[n] \in [start : Nat, size : Nat \ {0}, cluster : Nat]
    BY <1>1, <2>2, ElementOfSeq
  <2> QED
    BY <2>1, <2>2, <2>3
<1> HIDE DEF b
<1>5. b.start \in Nat /\ b.size \in Nat /\ b.size > 0 /\ b.cluster \in Nat
  BY <1>4
<1>6. b.start + b.size <= total
  BY <1>2
<1> QED
  BY <1>2, <1>3, <1>4, <1>5, <1>6 DEF b, q, BlockEnd

LEMMA BytesThere ==
  ASSUME total \in Nat, NEW f \in AFile, HeldPages(f), NEW x \in Nat, NEW i \in f.cache
  PROVE  f.slots[i].at <= x /\ x < DataEnd(f, i) <=> f.slots[i].at = KeyOf(x) /\ x < DataEnd(f, i)
<1> DEFINE s == f.slots[i]
<1>1. i \in DOMAIN f.slots /\ s.at >= 0
  BY CachedIs
<1>2. s.at \in Int /\ s.size \in Nat /\ s.size <= PageBytes /\ Aligned(s.at)
  BY <1>1, PageIs
<1>3. DataEnd(f, i) = s.at + s.size
  BY DEF DataEnd
<1> HIDE DEF s
<1>4. KeyOf(x) \in Nat /\ KeyOf(x) <= x /\ PageBytes \in Nat
  BY KeyIs, Sizes
<1>5. ASSUME s.at <= x, x < s.at + s.size PROVE s.at = KeyOf(x)
  BY <1>2, <1>4, <1>5, KeyOnce
<1>6. f.slots[i].at = s.at
  BY DEF s
<1>7. f.slots[i].at <= x /\ x < DataEnd(f, i) => f.slots[i].at = KeyOf(x)
  BY <1>5, <1>3, <1>6
<1>8. f.slots[i].at = KeyOf(x) => f.slots[i].at <= x
  BY <1>4
<1> QED
  BY <1>7, <1>8

(* A block is all in the cache when its pages are, with what they hold.    *)
LEMMA ThereIfKeys ==
  ASSUME total \in Nat, NEW f \in AFile, HeldPages(f), NEW p \in Nat, NEW e \in Nat, p < e, e <= total,
         \A k \in KeysOf(p, e) : HasData(f, k), NEW x \in p .. e - 1
  PROVE  ByteThere(f, x)
<1>1. x \in Nat /\ p <= x /\ x < e
  OBVIOUS
<1>2. KeyOf(x) \in KeysOf(p, e)
  BY DEF KeysOf
<1>3. PICK i \in f.cache : f.slots[i].at = KeyOf(x) /\ f.slots[i].size > 0
  BY <1>2 DEF HasData
<1> DEFINE s == f.slots[i]
<1>4. i \in DOMAIN f.slots
  BY CachedIs
<1>5. /\ s.at \in Int /\ s.size \in Nat
      /\ s.size = PageBytes \/ s.at + s.size = total
  BY <1>3, <1>4, PageIs
<1>6. KeyOf(x) <= x /\ x < KeyOf(x) + PageBytes /\ PageBytes \in Nat
  BY <1>1, KeyIs, Sizes
<1>7. x < s.at + s.size
  <2>1. s.at = KeyOf(x)
    BY <1>3
  <2> HIDE DEF s
  <2> QED
    BY <1>1, <1>5, <1>6, <2>1
<1> QED
  BY <1>3, <1>6, <1>7 DEF ByteThere, DataEnd

LEMMA KeysIfThere ==
  ASSUME total \in Nat, NEW f \in AFile, HeldPages(f), NEW b, b.start \in Nat, BlockEnd(b) \in Nat,
         AllThere(f, b), NEW k \in KeysOf(b.start, BlockEnd(b))
  PROVE  HasData(f, k)
<1>1. PICK x \in b.start .. BlockEnd(b) - 1 : k = KeyOf(x)
  BY DEF KeysOf
<1>2. x \in Nat
  OBVIOUS
<1>3. PICK i \in f.cache : f.slots[i].at <= x /\ x < DataEnd(f, i)
  BY DEF AllThere, ByteThere
<1>4. f.slots[i].at = k
  BY <1>1, <1>2, <1>3, BytesThere
<1>5. f.slots[i].at \in Int /\ f.slots[i].size \in Nat
  BY CachedIs, PageIs
<1>6. f.slots[i].size > 0
  BY <1>2, <1>3, <1>5 DEF DataEnd
<1> QED
  BY <1>4, <1>6 DEF HasData

(* What is there stays there.                                              *)
LEMMA ThereStays ==
  ASSUME total \in Nat, NEW f \in AFile, HeldPages(f), NEW g, Keeps(f, g),
         NEW b, b.start \in Nat, BlockEnd(b) \in Nat, AllThere(f, b)
  PROVE  AllThere(g, b)
<1> SUFFICES ASSUME NEW x \in b.start .. BlockEnd(b) - 1 PROVE ByteThere(g, x)
  BY DEF AllThere
<1>1. x \in Nat
  OBVIOUS
<1>2. PICK i \in f.cache : f.slots[i].at <= x /\ x < DataEnd(f, i)
  BY DEF AllThere, ByteThere
<1>3. f.slots[i].at \in Int /\ f.slots[i].size \in Nat
  BY CachedIs, PageIs
<1>4. f.slots[i].size > 0
  BY <1>1, <1>2, <1>3 DEF DataEnd
<1>5. i \in g.cache /\ g.slots[i].at = f.slots[i].at /\ g.slots[i].size = f.slots[i].size
  BY <1>4 DEF Keeps
<1> QED
  BY <1>2, <1>5 DEF ByteThere, DataEnd

-----------------------------------------------------------------------------
(***************************************************************************)
(* Locks.                                                                  *)
(***************************************************************************)
LEMMA LockersFinite ==
  ASSUME NEW f, NEW pin, NEW idx, NEW i
  PROVE  LET S == LockersOf(f, pin, idx, i) IN
         /\ S \subseteq Tracks /\ IsFiniteSet(S) /\ Cardinality(S) \in Nat
         /\ Cardinality(S) = 0 <=> S = {}
<1> DEFINE S == LockersOf(f, pin, idx, i)
<1>1. S \subseteq Tracks
  BY DEF LockersOf
<1>2. IsFiniteSet(Tracks)
  BY ReaderAssumption
<1> HIDE DEF S
<1>3. IsFiniteSet(S)
  BY <1>1, <1>2, FS_Subset
<1> QED
  BY <1>1, <1>3, FS_CardinalityType, FS_EmptySet DEF S

(* The pages of a locked block have their bytes and are counted.           *)
LEMMA PinnedIs ==
  ASSUME total \in FileSizes, NEW f, NEW pin, NEW idx, Held(f, pin, idx),
         NEW t \in Tracks, pin[t], NEW i \in PagesOf(f, TrackBlocks[t][idx[t]])
  PROVE  i \in f.cache /\ i \in DOMAIN f.slots /\ f.slots[i].size > 0 /\ f.slots[i].ref > 0
<1> DEFINE b == TrackBlocks[t][idx[t]]
<1>1. total \in Nat /\ f \in AFile /\ HeldPages(f)
  BY ReaderAssumption DEF Held
<1>2. idx[t] \in DOMAIN TrackBlocks[t] /\ AllThere(f, b)
  BY DEF Held, PinsThere
<1>3. b.start \in Nat /\ BlockEnd(b) \in Nat
  BY <1>2, BlockIs
<1>4. i \in f.cache /\ f.slots[i].at \in KeysOf(b.start, BlockEnd(b))
  BY DEF PagesOf
<1>5. PICK j \in f.cache : f.slots[j].at = f.slots[i].at /\ f.slots[j].size > 0
  BY <1>1, <1>2, <1>3, <1>4, KeysIfThere DEF HasData
<1>6. i = j /\ i \in DOMAIN f.slots
  BY <1>1, <1>4, <1>5, CachedIs, PageOnce
<1>7. f.slots[i].ref \in Int /\ f.slots[i].ref >= 0 /\ f.slots[i].size > 0
  BY <1>1, <1>5, <1>6, PageIs
<1>8. t \in LockersOf(f, pin, idx, i)
  BY DEF LockersOf
<1>9. f.slots[i].ref = Cardinality(LockersOf(f, pin, idx, i))
  BY <1>6, <1>7 DEF Held, RefsAre
<1> QED
  BY <1>4, <1>6, <1>7, <1>8, <1>9, LockersFinite

(* Counts and locks stay right when no counted page is touched.            *)
LEMMA LocksStay ==
  ASSUME total \in FileSizes, NEW f, NEW pin, NEW idx, Held(f, pin, idx), NEW g \in AFile, HeldPages(g),
         \A i \in f.cache : f.slots[i].ref > 0 =>
           i \in g.cache /\ g.slots[i].at = f.slots[i].at /\ g.slots[i].size = f.slots[i].size,
         \A i \in DOMAIN g.slots : g.slots[i].ref >= 0 =>
           \/ i \in DOMAIN f.slots /\ g.slots[i].ref = f.slots[i].ref
           \/ g.slots[i].ref = 0 /\ (i \in f.cache => f.slots[i].ref <= 0)
  PROVE  Held(g, pin, idx)
<1>1. total \in Nat /\ f \in AFile /\ HeldPages(f)
  BY ReaderAssumption DEF Held
<1>2. ASSUME NEW t \in Tracks, pin[t]
      PROVE  PagesOf(g, TrackBlocks[t][idx[t]]) = PagesOf(f, TrackBlocks[t][idx[t]])
  <2> DEFINE b == TrackBlocks[t][idx[t]]
  <2>1. idx[t] \in DOMAIN TrackBlocks[t] /\ AllThere(f, b)
    BY <1>2 DEF Held, PinsThere
  <2>2. b.start \in Nat /\ BlockEnd(b) \in Nat
    BY <2>1, BlockIs
  <2>3. ASSUME NEW i \in PagesOf(f, b) PROVE i \in PagesOf(g, b)
    <3>1. i \in f.cache /\ f.slots[i].ref > 0 /\ f.slots[i].at \in KeysOf(b.start, BlockEnd(b))
      BY <1>2, <2>3, PinnedIs DEF PagesOf
    <3> QED
      BY <3>1 DEF PagesOf
  <2>4. ASSUME NEW i \in PagesOf(g, b) PROVE i \in PagesOf(f, b)
    <3>1. i \in g.cache /\ g.slots[i].at \in KeysOf(b.start, BlockEnd(b))
      BY <2>4 DEF PagesOf
    <3>2. PICK j \in f.cache : f.slots[j].at = g.slots[i].at /\ f.slots[j].size > 0
      BY <1>1, <2>1, <2>2, <3>1, KeysIfThere DEF HasData
    <3>3. j \in PagesOf(f, b)
      BY <3>1, <3>2 DEF PagesOf
    <3>4. f.slots[j].ref > 0
      BY <1>2, <3>3, PinnedIs
    <3>5. j \in g.cache /\ g.slots[j].at = g.slots[i].at
      BY <3>2, <3>4
    <3>6. i = j
      BY <3>1, <3>5, CachedIs, PageOnce
    <3> QED
      BY <3>3, <3>6
  <2> QED
    BY <2>3, <2>4
<1>3. PinsThere(g, pin, idx)
  <2> SUFFICES ASSUME NEW t \in Tracks, pin[t]
               PROVE  /\ idx[t] \in DOMAIN TrackBlocks[t]
                      /\ AllThere(g, TrackBlocks[t][idx[t]])
    BY DEF PinsThere
  <2> DEFINE b == TrackBlocks[t][idx[t]]
  <2>1. idx[t] \in DOMAIN TrackBlocks[t] /\ AllThere(f, b)
    BY DEF Held, PinsThere
  <2>2. b.start \in Nat /\ BlockEnd(b) \in Nat
    BY <2>1, BlockIs
  <2> SUFFICES ASSUME NEW x \in b.start .. BlockEnd(b) - 1 PROVE ByteThere(g, x)
    BY <2>1 DEF AllThere
  <2>3. PICK i \in f.cache : f.slots[i].at <= x /\ x < DataEnd(f, i)
    BY <2>1 DEF AllThere, ByteThere
  <2>4. x \in Nat
    BY <2>2
  <2>5. f.slots[i].at = KeyOf(x)
    BY <1>1, <2>3, <2>4, BytesThere
  <2>6. KeyOf(x) \in KeysOf(b.start, BlockEnd(b))
    BY DEF KeysOf
  <2>7. i \in PagesOf(f, b)
    BY <2>5, <2>6 DEF PagesOf
  <2>8. f.slots[i].ref > 0
    BY <2>7, PinnedIs
  <2> QED
    BY <2>3, <2>8 DEF ByteThere, DataEnd
<1>4. RefsAre(g, pin, idx)
  <2> SUFFICES ASSUME NEW i \in DOMAIN g.slots, g.slots[i].ref >= 0
               PROVE  g.slots[i].ref = Cardinality(LockersOf(g, pin, idx, i))
    BY DEF RefsAre
  <2>1. LockersOf(g, pin, idx, i) = LockersOf(f, pin, idx, i)
    BY <1>2 DEF LockersOf
  <2>2. CASE i \in DOMAIN f.slots /\ g.slots[i].ref = f.slots[i].ref
    BY <2>1, <2>2 DEF Held, RefsAre
  <2>3. CASE g.slots[i].ref = 0 /\ (i \in f.cache => f.slots[i].ref <= 0)
    <3>1. ASSUME NEW t \in LockersOf(f, pin, idx, i) PROVE FALSE
      <4>1. t \in Tracks /\ pin[t] /\ i \in PagesOf(f, TrackBlocks[t][idx[t]])
        BY <3>1 DEF LockersOf
      <4>2. i \in f.cache /\ i \in DOMAIN f.slots /\ f.slots[i].ref > 0
        BY <4>1, PinnedIs
      <4>3. f.slots[i].ref \in Int
        BY <1>1, <4>2, PageIs
      <4> QED
        BY <2>3, <4>2, <4>3
    <3>2. LockersOf(f, pin, idx, i) = {}
      BY <3>1
    <3> QED
      BY <2>1, <2>3, <3>2, FS_EmptySet
  <2> QED
    BY <2>2, <2>3
<1> QED
  BY <1>3, <1>4 DEF Held

(* Only counts change.                                                     *)
Recounts(f, g) ==
  /\ g = [f EXCEPT !.slots = g.slots] /\ DOMAIN g.slots = DOMAIN f.slots
  /\ \A i \in DOMAIN f.slots :
       /\ g.slots[i].at = f.slots[i].at /\ g.slots[i].size = f.slots[i].size
       /\ f.slots[i].at < 0 => g.slots[i] = Blank
       /\ f.slots[i].ref < 0 <=> g.slots[i].ref < 0

LEMMA Recounted ==
  ASSUME total \in Nat, NEW f \in AFile, HeldPages(f), NEW g, g.slots \in Slots, Recounts(f, g)
  PROVE  /\ g \in AFile /\ HeldPages(g)
         /\ \A b : PagesOf(g, b) = PagesOf(f, b) /\ (AllThere(g, b) <=> AllThere(f, b))
         /\ \A k : HasKey(g, k) <=> HasKey(f, k)
         /\ Keeps(f, g)
<1>1. /\ g.free = f.free /\ g.cache = f.cache /\ g.length = f.length /\ g \in AFile
  BY DEF Recounts, AFile
<1>2. /\ DOMAIN g.slots = DOMAIN f.slots
      /\ \A i \in DOMAIN f.slots :
           /\ g.slots[i].at = f.slots[i].at /\ g.slots[i].size = f.slots[i].size
           /\ f.slots[i].at < 0 => g.slots[i] = Blank
           /\ f.slots[i].ref < 0 <=> g.slots[i].ref < 0
  BY DEF Recounts
<1>3. \A i \in f.cache : i \in DOMAIN f.slots
  BY CachedIs
<1>4. HeldPages(g)
  <2>1. HeldApart(g) /\ OnePageEach(g) /\ FewPages(g)
    <3>1. HeldApart(g)
      BY <1>1, <1>2, <1>3 DEF HeldPages, HeldApart
    <3>2. OnePageEach(g)
      BY <1>2 DEF HeldPages, OnePageEach
    <3>3. FewPages(g)
      BY <1>2 DEF HeldPages, FewPages
    <3> QED
      BY <3>1, <3>2, <3>3
  <2>2. ASSUME NEW i \in DOMAIN g.slots PROVE RightPage(g.length, g.slots[i])
    <3>1. i \in DOMAIN f.slots /\ RightPage(f.length, f.slots[i])
      BY <1>2 DEF HeldPages
    <3>2. /\ g.slots[i].at = f.slots[i].at /\ g.slots[i].size = f.slots[i].size
          /\ f.slots[i].at < 0 => g.slots[i] = Blank
          /\ f.slots[i].ref < 0 <=> g.slots[i].ref < 0
          /\ f.slots[i].ref \in Int /\ g.slots[i].ref \in Int
      BY <1>2, <3>1, SlotsAre, FileIs
    <3>3. f.slots[i].ref >= 0 <=> g.slots[i].ref >= 0
      BY <3>2
    <3> QED
      BY <1>1, <3>1, <3>2, <3>3 DEF RightPage
  <2>3. g.length \in {-1, total}
    BY <1>1 DEF HeldPages
  <2> QED
    BY <2>1, <2>2, <2>3 DEF HeldPages
<1>5. ASSUME NEW x PROVE ByteThere(g, x) <=> ByteThere(f, x)
  BY <1>1, <1>2, <1>3 DEF ByteThere, DataEnd
<1>6. ASSUME NEW b PROVE PagesOf(g, b) = PagesOf(f, b) /\ (AllThere(g, b) <=> AllThere(f, b))
  <2>1. PagesOf(g, b) = PagesOf(f, b)
    BY <1>1, <1>2, <1>3 DEF PagesOf
  <2>2. AllThere(g, b) <=> AllThere(f, b)
    BY <1>5 DEF AllThere
  <2> QED
    BY <2>1, <2>2
<1>7. ASSUME NEW k PROVE HasKey(g, k) <=> HasKey(f, k)
  BY <1>1, <1>2, <1>3 DEF HasKey
<1>8. Keeps(f, g)
  BY <1>1, <1>2, <1>3 DEF Keeps
<1> QED
  BY <1>1, <1>4, <1>6, <1>7, <1>8

LEMMA SlotsOf ==
  ASSUME NEW s \in Slots, NEW F, DOMAIN F = DOMAIN s, \A i \in DOMAIN s : F[i] \in APage,
         F = [i \in DOMAIN s |-> F[i]]
  PROVE  F \in Slots
<1>1. PICK n \in Nat : DOMAIN s = 1 .. n
  BY SlotsAre
<1>2. F \in [1 .. n -> APage]
  BY <1>1
<1> QED
  BY <1>2 DEF Slots

LEMMA CountedIs ==
  ASSUME total \in Nat, NEW f \in AFile, HeldPages(f), NoneRead(f), NEW b, NEW n \in Int,
         \A i \in PagesOf(f, b) : f.slots[i].ref + n >= 0
  PROVE  LET g == Counted(f, b, n) IN
         /\ g.slots \in Slots /\ Recounts(f, g) /\ NoneRead(g)
         /\ g = [f EXCEPT !.slots = g.slots]
         /\ \A i \in DOMAIN f.slots :
              g.slots[i].ref = IF i \in PagesOf(f, b) THEN f.slots[i].ref + n ELSE f.slots[i].ref
<1> DEFINE S == PagesOf(f, b)
           F == [i \in DOMAIN f.slots |->
                   IF i \in S THEN Recount(f.slots[i], n) ELSE f.slots[i]]
           g == Counted(f, b, n)
<1>1. g = [f EXCEPT !.slots = F] /\ f.slots \in Slots
  <2>1. g = [f EXCEPT !.slots = F]
    BY DEF Counted
  <2> QED
    BY <2>1, FileIs
<1>2. g.slots = F
  BY <1>1 DEF AFile
<1>3. \A i \in S : i \in f.cache
  BY DEF PagesOf
<1>4. ASSUME NEW i \in DOMAIN f.slots
      PROVE  /\ F[i] \in APage /\ F[i].at = f.slots[i].at /\ F[i].size = f.slots[i].size
             /\ F[i].ref = IF i \in S THEN f.slots[i].ref + n ELSE f.slots[i].ref
             /\ f.slots[i].ref \in Int /\ f.slots[i].ref >= 0 /\ F[i].ref >= 0
             /\ f.slots[i].at < 0 => F[i] = Blank
  <2>1. /\ f.slots[i] \in APage /\ f.slots[i].at \in Int /\ f.slots[i].ref \in Int
        /\ f.slots[i].ref >= 0
    BY <1>1, SlotsAre DEF NoneRead
  <2>2. CASE i \in S
    <3>1. F[i] = [f.slots[i] EXCEPT !.ref = f.slots[i].ref + n]
      BY <2>2 DEF Recount
    <3>2. f.slots[i].at >= 0
      BY <1>3, <2>2, CachedIs
    <3>3. f.slots[i].ref + n >= 0 /\ f.slots[i].ref + n \in Int
      BY <2>1, <2>2
    <3> HIDE DEF F
    <3>4. F[i] \in APage /\ F[i].at = f.slots[i].at /\ F[i].size = f.slots[i].size /\ F[i].ref = f.slots[i].ref + n
      BY <2>1, <3>1, <3>3 DEF APage
    <3> QED
      BY <2>1, <2>2, <3>2, <3>3, <3>4
  <2>3. CASE i \notin S
    <3>1. F[i] = f.slots[i]
      BY <2>3
    <3>2. f.slots[i].at < 0 => f.slots[i] = Blank
      BY PageIs
    <3> HIDE DEF F
    <3> QED
      BY <2>1, <2>3, <3>1, <3>2
  <2> QED
    BY <2>2, <2>3
<1>5. DOMAIN F = DOMAIN f.slots
  OBVIOUS
<1>6. F = [i \in DOMAIN f.slots |-> F[i]]
  OBVIOUS
<1> HIDE DEF F, g, S
<1>7. F \in Slots
  BY <1>1, <1>4, <1>5, <1>6, SlotsOf
<1>8. NoneRead(g)
  BY <1>2, <1>4, <1>5 DEF NoneRead
<1>9. Recounts(f, g)
  BY <1>1, <1>2, <1>4, <1>5 DEF Recounts
<1> QED
  BY <1>1, <1>2, <1>4, <1>7, <1>8, <1>9 DEF g, S

(* LockCurrBlock.                                                          *)
LEMMA LockIs ==
  ASSUME total \in FileSizes, NEW f, NEW pin \in [Tracks -> BOOLEAN], NEW idx, Held(f, pin, idx), NoneRead(f),
         NEW t \in Tracks, ~pin[t], idx[t] \in DOMAIN TrackBlocks[t], AllThere(f, TrackBlocks[t][idx[t]])
  PROVE  LET g == Counted(f, TrackBlocks[t][idx[t]], 1) IN
         Held(g, [pin EXCEPT ![t] = TRUE], idx) /\ NoneRead(g) /\ Recounts(f, g)
<1> DEFINE b == TrackBlocks[t][idx[t]]
           g == Counted(f, b, 1)
           pinn == [pin EXCEPT ![t] = TRUE]
<1>1. total \in Nat /\ f \in AFile /\ HeldPages(f)
  BY ReaderAssumption DEF Held
<1>2. ASSUME NEW i \in PagesOf(f, b) PROVE f.slots[i].ref + 1 >= 0
  <2>1. i \in DOMAIN f.slots
    BY <1>1, CachedIs DEF PagesOf
  <2>2. f.slots[i].ref \in Int /\ f.slots[i].ref >= 0
    BY <1>1, <2>1, PageIs DEF NoneRead
  <2> QED
    BY <2>2
<1>3. /\ g.slots \in Slots /\ Recounts(f, g) /\ NoneRead(g)
      /\ \A i \in DOMAIN f.slots :
           g.slots[i].ref = IF i \in PagesOf(f, b) THEN f.slots[i].ref + 1 ELSE f.slots[i].ref
  BY <1>1, <1>2, CountedIs
<1> HIDE DEF g
<1>4. /\ g \in AFile /\ HeldPages(g)
      /\ \A c : PagesOf(g, c) = PagesOf(f, c) /\ (AllThere(g, c) <=> AllThere(f, c))
  BY <1>1, <1>3, Recounted
<1> HIDE DEF b
<1>5. PinsThere(g, pinn, idx)
  <2> SUFFICES ASSUME NEW u \in Tracks, pinn[u]
               PROVE  /\ idx[u] \in DOMAIN TrackBlocks[u]
                      /\ AllThere(g, TrackBlocks[u][idx[u]])
    BY DEF PinsThere
  <2>1. CASE u = t
    BY <1>4, <2>1
  <2>2. CASE u # t
    BY <1>4, <2>2 DEF Held, PinsThere
  <2> QED
    BY <2>1, <2>2
<1>6. RefsAre(g, pinn, idx)
  <2> SUFFICES ASSUME NEW i \in DOMAIN g.slots
               PROVE  g.slots[i].ref = Cardinality(LockersOf(g, pinn, idx, i))
    BY DEF RefsAre
  <2> DEFINE S == LockersOf(f, pin, idx, i)
             T == LockersOf(g, pinn, idx, i)
  <2>1. i \in DOMAIN f.slots /\ f.slots[i].ref = Cardinality(S) /\ IsFiniteSet(S)
    BY <1>3, LockersFinite DEF NoneRead, Held, RefsAre, Recounts
  <2>2. t \notin S
    BY DEF LockersOf
  <2>3. T = IF i \in PagesOf(f, b) THEN S \cup {t} ELSE S
    <3>1. \A u \in Tracks : pinn[u] <=> pin[u] \/ u = t
      OBVIOUS
    <3> HIDE DEF pinn
    <3> QED
      BY <1>4, <3>1 DEF LockersOf, b
  <2> HIDE DEF S, T
  <2>4. CASE i \in PagesOf(f, b)
    <3>1. Cardinality(T) = Cardinality(S) + 1
      BY <2>1, <2>2, <2>3, <2>4, FS_AddElement
    <3> QED
      BY <1>3, <2>1, <2>4, <3>1 DEF T
  <2>5. CASE i \notin PagesOf(f, b)
    BY <1>3, <2>1, <2>3, <2>5 DEF T
  <2> QED
    BY <2>4, <2>5
<1> QED
  BY <1>3, <1>4, <1>5, <1>6 DEF Held, g, b

(* UnlockCurrBlock.                                                        *)
LEMMA UnlockIs ==
  ASSUME total \in FileSizes, NEW f, NEW pin \in [Tracks -> BOOLEAN], NEW idx, Held(f, pin, idx), NoneRead(f),
         NEW t \in Tracks, pin[t]
  PROVE  LET g == Counted(f, TrackBlocks[t][idx[t]], -1) IN
         Held(g, [pin EXCEPT ![t] = FALSE], idx) /\ NoneRead(g) /\ Recounts(f, g)
<1> DEFINE b == TrackBlocks[t][idx[t]]
           g == Counted(f, b, -1)
           pinn == [pin EXCEPT ![t] = FALSE]
<1>1. total \in Nat /\ f \in AFile /\ HeldPages(f)
  BY ReaderAssumption DEF Held
<1>2. ASSUME NEW i \in PagesOf(f, b) PROVE f.slots[i].ref + (-1) >= 0
  <2>1. i \in DOMAIN f.slots /\ f.slots[i].ref > 0
    BY PinnedIs
  <2>2. f.slots[i].ref \in Int
    BY <1>1, <2>1, PageIs
  <2> QED
    BY <2>1, <2>2
<1>3. /\ g.slots \in Slots /\ Recounts(f, g) /\ NoneRead(g)
      /\ \A i \in DOMAIN f.slots :
           g.slots[i].ref = IF i \in PagesOf(f, b) THEN f.slots[i].ref + (-1) ELSE f.slots[i].ref
  BY <1>1, <1>2, CountedIs
<1> HIDE DEF g
<1>4. /\ g \in AFile /\ HeldPages(g)
      /\ \A c : PagesOf(g, c) = PagesOf(f, c) /\ (AllThere(g, c) <=> AllThere(f, c))
  BY <1>1, <1>3, Recounted
<1> HIDE DEF b
<1>5. PinsThere(g, pinn, idx)
  BY <1>4 DEF Held, PinsThere
<1>6. RefsAre(g, pinn, idx)
  <2> SUFFICES ASSUME NEW i \in DOMAIN g.slots
               PROVE  g.slots[i].ref = Cardinality(LockersOf(g, pinn, idx, i))
    BY DEF RefsAre
  <2> DEFINE S == LockersOf(f, pin, idx, i)
             T == LockersOf(g, pinn, idx, i)
  <2>1. i \in DOMAIN f.slots /\ f.slots[i].ref = Cardinality(S) /\ IsFiniteSet(S)
    BY <1>3, LockersFinite DEF NoneRead, Held, RefsAre, Recounts
  <2>2. t \in S <=> i \in PagesOf(f, b)
    BY DEF LockersOf, b
  <2>3. T = S \ {t}
    <3>1. \A u \in Tracks : pinn[u] <=> pin[u] /\ u # t
      OBVIOUS
    <3> HIDE DEF pinn
    <3> QED
      BY <1>4, <3>1 DEF LockersOf
  <2> HIDE DEF S, T
  <2>4. CASE i \in PagesOf(f, b)
    <3>1. Cardinality(T) = Cardinality(S) - 1
      BY <2>1, <2>2, <2>3, <2>4, FS_RemoveElement
    <3>2. Cardinality(S) \in Nat
      BY <2>1, FS_CardinalityType
    <3> QED
      BY <1>3, <2>1, <2>4, <3>1, <3>2 DEF T
  <2>5. CASE i \notin PagesOf(f, b)
    <3>1. T = S
      BY <2>2, <2>3, <2>5
    <3> QED
      BY <1>3, <2>1, <2>5, <3>1 DEF T
  <2> QED
    BY <2>4, <2>5
<1> QED
  BY <1>3, <1>4, <1>5, <1>6 DEF Held, g, b

(* UnlockAll: no count is left.                                            *)
LEMMA UnlockAllIs ==
  ASSUME total \in FileSizes, NEW f, Held(f, pinned, index), NEW idx
  PROVE  LET g == UnlockAll(f) IN
         /\ Held(g, [t \in Tracks |-> FALSE], idx) /\ Recounts(f, g)
         /\ \A i \in DOMAIN f.slots : f.slots[i].ref < 0 => g.slots[i] = f.slots[i]
<1> DEFINE g == UnlockAll(f)
           C(i) == Cardinality(LockersOf(f, pinned, index, i))
           F == [i \in DOMAIN f.slots |-> Recount(f.slots[i], -C(i))]
<1>1. total \in Nat /\ f \in AFile /\ HeldPages(f)
  BY ReaderAssumption DEF Held
<1>2. g = [f EXCEPT !.slots = F] /\ f.slots \in Slots
  <2>1. g = [f EXCEPT !.slots = F]
    BY DEF UnlockAll, LockersOf, Block
  <2> QED
    BY <1>1, <2>1, FileIs
<1>3. g.slots = F
  BY <1>1, <1>2 DEF AFile
<1>4. ASSUME NEW i \in DOMAIN f.slots
      PROVE  /\ F[i] \in APage /\ F[i].at = f.slots[i].at /\ F[i].size = f.slots[i].size
             /\ f.slots[i].ref >= 0 => F[i].ref = 0
             /\ f.slots[i].ref < 0 => F[i] = f.slots[i]
             /\ f.slots[i].at < 0 => F[i] = Blank
             /\ f.slots[i].ref \in Int
  <2> DEFINE s == f.slots[i]
             c == C(i)
  <2>1. s \in APage /\ s.at \in Int /\ s.ref \in Int /\ c \in Nat
    BY <1>2, SlotsAre, LockersFinite
  <2>2. F[i] = [s EXCEPT !.ref = s.ref + (-c)]
    BY DEF Recount
  <2>3. s.ref >= 0 => s.ref = c
    BY DEF Held, RefsAre
  <2>4. ASSUME s.ref < 0 PROVE c = 0
    <3>1. ASSUME NEW t \in LockersOf(f, pinned, index, i) PROVE FALSE
      <4>1. s.ref > 0
        BY <3>1, PinnedIs DEF LockersOf
      <4> QED
        BY <2>1, <2>4, <4>1
    <3>2. LockersOf(f, pinned, index, i) = {}
      BY <3>1
    <3> QED
      BY <3>2, FS_EmptySet
  <2>5. s.at < 0 => s = Blank
    BY <1>1, PageIs
  <2> HIDE DEF F, C, s, c
  <2>6. F[i] \in APage /\ F[i].at = s.at /\ F[i].size = s.size /\ F[i].ref = s.ref + (-c)
    BY <2>1, <2>2 DEF APage
  <2>7. s.ref < 0 => F[i] = s
    <3>1. ASSUME s.ref < 0 PROVE F[i] = s
      <4>1. s.ref + (-c) = s.ref
        BY <2>1, <2>4, <3>1
      <4> QED
        BY <2>1, <2>2, <4>1 DEF APage
    <3> QED
      BY <3>1
  <2>8. s.at < 0 => F[i] = Blank
    <3>1. ASSUME s.at < 0 PROVE F[i] = Blank
      <4>1. s.ref = 0 /\ s = Blank
        BY <2>5, <3>1 DEF Blank
      <4>2. s.ref + (-c) = s.ref
        BY <2>1, <2>3, <4>1
      <4> QED
        BY <2>1, <2>2, <4>1, <4>2 DEF APage
    <3> QED
      BY <3>1
  <2> QED
    BY <2>1, <2>3, <2>6, <2>7, <2>8 DEF s
<1>5. DOMAIN F = DOMAIN f.slots
  OBVIOUS
<1>6. F = [i \in DOMAIN f.slots |-> F[i]]
  OBVIOUS
<1> HIDE DEF F, g, C
<1>7. F \in Slots
  BY <1>2, <1>4, <1>5, <1>6, SlotsOf
<1>8. Recounts(f, g)
  <2>1. \A i \in DOMAIN f.slots : f.slots[i].ref < 0 <=> F[i].ref < 0
    BY <1>4
  <2> QED
    BY <1>2, <1>3, <1>4, <1>5, <2>1 DEF Recounts
<1>9. g \in AFile /\ HeldPages(g)
  BY <1>1, <1>3, <1>7, <1>8, Recounted
<1>10. PinsThere(g, [t \in Tracks |-> FALSE], idx)
  BY DEF PinsThere
<1>11. RefsAre(g, [t \in Tracks |-> FALSE], idx)
  <2> SUFFICES ASSUME NEW i \in DOMAIN g.slots, g.slots[i].ref >= 0
               PROVE  g.slots[i].ref = Cardinality(LockersOf(g, [t \in Tracks |-> FALSE], idx, i))
    BY DEF RefsAre
  <2>1. LockersOf(g, [t \in Tracks |-> FALSE], idx, i) = {}
    BY DEF LockersOf
  <2>2. i \in DOMAIN f.slots /\ (f.slots[i].ref < 0 <=> g.slots[i].ref < 0)
    BY <1>8 DEF Recounts
  <2>3. f.slots[i].ref >= 0
    <3>1. g.slots[i].ref \in Int
      BY <1>3, <1>4, <2>2 DEF APage
    <3> QED
      BY <1>4, <2>2, <3>1
  <2>4. g.slots[i].ref = 0
    BY <1>3, <1>4, <2>2, <2>3
  <2> QED
    BY <2>1, <2>4, FS_EmptySet
<1> QED
  BY <1>3, <1>4, <1>8, <1>9, <1>10, <1>11 DEF Held, g

-----------------------------------------------------------------------------
(***************************************************************************)
(* AsyncReadPage.                                                          *)
(***************************************************************************)

(* When all pages are in use, there are fewer than places in the file, for *)
(* k is still without one.                                                 *)
LEMMA AllInUse ==
  ASSUME total \in Nat, NEW f \in AFile, HeldPages(f), f.free = {}, NEW k, Aligned(k), k <= total,
         \A i \in DOMAIN f.slots : f.slots[i].at # k, NEW n \in Nat, DOMAIN f.slots = 1 .. n
  PROVE  n < Cardinality(KeysOf(0, total + 1))
<1> DEFINE K == KeysOf(0, total + 1)
           M == [i \in 1 .. n |-> f.slots[i].at]
<1>1. IsFiniteSet(K) /\ \A x : x \in K <=> Aligned(x) /\ x <= total
  BY KeysFew
<1>2. f.cache = 1 .. n
  BY DEF HeldPages, HeldApart
<1>3. ASSUME NEW i \in 1 .. n PROVE M[i] \in K \ {k} /\ M[i] = f.slots[i].at /\ f.slots[i].at >= 0
  <2>1. f.slots[i].at >= 0
    BY <1>2, CachedIs
  <2>2. Aligned(f.slots[i].at) /\ f.slots[i].at <= total
    BY <2>1, PageIs
  <2>3. f.slots[i].at \in K /\ f.slots[i].at # k
    BY <1>1, <2>2
  <2> QED
    BY <2>1, <2>3
<1>4. k \in K
  BY <1>1
<1> HIDE DEF K
<1>5. M \in Injection(1 .. n, K \ {k})
  <2>1. M \in [1 .. n -> K \ {k}]
    BY <1>3
  <2>2. ASSUME NEW i \in 1 .. n, NEW j \in 1 .. n, M[i] = M[j] PROVE i = j
    <3>1. f.slots[i].at = f.slots[j].at /\ f.slots[i].at >= 0
      BY <1>3, <2>2
    <3> QED
      BY <3>1, PageOnce
  <2> QED
    BY <2>1, <2>2 DEF Injection, IsInjective
<1>6. IsFiniteSet(K \ {k}) /\ Cardinality(K \ {k}) = Cardinality(K) - 1 /\ Cardinality(K) \in Nat
  BY <1>1, <1>4, FS_RemoveElement, FS_CardinalityType
<1>7. Cardinality(1 .. n) <= Cardinality(K \ {k})
  BY <1>5, <1>6, FS_Injection
<1>8. Cardinality(1 .. n) = n
  BY FS_Interval
<1> QED
  BY <1>6, <1>7, <1>8 DEF K

LEMMA RegionIs ==
  ASSUME total \in FileSizes, NEW f, NEW pin, NEW idx, Held(f, pin, idx), NoneRead(f),
         NEW k, Aligned(k), k <= total, \A i \in DOMAIN f.slots : f.slots[i].at # k
  PROVE  LET g == CreateRegion(f) IN
         /\ Held(g, pin, idx) /\ NoneRead(g) /\ g.free # {}
         /\ \A i \in DOMAIN g.slots : g.slots[i].at # k
         /\ g.cache = f.cache /\ \A i \in f.cache : g.slots[i] = f.slots[i]
         /\ g = [f EXCEPT !.slots = g.slots, !.free = g.free]
<1>1. total \in Nat /\ f \in AFile /\ HeldPages(f)
  BY ReaderAssumption DEF Held
<1>2. CASE f.free # {}
  <2>1. CreateRegion(f) = f /\ f = [f EXCEPT !.slots = f.slots, !.free = f.free]
    BY <1>1, <1>2 DEF CreateRegion, AFile
  <2> QED
    BY <1>2, <2>1
<1>3. CASE f.free = {}
  <2> DEFINE g == CreateRegion(f)
  <2>1. PICK n \in Nat : DOMAIN f.slots = 1 .. n /\ f.slots \in [1 .. n -> APage]
    BY <1>1, FileIs, SlotsAre
  <2>2. Cardinality(DOMAIN f.slots) = n
    BY <2>1, FS_Interval
  <2> DEFINE R == RegionPages
             new == n + 1 .. n + R
             F == [i \in 1 .. n \cup new |-> IF i \in new THEN Blank ELSE f.slots[i]]
  <2>3. g = [f EXCEPT !.slots = F, !.free = new]
    BY <1>3, <2>1, <2>2 DEF CreateRegion
  <2>4. R \in Nat /\ R > 0
    BY Sizes
  <2>5. 1 .. n \cup new = 1 .. n + R /\ n + 1 \in new /\ 1 .. n \cap new = {}
    BY <2>4
  <2>6. /\ \A i \in 1 .. n : F[i] = f.slots[i]
        /\ \A j \in new : F[j] = Blank
    BY <2>5
  <2>7. F \in [1 .. n + R -> APage]
    <3>1. Blank \in APage
      BY DEF Blank, APage
    <3> QED
      BY <2>1, <2>5, <3>1
  <2> HIDE DEF F, g, new, R
  <2>8. /\ g \in AFile /\ g.slots = F /\ g.free = new /\ g.cache = f.cache /\ g.length = f.length
    <3>1. F \in Slots /\ new \subseteq Nat
      <4>1. n + R \in Nat
        BY <2>4
      <4>2. new \subseteq Nat
        BY DEF new
      <4> QED
        BY <2>7, <4>1, <4>2 DEF Slots
    <3> QED
      BY <1>1, <2>3, <3>1 DEF AFile
  <2>9. DOMAIN g.slots = 1 .. n + R
    BY <2>7, <2>8
  <2>10. \A i \in DOMAIN g.slots : i \in new \/ i \in 1 .. n
    BY <2>5, <2>9
  <2>11. f.cache = 1 .. n
    BY <1>1, <1>3, <2>1 DEF HeldPages, HeldApart
  <2>12. \A i \in DOMAIN g.slots : IF i \in new THEN g.slots[i] = Blank ELSE g.slots[i] = f.slots[i]
    BY <2>5, <2>6, <2>8, <2>10
  <2>13. HeldPages(g)
    <3>1. HeldApart(g)
      <4>1. g.free \cup g.cache = DOMAIN g.slots /\ g.free \cap g.cache = {}
        BY <2>5, <2>8, <2>9, <2>11
      <4>2. \A i \in g.cache : g.slots[i].at >= 0
        BY <1>1, <2>6, <2>8, <2>11, CachedIs
      <4> QED
        BY <4>1, <4>2 DEF HeldApart
    <3>2. OnePageEach(g)
      <4> SUFFICES ASSUME NEW i \in DOMAIN g.slots, NEW j \in DOMAIN g.slots, g.slots[i].at >= 0,
                          g.slots[i].at = g.slots[j].at
                   PROVE  i = j
        BY DEF OnePageEach
      <4>1. i \notin new /\ j \notin new
        BY <2>12 DEF Blank
      <4>2. i \in DOMAIN f.slots /\ j \in DOMAIN f.slots /\ f.slots[i].at >= 0 /\ f.slots[i].at = f.slots[j].at
        BY <2>1, <2>10, <2>12, <4>1
      <4> QED
        BY <1>1, <4>2, PageOnce
    <3>3. FewPages(g)
      <4>1. n < Cardinality(KeysOf(0, total + 1))
        BY <1>1, <1>3, <2>1, AllInUse
      <4>2. Cardinality(DOMAIN g.slots) = n + R
        BY <2>4, <2>9, FS_Interval
      <4>3. Cardinality(KeysOf(0, total + 1)) \in Nat
        BY <1>1, KeysFew, FS_CardinalityType
      <4> QED
        BY <2>4, <4>1, <4>2, <4>3 DEF FewPages, R
    <3>4. ASSUME NEW i \in DOMAIN g.slots PROVE RightPage(g.length, g.slots[i])
      <4>1. CASE i \in new
        BY <2>12, <4>1 DEF RightPage, Blank
      <4>2. CASE i \notin new
        BY <1>1, <2>1, <2>8, <2>10, <2>12, <4>2 DEF HeldPages
      <4> QED
        BY <4>1, <4>2
    <3> QED
      BY <1>1, <2>8, <3>1, <3>2, <3>3, <3>4 DEF HeldPages
  <2>14. \A i \in f.cache : g.slots[i] = f.slots[i]
    BY <2>6, <2>8, <2>11
  <2>15. \A i \in DOMAIN g.slots :
            \/ i \in DOMAIN f.slots /\ g.slots[i] = f.slots[i]
            \/ g.slots[i].ref = 0 /\ i \notin f.cache /\ g.slots[i].at = -1
    BY <2>1, <2>5, <2>10, <2>11, <2>12 DEF Blank
  <2>16. NoneRead(g)
    BY <2>15 DEF NoneRead
  <2>17. Held(g, pin, idx)
    BY <2>8, <2>13, <2>14, <2>15, LocksStay
  <2>18. \A i \in DOMAIN g.slots : g.slots[i].at # k
    BY <2>15 DEF Aligned
  <2>19. g.free # {}
    BY <2>5, <2>8
  <2> QED
    BY <2>3, <2>8, <2>14, <2>16, <2>17, <2>18, <2>19 DEF g
<1> QED
  BY <1>2, <1>3

LEMMA FirstFreeIs ==
  ASSUME total \in Nat, NEW f \in AFile, HeldPages(f), f.free # {}
  PROVE  FirstFree(f) \in f.free
<1> DEFINE S == {f.slots[j].at + 1 : j \in f.free}
           T == {i \in f.free : \A j \in f.free : f.slots[i].at <= f.slots[j].at}
<1>1. ASSUME NEW j \in f.free PROVE f.slots[j].at \in Int /\ f.slots[j].at >= -1 /\ j \in Nat
  <2>1. j \in DOMAIN f.slots
    BY DEF HeldPages, HeldApart
  <2>2. f.slots[j].at \in Int /\ j \in Nat /\ (f.slots[j].at < 0 => f.slots[j] = Blank)
    BY <2>1, PageIs
  <2> QED
    BY <2>2 DEF Blank
<1>2. S \subseteq Nat /\ S # {}
  <2>1. ASSUME NEW j \in f.free PROVE f.slots[j].at + 1 \in Nat
    BY <1>1
  <2> QED
    BY <2>1
<1>3. PICK i \in f.free : \A y \in S : f.slots[i].at + 1 <= y
  <2>1. Least(S) \in S /\ \A y \in S : Least(S) <= y
    BY <1>2, LeastIs
  <2> QED
    BY <2>1
<1>4. ASSUME NEW j \in f.free PROVE f.slots[i].at <= f.slots[j].at
  <2>1. f.slots[i].at + 1 <= f.slots[j].at + 1
    BY <1>3
  <2> QED
    BY <1>1, <2>1
<1>5. T \subseteq Nat /\ T # {} /\ T \subseteq f.free
  BY <1>1, <1>4
<1>6. Least(T) \in T
  BY <1>5, LeastIs
<1> QED
  BY <1>5, <1>6 DEF FirstFree

LEMMA ReadPageIs ==
  ASSUME total \in FileSizes, NEW f, NEW pin, NEW idx, Held(f, pin, idx), NoneRead(f),
         NEW k, Aligned(k), k <= total, \A i \in DOMAIN f.slots : f.slots[i].at # k
  PROVE  LET h == AsyncReadPage(f, k) IN
         /\ Held(h, pin, idx) /\ Keeps(f, h) /\ \A m : HasKey(f, m) => HasKey(h, m)
         /\ h.at = k /\ h.pos = f.pos /\ h.len = f.len /\ h.length = f.length
         /\ \E i \in h.cache : /\ h.slots[i] = [at |-> k, size |-> 0, ref |-> -1]
                               /\ \A j \in DOMAIN h.slots : j # i => h.slots[j].ref >= 0
<1>1. total \in Nat /\ f \in AFile /\ HeldPages(f) /\ k \in Nat
  BY ReaderAssumption DEF Held, Aligned
<1> DEFINE g == CreateRegion(f)
           i == FirstFree(g)
           page == [at |-> k, size |-> 0, ref |-> -1]
           h == AsyncReadPage(f, k)
<1>2. /\ Held(g, pin, idx) /\ NoneRead(g) /\ g.free # {}
      /\ \A j \in DOMAIN g.slots : g.slots[j].at # k
      /\ g.cache = f.cache /\ \A j \in f.cache : g.slots[j] = f.slots[j]
      /\ g = [f EXCEPT !.slots = g.slots, !.free = g.free]
  BY RegionIs
<1>3. h = [g EXCEPT !.slots[i] = page, !.at = k, !.free = g.free \ {i}, !.cache = g.cache \cup {i}]
  BY <1>1, <1>2 DEF AsyncReadPage, Lists, Held, AFile
<1> HIDE DEF g, h
<1>4. g \in AFile /\ HeldPages(g)
  BY <1>2 DEF Held
<1>5. i \in g.free
  BY <1>1, <1>2, <1>4, FirstFreeIs
<1> HIDE DEF i
<1>6. i \in DOMAIN g.slots /\ i \notin g.cache
  BY <1>4, <1>5 DEF HeldPages, HeldApart
<1>7. page \in APage /\ page.at = k /\ page.size = 0 /\ page.ref = -1
  BY <1>1 DEF APage
<1> HIDE DEF page
<1>8. /\ h \in AFile /\ h.slots = [g.slots EXCEPT ![i] = page] /\ h.at = k
      /\ h.free = g.free \ {i} /\ h.cache = g.cache \cup {i}
      /\ h.length = g.length /\ h.pos = g.pos /\ h.len = g.len
  <2>1. PICK n \in Nat : g.slots \in [1 .. n -> APage]
    BY <1>4, FileIs, SlotsAre
  <2>2. [g.slots EXCEPT ![i] = page] \in Slots
    BY <1>7, <2>1 DEF Slots
  <2>3. i \in Nat
    BY <1>5, <1>4, FileIs
  <2> QED
    BY <1>1, <1>3, <1>4, <2>2, <2>3 DEF AFile
<1>9. DOMAIN h.slots = DOMAIN g.slots /\ h.slots[i] = page /\ \A j \in DOMAIN g.slots : j # i => h.slots[j] = g.slots[j]
  BY <1>6, <1>8
<1>10. \A j \in g.cache : j # i /\ j \in DOMAIN g.slots /\ h.slots[j] = g.slots[j]
  BY <1>4, <1>6, <1>9, CachedIs
<1>11. HeldPages(h)
  <2>1. HeldApart(h)
    <3>1. h.free \cup h.cache = DOMAIN h.slots /\ h.free \cap h.cache = {}
      BY <1>4, <1>5, <1>8, <1>9 DEF HeldPages, HeldApart
    <3>2. ASSUME NEW j \in h.cache PROVE h.slots[j].at >= 0
      BY <1>1, <1>4, <1>7, <1>8, <1>9, <1>10, <3>2, CachedIs
    <3> QED
      BY <3>1, <3>2 DEF HeldApart
  <2>2. OnePageEach(h)
    <3> SUFFICES ASSUME NEW a \in DOMAIN h.slots, NEW b \in DOMAIN h.slots, h.slots[a].at >= 0,
                        h.slots[a].at = h.slots[b].at
                 PROVE  a = b
      BY DEF OnePageEach
    <3>1. CASE a = i \/ b = i
      BY <1>2, <1>7, <1>9, <3>1
    <3>2. CASE a # i /\ b # i
      <4>1. h.slots[a] = g.slots[a] /\ h.slots[b] = g.slots[b] /\ a \in DOMAIN g.slots /\ b \in DOMAIN g.slots
        BY <1>9, <3>2
      <4> QED
        BY <1>4, <4>1, PageOnce
    <3> QED
      BY <3>1, <3>2
  <2>3. FewPages(h)
    BY <1>4, <1>9 DEF HeldPages, FewPages
  <2>4. ASSUME NEW j \in DOMAIN h.slots PROVE RightPage(h.length, h.slots[j])
    <3>1. CASE j = i
      BY <1>1, <1>7, <1>9, <3>1 DEF RightPage
    <3>2. CASE j # i
      BY <1>4, <1>8, <1>9, <3>2 DEF HeldPages
    <3> QED
      BY <3>1, <3>2
  <2> QED
    BY <1>4, <1>8, <2>1, <2>2, <2>3, <2>4 DEF HeldPages
<1>12. \A j \in DOMAIN h.slots : h.slots[j].ref >= 0 =>
         \/ j \in DOMAIN g.slots /\ h.slots[j].ref = g.slots[j].ref
         \/ h.slots[j].ref = 0 /\ (j \in g.cache => g.slots[j].ref <= 0)
  BY <1>7, <1>9
<1>13. Held(h, pin, idx)
  <2>1. \A j \in g.cache : g.slots[j].ref > 0 =>
           j \in h.cache /\ h.slots[j].at = g.slots[j].at /\ h.slots[j].size = g.slots[j].size
    BY <1>8, <1>10
  <2>2. h \in AFile
    BY <1>8
  <2>3. Held(g, pin, idx)
    BY <1>2
  <2> QED
    BY <1>11, <1>12, <2>1, <2>2, <2>3, LocksStay
<1>14. Keeps(f, h)
  BY <1>2, <1>8, <1>10 DEF Keeps
<1>15. ASSUME NEW m, HasKey(f, m) PROVE HasKey(h, m)
  BY <1>2, <1>8, <1>10, <1>15 DEF HasKey
<1>16. i \in h.cache /\ h.slots[i] = page /\ \A j \in DOMAIN h.slots : j # i => h.slots[j].ref >= 0
  BY <1>2, <1>8, <1>9 DEF NoneRead
<1>17. h.at = k /\ h.pos = f.pos /\ h.len = f.len /\ h.length = f.length
  <2>1. g.pos = f.pos /\ g.len = f.len /\ g.length = f.length
    BY <1>1, <1>2 DEF AFile
  <2> QED
    BY <1>8, <2>1
<1> QED
  BY <1>13, <1>14, <1>15, <1>16, <1>17 DEF h, page

-----------------------------------------------------------------------------
(***************************************************************************)
(* AsyncReadContinue.                                                      *)
(***************************************************************************)

(* Pages that are taken back from the free ones.                           *)
LEMMA ReuseIs ==
  ASSUME total \in FileSizes, NEW f, NEW pin, NEW idx, Held(f, pin, idx), NoneRead(f),
         NEW R, R \subseteq f.free, \A i \in R : f.slots[i].at >= 0
  PROVE  LET g == Lists(f, f.free \ R, f.cache \cup R) IN
         /\ Held(g, pin, idx) /\ NoneRead(g) /\ Keeps(f, g)
         /\ g.cache = f.cache \cup R /\ g.slots = f.slots
         /\ g = [f EXCEPT !.free = g.free, !.cache = g.cache]
<1> DEFINE g == Lists(f, f.free \ R, f.cache \cup R)
<1>1. total \in Nat /\ f \in AFile /\ HeldPages(f)
  BY ReaderAssumption DEF Held
<1>2. /\ g = [f EXCEPT !.free = f.free \ R, !.cache = f.cache \cup R]
      /\ g.slots = f.slots /\ g.free = f.free \ R /\ g.cache = f.cache \cup R
      /\ g.length = f.length /\ g \in AFile
  <2>1. f.free \ R \subseteq Nat /\ f.cache \cup R \subseteq Nat
    BY <1>1, FileIs
  <2> QED
    BY <1>1, <2>1 DEF Lists, AFile
<1> HIDE DEF g
<1>3. HeldPages(g)
  <2>1. HeldApart(g)
    BY <1>1, <1>2 DEF HeldPages, HeldApart
  <2>2. OnePageEach(g) /\ FewPages(g)
    BY <1>1, <1>2 DEF HeldPages, OnePageEach, FewPages
  <2> QED
    BY <1>1, <1>2, <2>1, <2>2 DEF HeldPages
<1>4. Held(g, pin, idx)
  BY <1>2, <1>3, LocksStay
<1> QED
  BY <1>2, <1>4 DEF g, NoneRead, Keeps

(* Only the range, what is available or the place of the stream changes.   *)
Ranges(f, g) ==
  g.slots = f.slots /\ g.free = f.free /\ g.cache = f.cache /\ g.length = f.length

LEMMA Ranged ==
  ASSUME NEW f, NEW g, Ranges(f, g)
  PROVE  /\ HeldPages(f) => HeldPages(g)
         /\ NoneRead(f) => NoneRead(g)
         /\ Keeps(f, g)
         /\ \A k : HasKey(g, k) <=> HasKey(f, k)
         /\ \A b : AllThere(g, b) <=> AllThere(f, b)
         /\ \A pin, idx : Held(f, pin, idx) /\ g \in AFile => Held(g, pin, idx)
<1>1. HeldPages(f) => HeldPages(g)
  BY DEF Ranges, HeldPages, HeldApart, OnePageEach, FewPages
<1>2. \A b : (AllThere(g, b) <=> AllThere(f, b)) /\ PagesOf(g, b) = PagesOf(f, b)
  BY DEF Ranges, AllThere, ByteThere, DataEnd, PagesOf
<1>3. ASSUME NEW pin, NEW idx, Held(f, pin, idx), g \in AFile PROVE Held(g, pin, idx)
  <2>1. RefsAre(g, pin, idx)
    BY <1>2, <1>3 DEF Held, RefsAre, LockersOf, Ranges
  <2>2. PinsThere(g, pin, idx)
    BY <1>2, <1>3 DEF Held, PinsThere
  <2> QED
    BY <1>1, <1>3, <2>1, <2>2 DEF Held
<1>4. NoneRead(f) => NoneRead(g)
  BY DEF Ranges, NoneRead
<1>5. Keeps(f, g) /\ \A k : HasKey(g, k) <=> HasKey(f, k)
  BY DEF Ranges, Keeps, HasKey
<1> QED
  BY <1>1, <1>2, <1>3, <1>4, <1>5

LEMMA MoreOfMany ==
  ASSUME NEW a \in Int, NEW S, S \subseteq Nat, NEW n \in Nat, \A y \in S : y <= n
  PROVE  /\ Greatest({a} \cup S) \in Int /\ Greatest({a} \cup S) \in {a} \cup S
         /\ \A y \in {a} \cup S : y <= Greatest({a} \cup S)
<1> DEFINE T == {a} \cup S
<1>1. PICK m \in Int : a <= m /\ n <= m
  <2>1. CASE a <= n
    BY <2>1
  <2>2. CASE n <= a
    BY <2>2
  <2> QED
    BY <2>1, <2>2
<1>2. T \subseteq Int /\ T # {}
  OBVIOUS
<1>3. ASSUME NEW y \in T PROVE y <= m
  <2>1. CASE y = a
    BY <1>1, <2>1
  <2>2. CASE y \in S
    <3>1. y \in Nat /\ y <= n
      BY <2>2
    <3> QED
      BY <1>1, <3>1
  <2> QED
    BY <2>1, <2>2
<1>4. Greatest(T) \in T /\ \A y \in T : y <= Greatest(T)
  BY <1>1, <1>2, <1>3, GreatestIs
<1> QED
  BY <1>2, <1>4

LEMMA AvailIs ==
  ASSUME NEW f \in AFile, NEW S, S \subseteq Nat, NEW n \in Nat, \A y \in S : y <= n
  PROVE  \E a \in Int : AvailAtLeast(f, S) = [f EXCEPT !.avail = a]
<1>1. f.avail \in Int
  BY FileIs
<1>2. Greatest({f.avail} \cup S) \in Int
  BY <1>1, MoreOfMany
<1> QED
  BY <1>2 DEF AvailAtLeast

(* The keys of the range up to the first one to be read.                   *)
LEMMA PassedIs ==
  ASSUME total \in Nat, NEW f \in AFile, HeldPages(f), NoneRead(f), RangeIs(f)
  PROVE  LET end    == f.pos + f.len
             keys   == KeysOf(f.pos, end)
             held   == {f.slots[i].at : i \in f.cache \cup f.free}
             gaps   == keys \ held
             stop   == IF gaps = {} THEN end ELSE Least(gaps)
             passed == {k \in keys : k < stop}
         IN /\ f.pos \in Nat /\ end \in Nat /\ f.pos < end /\ stop \in Nat /\ stop <= end
            /\ \A k : k \in keys <=> Aligned(k) /\ KeyOf(f.pos) <= k /\ k < end
            /\ passed \subseteq Nat
            /\ gaps = {} => passed = keys
            /\ gaps # {} => /\ Aligned(stop) /\ stop <= total /\ stop < end /\ stop \in keys
                            /\ \A i \in DOMAIN f.slots : f.slots[i].at # stop
            /\ \A k \in passed : \E i \in DOMAIN f.slots : f.slots[i].at = k
<1> DEFINE end    == f.pos + f.len
           keys   == KeysOf(f.pos, end)
           held   == {f.slots[i].at : i \in f.cache \cup f.free}
           gaps   == keys \ held
           stop   == IF gaps = {} THEN end ELSE Least(gaps)
           passed == {k \in keys : k < stop}
<1>1. f.pos \in Nat /\ end \in Nat /\ f.pos < end /\ KeyOf(f.pos) <= total
  BY DEF RangeIs
<1>2. f.length >= 0 => end <= total
  BY DEF RangeIs
<1> HIDE DEF end
<1>3. \A k : k \in keys <=> Aligned(k) /\ KeyOf(f.pos) <= k /\ k < end
  BY <1>1, KeysAre
<1> HIDE DEF keys
<1>4. keys \subseteq Nat
  BY <1>3 DEF Aligned
<1>5. f.cache \cup f.free = DOMAIN f.slots
  BY DEF HeldPages, HeldApart
<1>6. \A k : k \in held <=> \E i \in DOMAIN f.slots : f.slots[i].at = k
  BY <1>5
<1> HIDE DEF held
<1>7. gaps # {} => Least(gaps) \in gaps /\ \A k \in gaps : Least(gaps) <= k
  BY <1>4, LeastIs
<1>8. stop \in Nat /\ stop <= end
  <2>1. CASE gaps = {}
    BY <1>1, <2>1
  <2>2. CASE gaps # {}
    <3>1. stop = Least(gaps) /\ Least(gaps) \in keys
      BY <1>7, <2>2
    <3>2. stop \in Nat /\ stop < end
      BY <1>3, <1>4, <3>1
    <3> QED
      BY <1>1, <3>2
  <2> QED
    BY <2>1, <2>2
<1>9. ASSUME NEW k \in passed PROVE \E i \in DOMAIN f.slots : f.slots[i].at = k
  <2>1. k \in keys /\ k < stop /\ k \in Nat
    BY <1>4
  <2>2. k \notin gaps
    <3>1. ASSUME k \in gaps PROVE FALSE
      <4>1. gaps # {} /\ stop = Least(gaps) /\ stop <= k
        BY <1>7, <3>1
      <4> QED
        BY <1>8, <2>1, <4>1
    <3> QED
      BY <3>1
  <2>3. k \in held
    BY <2>1, <2>2
  <2> QED
    BY <1>6, <2>3
<1>10. ASSUME gaps = {} PROVE passed = keys
  BY <1>3, <1>10
<1>11. ASSUME gaps # {}
       PROVE  /\ Aligned(stop) /\ stop <= total /\ stop < end /\ stop \in keys
              /\ \A i \in DOMAIN f.slots : f.slots[i].at # stop
  <2>1. stop \in keys /\ stop \notin held
    BY <1>7, <1>11
  <2> HIDE DEF stop
  <2>2. Aligned(stop) /\ KeyOf(f.pos) <= stop /\ stop < end
    BY <1>3, <2>1
  <2>3. \A i \in DOMAIN f.slots : f.slots[i].at # stop
    BY <1>6, <2>1
  <2>4. stop <= total
    <3>1. CASE f.length >= 0
      BY <1>1, <1>2, <1>8, <2>2, <3>1
    <3>2. CASE stop = KeyOf(f.pos)
      BY <1>1, <3>2
    <3>3. CASE ~(f.length >= 0) /\ stop # KeyOf(f.pos)
      <4> DEFINE m == KeyOf(stop - 1)
      <4>1. /\ KeyOf(f.pos) \in Nat /\ f.pos < KeyOf(f.pos) + PageBytes /\ Aligned(KeyOf(f.pos))
            /\ PageBytes \in Nat /\ PageBytes > 0
        BY <1>1, KeyIs, Sizes
      <4>2. KeyOf(f.pos) < stop
        BY <1>8, <2>2, <3>3, <4>1
      <4>3. KeyOf(f.pos) + PageBytes <= stop
        BY <2>2, <4>1, <4>2, KeyGap
      <4>4. stop - 1 \in Nat /\ f.pos <= stop - 1
        BY <1>1, <1>8, <4>1, <4>3
      <4>5. m \in Nat /\ m <= stop - 1 /\ stop - 1 < m + PageBytes /\ Aligned(m) /\ KeyOf(f.pos) <= m
        BY <1>1, <4>4, KeyIs, KeyGrows
      <4> HIDE DEF m
      <4>6. m < stop /\ m < end
        BY <1>1, <1>8, <2>2, <4>5
      <4>7. m \in passed
        BY <1>3, <4>5, <4>6
      <4>8. PICK i \in DOMAIN f.slots : f.slots[i].at = m
        BY <1>9, <4>7
      <4>9. f.slots[i].ref >= 0
        BY DEF NoneRead
      <4>10. /\ f.slots[i].size \in Nat /\ f.slots[i].size > 0
             /\ f.slots[i].at + f.slots[i].size <= total
             /\ f.slots[i].size = PageBytes \/ (f.length >= 0 /\ f.slots[i].at + f.slots[i].size = total)
        <5>1. f.slots[i].at >= 0
          BY <4>5, <4>8
        <5>2. f.slots[i].size > 0
          BY <4>9, <5>1, PageIs
        <5> QED
          BY <5>2, PageIs
      <4>11. m + PageBytes <= total
        BY <3>3, <4>8, <4>10
      <4> QED
        BY <1>8, <4>1, <4>5, <4>11
    <3> QED
      BY <3>1, <3>2, <3>3
  <2> QED
    BY <2>1, <2>2, <2>3, <2>4
<1> QED
  BY <1>1, <1>3, <1>4, <1>8, <1>9, <1>10, <1>11 DEF end, keys, held

(* What a request for the bytes from p to e comes to.                      *)
Outcome(f, r, pin, idx, p, e) ==
  /\ Held(r.file, pin, idx) /\ Keeps(f, r.file) /\ SerialFrom(r.file, idx, r.file.at)
  /\ \A k : HasKey(f, k) => HasKey(r.file, k)
  /\ \/ /\ r.hr = "ok" /\ NoneRead(r.file) /\ r.file.pos = -1 /\ r.file.len = -1
        /\ \A k \in KeysOf(p, e) : HasKey(r.file, k)
     \/ /\ r.hr = "more" /\ \E i \in r.file.cache : Busy(r.file, i)
        /\ RangeIs(r.file) /\ r.file.at = KeyOf(r.file.pos) /\ r.file.pos + r.file.len = e
        /\ \A k \in KeysOf(p, e) : k < KeyOf(r.file.pos) => HasKey(r.file, k)
     \/ r.hr = "fail" /\ NoneRead(r.file)

(* AsyncReadContinue takes up a request where it was left.                 *)
LEMMA ContinueIs ==
  ASSUME total \in FileSizes, NEW f, NEW pin, NEW idx, Held(f, pin, idx), NoneRead(f), RangeIs(f),
         f.pos <= f.at, SerialFrom(f, idx, f.at), idx \in [Tracks -> Nat],
         NEW r \in AsyncReadContinue(f)
  PROVE  Outcome(f, r, pin, idx, f.pos, f.pos + f.len)
<1> DEFINE end    == f.pos + f.len
           keys   == KeysOf(f.pos, end)
           held   == {f.slots[i].at : i \in f.cache \cup f.free}
           gaps   == keys \ held
           stop   == IF gaps = {} THEN end ELSE Least(gaps)
           passed == {k \in keys : k < stop}
           reused == {i \in f.free : f.slots[i].at \in passed}
           before == {f.slots[i].at : i \in f.cache} \cap 0 .. f.pos
           seen   == passed \cup (IF before = {} THEN {} ELSE {Greatest(before)})
           g      == Lists(f, f.free \ reused, f.cache \cup reused)
           ends   == {DataEnd(g, i) : i \in {j \in g.cache : g.slots[j].at \in seen}}
           h      == AvailAtLeast(g, ends)
           pos    == Greatest({h.pos, stop})
           moved  == [h EXCEPT !.pos = pos, !.len = end - pos]
           done   == NoRange([h EXCEPT !.at = Greatest({@} \cup ends)])
<1>1. total \in Nat /\ f \in AFile /\ HeldPages(f)
  BY ReaderAssumption DEF Held
<1>2. /\ f.pos \in Nat /\ end \in Nat /\ f.pos < end /\ stop \in Nat /\ stop <= end
      /\ \A k : k \in keys <=> Aligned(k) /\ KeyOf(f.pos) <= k /\ k < end
      /\ passed \subseteq Nat
      /\ gaps = {} => passed = keys
      /\ gaps # {} => /\ Aligned(stop) /\ stop <= total /\ stop < end /\ stop \in keys
                      /\ \A i \in DOMAIN f.slots : f.slots[i].at # stop
      /\ \A k \in passed : \E i \in DOMAIN f.slots : f.slots[i].at = k
  BY <1>1, PassedIs
<1>3. r \in IF gaps = {}
            THEN {[hr |-> "ok", file |-> done]}
            ELSE {[hr |-> "more", file |-> AsyncReadPage(moved, stop)]}
                 \cup (IF IoMayFail THEN {[hr |-> "fail", file |-> moved]} ELSE {})
  BY DEF AsyncReadContinue
<1>4. \A k \in passed : k \in keys /\ k < stop
  OBVIOUS
<1>5. /\ Held(g, pin, idx) /\ NoneRead(g) /\ Keeps(f, g)
      /\ g.cache = f.cache \cup reused /\ g.slots = f.slots
      /\ g = [f EXCEPT !.free = g.free, !.cache = g.cache]
  <2>1. reused \subseteq f.free
    OBVIOUS
  <2>2. ASSUME NEW i \in reused PROVE f.slots[i].at >= 0
    <3>1. passed \subseteq Nat
      BY <1>2
    <3>2. f.slots[i].at \in passed
      OBVIOUS
    <3> HIDE DEF passed, reused
    <3>3. f.slots[i].at \in Nat
      BY <3>1, <3>2
    <3> QED
      BY <3>3
  <2> HIDE DEF reused
  <2> QED
    BY <2>1, <2>2, ReuseIs
<1>6. \A i \in DOMAIN f.slots : i \in f.cache \/ i \in f.free
  BY <1>1 DEF HeldPages, HeldApart
<1>7. \A k \in passed : HasKey(g, k)
  <2> SUFFICES ASSUME NEW k \in passed PROVE HasKey(g, k)
    OBVIOUS
  <2>1. PICK i \in DOMAIN f.slots : f.slots[i].at = k
    BY <1>2
  <2>2. i \in f.cache \cup reused
    BY <1>6, <2>1
  <2> QED
    BY <1>5, <2>1, <2>2 DEF HasKey
<1>8. \A k : HasKey(f, k) => HasKey(g, k)
  BY <1>5 DEF HasKey
<1>9. g \in AFile /\ HeldPages(g) /\ g.pos = f.pos /\ g.len = f.len /\ g.at = f.at /\ g.length = f.length
  <2>1. g \in AFile /\ HeldPages(g)
    BY <1>5 DEF Held
  <2> HIDE DEF g
  <2> QED
    BY <1>1, <1>5, <2>1 DEF AFile
<1> HIDE DEF end, keys, gaps, stop, passed, reused, g
<1>10. seen \subseteq Nat /\ \A k \in seen : k \in passed \/ (k <= f.pos /\ \E i \in f.cache : f.slots[i].at = k)
  <2>1. CASE before = {}
    BY <1>2, <2>1
  <2>2. CASE before # {}
    <3>1. before \subseteq Int /\ \A y \in before : y <= f.pos
      BY <1>2
    <3>2. Greatest(before) \in before
      <4>1. f.pos \in Int
        BY <1>2
      <4> HIDE DEF before
      <4> QED
        BY <2>2, <3>1, <4>1, GreatestIs
    <3>3. Greatest(before) \in Nat /\ Greatest(before) <= f.pos /\ \E i \in f.cache : f.slots[i].at = Greatest(before)
      BY <1>2, <3>2
    <3> HIDE DEF before
    <3> QED
      BY <1>2, <3>3
  <2> QED
    BY <2>1, <2>2
<1> HIDE DEF seen
<1>11. ASSUME NEW e \in ends
       PROVE  \E i \in g.cache : /\ g.slots[i].at \in seen /\ e = g.slots[i].at + g.slots[i].size
                                 /\ e \in Nat /\ e <= total /\ e <= g.slots[i].at + PageBytes
                                 /\ g.slots[i].at \in Nat
  <2>1. PICK i \in g.cache : g.slots[i].at \in seen /\ e = DataEnd(g, i)
    OBVIOUS
  <2>2. i \in DOMAIN g.slots /\ g.slots[i].at >= 0 /\ g.slots[i].ref >= 0
    BY <1>5, <1>9, CachedIs DEF NoneRead
  <2>3. g.slots[i].size > 0 /\ g.slots[i].size \in Nat /\ g.slots[i].at \in Int /\ g.slots[i].size <= PageBytes
    BY <1>1, <1>9, <2>2, PageIs
  <2>4. g.slots[i].at + g.slots[i].size <= total
    BY <1>1, <1>9, <2>2, <2>3, PageIs
  <2>5. PageBytes \in Nat
    BY Sizes
  <2> QED
    BY <2>1, <2>2, <2>3, <2>4, <2>5 DEF DataEnd
<1>12. ends \subseteq Nat /\ \A e \in ends : e <= total
  BY <1>11
<1> HIDE DEF ends
<1>13. PICK a \in Int : h = [g EXCEPT !.avail = a]
  BY <1>1, <1>9, <1>12, AvailIs
<1>14. h \in AFile /\ Ranges(g, h) /\ h.pos = f.pos /\ h.len = f.len /\ h.at = f.at
  BY <1>9, <1>13 DEF AFile, Ranges
<1> HIDE DEF h
<1>15. h.cache = g.cache /\ h.slots = g.slots /\ h.length = f.length
  BY <1>9, <1>14 DEF Ranges
(* The keys from the stream's place on are passed.                         *)
<1>16. ASSUME NEW k \in Nat, NEW p \in PositionsOf(idx), Aligned(k), KeyOf(p) <= k, k < stop
       PROVE  HasKey(g, k)
  <2>1. CASE k < f.at
    <3>1. HasKey(f, k)
      BY <1>16, <2>1 DEF SerialFrom
    <3> QED
      BY <1>8, <3>1
  <2>2. CASE ~(k < f.at)
    <3>1. KeyOf(f.pos) <= f.pos /\ KeyOf(f.pos) \in Nat /\ f.at \in Nat
      BY <1>1, <1>2, KeyIs, FileIs
    <3>2. KeyOf(f.pos) <= k /\ k < end
      BY <1>2, <1>16, <2>2, <3>1
    <3>3. k \in passed
      BY <1>2, <1>16, <3>2 DEF passed
    <3> QED
      BY <1>7, <3>3
  <2> QED
    BY <2>1, <2>2
<1>17. pos \in Nat /\ pos < end + 1 /\ f.pos <= pos /\ stop <= pos /\ pos \in {f.pos, stop}
  BY <1>2, <1>14, MoreOfTwo
<1>18. CASE gaps = {}
  <2>1. r = [hr |-> "ok", file |-> done]
    BY <1>3, <1>18
  <2> DEFINE n == Greatest({f.at} \cup ends)
  <2>2. f.at \in Nat
    BY <1>1, FileIs
  <2>3. n \in {f.at} \cup ends /\ n \in Nat
    <3>1. n \in {f.at} \cup ends
      <4>1. f.at \in Int /\ ends \subseteq Nat /\ \A e \in ends : e <= total
        BY <1>12, <2>2
      <4> QED
        BY <1>1, <4>1, MoreOfMany
    <3> QED
      BY <1>12, <2>2, <3>1
  <2>4. done = [h EXCEPT !.at = n, !.pos = -1, !.len = -1]
    BY <1>14 DEF NoRange, AFile
  <2> HIDE DEF n, done
  <2>5. done \in AFile /\ Ranges(g, done) /\ done.pos = -1 /\ done.len = -1 /\ done.at = n
    <3>1. /\ done \in AFile /\ done.pos = -1 /\ done.len = -1 /\ done.at = n
          /\ Ranges(h, done)
      <4>1. n \in Nat /\ -1 \in Int
        BY <2>3
      <4> QED
        BY <1>14, <2>4, <4>1 DEF AFile, Ranges
    <3> QED
      BY <1>14, <3>1 DEF Ranges
  <2>6. Held(done, pin, idx) /\ NoneRead(done) /\ \A k : HasKey(done, k) <=> HasKey(g, k)
    BY <1>5, <2>5, Ranged
  <2>7. Keeps(f, done)
    BY <1>5, <2>5 DEF Keeps, Ranges
  <2>8. SerialFrom(done, idx, n)
    <3> SUFFICES ASSUME NEW k \in Nat, NEW p \in PositionsOf(idx), Aligned(k), KeyOf(p) <= k, k < n
                 PROVE  HasKey(g, k)
      BY <2>6 DEF SerialFrom
    <3>1. CASE k < f.at
      <4>1. HasKey(f, k)
        BY <3>1 DEF SerialFrom
      <4> QED
        BY <1>8, <4>1
    <3>2. CASE ~(k < f.at)
      <4>1. n \in ends
        BY <2>2, <2>3, <3>2
      <4>2. PICK i \in g.cache : /\ g.slots[i].at \in seen /\ n <= g.slots[i].at + PageBytes
                                 /\ g.slots[i].at \in Nat
        BY <1>11, <4>1
      <4>3. k <= g.slots[i].at
        <5>1. Aligned(g.slots[i].at)
          BY <1>1, <1>9, <4>2, CachedIs, PageIs
        <5>2. ASSUME g.slots[i].at < k PROVE FALSE
          <6>1. g.slots[i].at + PageBytes <= k
            BY <5>1, <5>2, KeyGap
          <6> QED
            BY <2>3, <4>2, <6>1, Sizes
        <5> QED
          BY <4>2, <5>2
      <4>4. CASE g.slots[i].at \in passed
        <5>1. k < stop
          BY <1>2, <1>4, <4>2, <4>3, <4>4 DEF passed
        <5> QED
          BY <1>16, <5>1
      <4>5. CASE g.slots[i].at <= f.pos
        <5>1. k = g.slots[i].at
          BY <1>2, <2>2, <3>2, <4>2, <4>3, <4>5
        <5> QED
          BY <4>2, <5>1 DEF HasKey
      <4> QED
        BY <1>10, <4>2, <4>4, <4>5
    <3> QED
      BY <3>1, <3>2
  <2>9. \A k \in keys : HasKey(done, k)
    BY <1>2, <1>7, <1>18, <2>6
  <2> QED
    BY <1>8, <2>1, <2>5, <2>6, <2>7, <2>8, <2>9 DEF Outcome, keys, end
<1>19. CASE gaps # {}
  <2>1. /\ Aligned(stop) /\ stop <= total /\ stop < end /\ stop \in keys
        /\ \A i \in DOMAIN f.slots : f.slots[i].at # stop
    BY <1>2, <1>19
  <2>2. moved \in AFile /\ Ranges(g, moved) /\ moved.pos = pos /\ moved.len = end - pos /\ moved.at = f.at
        /\ moved.length = f.length
    <3>1. pos \in Int /\ end - pos \in Int
      BY <1>2, <1>17
    <3> HIDE DEF pos
    <3> QED
      BY <1>14, <1>15, <3>1 DEF AFile, Ranges
  <2> HIDE DEF moved, pos
  <2>3. Held(moved, pin, idx) /\ NoneRead(moved) /\ \A k : HasKey(moved, k) <=> HasKey(g, k)
    BY <1>5, <2>2, Ranged
  <2>4. Keeps(f, moved)
    BY <1>5, <2>2 DEF Keeps, Ranges
  <2>5. CASE r = [hr |-> "fail", file |-> moved]
    <3>1. SerialFrom(moved, idx, moved.at)
      BY <1>8, <2>2, <2>3 DEF SerialFrom
    <3> QED
      BY <1>8, <2>3, <2>4, <2>5, <3>1 DEF Outcome
  <2>6. CASE r = [hr |-> "more", file |-> AsyncReadPage(moved, stop)]
    <3> DEFINE m == AsyncReadPage(moved, stop)
    <3>1. \A i \in DOMAIN moved.slots : moved.slots[i].at # stop
      BY <1>5, <2>1, <2>2 DEF Ranges
    <3>2. /\ Held(m, pin, idx) /\ Keeps(moved, m) /\ \A k : HasKey(moved, k) => HasKey(m, k)
          /\ m.at = stop /\ m.pos = moved.pos /\ m.len = moved.len /\ m.length = moved.length
          /\ \E i \in m.cache : /\ m.slots[i] = [at |-> stop, size |-> 0, ref |-> -1]
                                /\ \A j \in DOMAIN m.slots : j # i => m.slots[j].ref >= 0
      BY <2>1, <2>3, <3>1, ReadPageIs
    <3> HIDE DEF m
    <3>3. KeyOf(pos) = stop
      <4>1. stop = KeyOf(stop)
        BY <2>1 DEF Aligned
      <4>2. KeyOf(f.pos) <= stop /\ KeyOf(f.pos) \in Nat
        BY <1>2, <2>1, KeyIs
      <4>3. CASE pos = stop
        BY <4>1, <4>3
      <4>4. CASE pos = f.pos
        <5>1. KeyOf(stop) <= KeyOf(f.pos)
          BY <1>2, <1>17, <4>4, KeyGrows
        <5> QED
          BY <1>2, <4>1, <4>2, <4>4, <5>1
      <4> QED
        BY <1>17, <4>3, <4>4
    <3>4. pos < end
      BY <1>2, <1>17, <2>1
    <3>5. RangeIs(m) /\ m.pos + m.len = end
      <4>1. m.pos \in Nat /\ m.len \in Nat \ {0} /\ m.pos + m.len = end
        BY <1>2, <1>17, <2>2, <3>2, <3>4
      <4>2. KeyOf(m.pos) <= total
        BY <2>1, <2>2, <3>2, <3>3
      <4>3. m.length >= 0 => end <= total
        BY <2>2, <3>2 DEF RangeIs, end
      <4> QED
        BY <4>1, <4>2, <4>3 DEF RangeIs
    <3>6. SerialFrom(m, idx, m.at)
      <4> SUFFICES ASSUME NEW k \in Nat, NEW p \in PositionsOf(idx), Aligned(k), KeyOf(p) <= k, k < stop
                   PROVE  HasKey(m, k)
        BY <3>2 DEF SerialFrom
      <4>1. HasKey(g, k)
        BY <1>16
      <4> QED
        BY <2>3, <3>2, <4>1
    <3>7. Keeps(f, m)
      <4>1. \A i \in f.cache : f.slots[i].size > 0 =>
              i \in moved.cache /\ moved.slots[i].at = f.slots[i].at /\ moved.slots[i].size = f.slots[i].size
        BY <2>4 DEF Keeps
      <4> QED
        BY <3>2, <4>1 DEF Keeps
    <3>8. \A k : HasKey(f, k) => HasKey(m, k)
      BY <1>8, <2>3, <3>2
    <3>9. \E i \in m.cache : Busy(m, i)
      BY <2>2, <3>2, <3>3 DEF Busy
    <3>10. \A k \in keys : k < stop => HasKey(m, k)
      <4> SUFFICES ASSUME NEW k \in keys, k < stop PROVE HasKey(m, k)
        OBVIOUS
      <4>1. k \in passed
        BY DEF passed
      <4> QED
        BY <1>7, <2>3, <3>2, <4>1
    <3>11. m.at = KeyOf(m.pos)
      BY <2>2, <3>2, <3>3
    <3>12. r.hr = "more" /\ r.file = m
      BY <2>6 DEF m
    <3>13. KeyOf(m.pos) = stop
      BY <2>2, <3>2, <3>3
    <3> QED
      BY <3>2, <3>5, <3>6, <3>7, <3>8, <3>9, <3>10, <3>11, <3>12, <3>13 DEF Outcome, keys, end
  <2> QED
    BY <1>3, <1>19, <2>5, <2>6
<1> QED
  BY <1>18, <1>19

(* AsyncReadInit begins one, no later than at the bytes asked for.         *)
LEMMA InitIs ==
  ASSUME total \in FileSizes, NEW f, NEW pin, NEW idx, Held(f, pin, idx), NoneRead(f),
         f.pos = -1, f.len = -1, SerialFrom(f, idx, f.at), idx \in [Tracks -> Nat],
         NEW b, b.start \in Nat, b.size \in Nat, b.size > 0, b.start <= total,
         NEW r \in AsyncReadInit(f, b)
  PROVE  \E p, e \in Nat : /\ Outcome(f, r, pin, idx, p, e)
                           /\ BlockEnd(b) <= total => p <= b.start /\ e = BlockEnd(b)
<1>1. total \in Nat /\ f \in AFile /\ HeldPages(f) /\ f.length \in {-1, total} /\ f.at \in Nat
  BY ReaderAssumption, FileIs DEF Held, HeldPages
<1>2. BlockEnd(b) \in Nat /\ b.start < BlockEnd(b)
  BY DEF BlockEnd
<1>3. \A k : HasKey(f, k) => HasKey(f, k)
  OBVIOUS
<1>4. Keeps(f, f)
  BY DEF Keeps
<1>5. CASE f.length >= 0 /\ b.start >= f.length
  <2> DEFINE g == [f EXCEPT !.avail = f.length]
  <2>1. r = [hr |-> "ok", file |-> g]
    BY <1>5 DEF AsyncReadInit
  <2>2. g \in AFile /\ Ranges(f, g) /\ g.pos = -1 /\ g.len = -1 /\ g.at = f.at
    BY <1>1 DEF AFile, Ranges
  <2> HIDE DEF g
  <2>3. Held(g, pin, idx) /\ NoneRead(g) /\ Keeps(f, g) /\ \A k : HasKey(g, k) <=> HasKey(f, k)
    BY <2>2, Ranged
  <2>4. SerialFrom(g, idx, g.at)
    BY <2>2, <2>3 DEF SerialFrom
  <2>5. KeysOf(0, 0) = {}
    BY DEF KeysOf
  <2>6. Outcome(f, r, pin, idx, 0, 0)
    BY <2>1, <2>2, <2>3, <2>4, <2>5 DEF Outcome
  <2>7. ~(BlockEnd(b) <= total)
    BY <1>1, <1>2, <1>5
  <2> QED
    BY <2>6, <2>7
<1>6. CASE ~(f.length >= 0 /\ b.start >= f.length)
  <2> DEFINE end == IF f.length >= 0 THEN Least({BlockEnd(b), f.length}) ELSE BlockEnd(b)
             pos == Least({b.start, f.at})
             g   == [f EXCEPT !.pos = pos, !.len = end - pos]
  <2>1. r \in AsyncReadContinue(g) \cup (IF IoMayFail THEN {[hr |-> "fail", file |-> f]} ELSE {})
    BY <1>6 DEF AsyncReadInit
  <2>2. pos \in Nat /\ pos <= b.start /\ pos <= f.at
    BY <1>1, LessOfTwo
  <2>3. end \in Nat /\ b.start < end /\ (f.length >= 0 => end <= total) /\ (BlockEnd(b) <= total => end = BlockEnd(b))
    <3>1. CASE f.length >= 0
      <4>1. f.length = total
        BY <1>1, <3>1
      <4>2. end = IF BlockEnd(b) <= total THEN BlockEnd(b) ELSE total
        BY <1>1, <1>2, <3>1, <4>1, LessOfTwo
      <4> QED
        BY <1>1, <1>2, <1>6, <4>1, <4>2
    <3>2. CASE ~(f.length >= 0)
      BY <1>2, <3>2
    <3> QED
      BY <3>1, <3>2
  <2> HIDE DEF pos, end
  <2>4. /\ g \in AFile /\ Ranges(f, g) /\ g.pos = pos /\ g.len = end - pos /\ g.at = f.at
        /\ g.length = f.length
    <3>1. end - pos \in Int /\ pos \in Int
      BY <2>2, <2>3
    <3> QED
      BY <1>1, <3>1 DEF AFile, Ranges
  <2> HIDE DEF g
  <2>5. Held(g, pin, idx) /\ NoneRead(g) /\ \A k : HasKey(g, k) <=> HasKey(f, k)
    BY <2>4, Ranged
  <2>6. SerialFrom(g, idx, g.at)
    BY <2>4, <2>5 DEF SerialFrom
  <2>7. RangeIs(g) /\ g.pos + g.len = end
    <3>1. g.len \in Nat \ {0} /\ g.pos + g.len = end
      BY <2>2, <2>3, <2>4
    <3>2. KeyOf(pos) <= pos /\ KeyOf(pos) \in Nat
      BY <2>2, KeyIs
    <3>3. KeyOf(pos) <= total
      BY <1>1, <2>2, <3>2
    <3> QED
      BY <2>2, <2>3, <2>4, <3>1, <3>3 DEF RangeIs
  <2>8. CASE r \in AsyncReadContinue(g)
    <3>1. Outcome(g, r, pin, idx, pos, end)
      BY <2>2, <2>4, <2>5, <2>6, <2>7, <2>8, ContinueIs
    <3>2. Outcome(f, r, pin, idx, pos, end)
      <4>1. Keeps(f, r.file)
        BY <2>4, <3>1 DEF Outcome, Keeps, Ranges
      <4> QED
        BY <2>5, <3>1, <4>1 DEF Outcome
    <3> QED
      BY <2>2, <2>3, <3>2
  <2>9. CASE r = [hr |-> "fail", file |-> f]
    <3>1. Outcome(f, r, pin, idx, pos, end)
      BY <1>4, <2>9 DEF Outcome
    <3> QED
      BY <2>2, <2>3, <3>1
  <2> QED
    BY <2>1, <2>8, <2>9
<1> QED
  BY <1>5, <1>6

(* A request that is complete has all of a block it asked for.             *)
LEMMA KeysLater ==
  ASSUME NEW p \in Nat, NEW q \in Nat, NEW e \in Nat, p <= q, q < e
  PROVE  KeysOf(q, e) \subseteq KeysOf(p, e)
BY DEF KeysOf

(* A block is there when all of its pages have been read.                  *)
LEMMA AllRead ==
  ASSUME total \in Nat, NEW f \in AFile, HeldPages(f), NoneRead(f),
         NEW b, b.start \in Nat, BlockEnd(b) \in Nat, b.start < BlockEnd(b), BlockEnd(b) <= total,
         \A k \in KeysOf(b.start, BlockEnd(b)) : HasKey(f, k)
  PROVE  AllThere(f, b)
<1>1. ASSUME NEW k \in KeysOf(b.start, BlockEnd(b)) PROVE HasData(f, k)
  <2>1. PICK i \in f.cache : f.slots[i].at = k
    BY DEF HasKey
  <2>2. i \in DOMAIN f.slots /\ f.slots[i].at >= 0
    BY CachedIs
  <2>3. f.slots[i].ref >= 0
    BY <2>2 DEF NoneRead
  <2>4. f.slots[i].size > 0
    BY <2>2, <2>3, PageIs
  <2> QED
    BY <2>1, <2>4 DEF HasData
<1> QED
  BY <1>1, ThereIfKeys DEF AllThere

-----------------------------------------------------------------------------
(***************************************************************************)
(* AsyncReadCompletion.                                                    *)
(***************************************************************************)
LEMMA BusyIs ==
  ASSUME total \in FileSizes, NEW f, NEW pin, NEW idx, Held(f, pin, idx), NEW i, Busy(f, i), f.pos \in Nat
  PROVE  /\ PageRead(f) = i /\ i \in DOMAIN f.slots /\ i \in Nat /\ i \notin f.free /\ i \in f.cache
         /\ f.slots[i].at = KeyOf(f.pos) /\ f.slots[i].size = 0 /\ f.slots[i].ref = -1
         /\ KeyOf(f.pos) \in Nat /\ KeyOf(f.pos) <= total /\ Aligned(KeyOf(f.pos))
         /\ \A j \in DOMAIN f.slots : j # i => f.slots[j].ref >= 0
<1>1. total \in Nat /\ f \in AFile /\ HeldPages(f)
  BY ReaderAssumption DEF Held
<1>2. i \in f.cache /\ f.slots[i] = [at |-> KeyOf(f.pos), size |-> 0, ref |-> -1]
  BY DEF Busy
<1>3. i \in DOMAIN f.slots /\ i \notin f.free
  BY <1>1, <1>2, CachedIs
<1>4. f.slots[i].at = KeyOf(f.pos) /\ f.slots[i].size = 0 /\ f.slots[i].ref = -1
  BY <1>2
<1>5. KeyOf(f.pos) \in Nat /\ KeyOf(f.pos) <= f.pos /\ f.pos < KeyOf(f.pos) + PageBytes /\ Aligned(KeyOf(f.pos))
  BY KeyIs
<1>6. KeyOf(f.pos) <= total /\ i \in Nat
  <2>1. f.slots[i].at >= 0
    BY <1>4, <1>5
  <2> QED
    BY <1>1, <1>3, <1>4, <2>1, PageIs
<1>7. ASSUME NEW j \in f.cache, f.slots[j].at <= f.pos PROVE f.slots[j].at <= f.slots[i].at
  <2>1. Aligned(f.slots[j].at) /\ f.slots[j].at \in Int
    BY <1>1, CachedIs, PageIs
  <2>2. ASSUME KeyOf(f.pos) < f.slots[j].at PROVE FALSE
    <3>1. KeyOf(f.pos) + PageBytes <= f.slots[j].at
      BY <1>5, <2>1, <2>2, KeyGap
    <3> QED
      BY <1>5, <1>7, <2>1, <3>1, Sizes
  <2> QED
    BY <1>4, <1>5, <2>1, <2>2
<1>8. ASSUME NEW k \in f.cache, f.slots[k].at <= f.pos,
             \A j \in f.cache : f.slots[j].at <= f.pos => f.slots[j].at <= f.slots[k].at
      PROVE  k = i
  <2>1. k \in DOMAIN f.slots /\ f.slots[k].at >= 0 /\ f.slots[k].at \in Int
    BY <1>1, CachedIs, PageIs
  <2>2. f.slots[i].at <= f.slots[k].at
    BY <1>2, <1>4, <1>5, <1>8
  <2>3. f.slots[k].at = f.slots[i].at
    BY <1>4, <1>5, <1>7, <1>8, <2>1, <2>2
  <2> QED
    BY <1>1, <1>3, <2>1, <2>3, PageOnce
<1>9. PageRead(f) = i
  BY <1>2, <1>4, <1>5, <1>7, <1>8 DEF PageRead
<1> QED
  BY <1>2, <1>3, <1>4, <1>5, <1>6, <1>9 DEF Busy

(* One page is changed for another, or loses its position.                 *)
LEMMA DropIs ==
  ASSUME total \in FileSizes, NEW f, NEW pin, NEW idx, Held(f, pin, idx), NEW i, Busy(f, i), f.pos \in Nat,
         NEW length, length = f.length \/ length = total
  PROVE  LET h == DropPage([f EXCEPT !.length = length], i) IN
         /\ Held(h, pin, idx) /\ NoneRead(h) /\ Keeps(f, h)
         /\ \A k : HasKey(f, k) /\ k # KeyOf(f.pos) => HasKey(h, k)
         /\ h.pos = -1 /\ h.len = -1 /\ h.at = f.at
<1> DEFINE h == DropPage([f EXCEPT !.length = length], i)
<1>1. total \in Nat /\ f \in AFile /\ HeldPages(f) /\ f.length \in {-1, total}
  BY ReaderAssumption DEF Held, HeldPages
<1>2. /\ i \in DOMAIN f.slots /\ i \in Nat /\ i \notin f.free /\ i \in f.cache
      /\ f.slots[i].at = KeyOf(f.pos) /\ f.slots[i].size = 0 /\ f.slots[i].ref = -1
      /\ \A j \in DOMAIN f.slots : j # i => f.slots[j].ref >= 0
  BY BusyIs
<1>3. h = [f EXCEPT !.length = length, !.slots = [f.slots EXCEPT ![i] = Blank], !.free = f.free \cup {i},
                    !.cache = f.cache \ {i}, !.pos = -1, !.len = -1]
  BY <1>1 DEF DropPage, Lists, NoRange, AFile
<1> HIDE DEF h
<1>4. Blank \in APage /\ Blank.at = -1 /\ Blank.ref = 0
  BY DEF Blank, APage
<1>5. /\ h \in AFile /\ h.slots = [f.slots EXCEPT ![i] = Blank] /\ h.free = f.free \cup {i}
      /\ h.cache = f.cache \ {i} /\ h.length = length /\ h.pos = -1 /\ h.len = -1 /\ h.at = f.at
  <2>1. PICK n \in Nat : f.slots \in [1 .. n -> APage]
    BY <1>1, FileIs, SlotsAre
  <2>2. [f.slots EXCEPT ![i] = Blank] \in Slots
    BY <1>4, <2>1 DEF Slots
  <2>3. length \in Int /\ -1 \in Int
    BY <1>1
  <2> QED
    BY <1>1, <1>2, <1>3, <2>2, <2>3 DEF AFile
<1>6. /\ DOMAIN h.slots = DOMAIN f.slots /\ h.slots[i] = Blank
      /\ \A j \in DOMAIN f.slots : j # i => h.slots[j] = f.slots[j]
  BY <1>2, <1>5
<1>7. \A j \in h.cache : j # i /\ j \in f.cache /\ j \in DOMAIN f.slots
  BY <1>1, <1>5, CachedIs
<1>8. HeldPages(h)
  <2>1. HeldApart(h)
    <3>1. h.free \cup h.cache = DOMAIN h.slots /\ h.free \cap h.cache = {}
      BY <1>1, <1>2, <1>5, <1>6 DEF HeldPages, HeldApart
    <3>2. \A j \in h.cache : h.slots[j].at >= 0
      BY <1>1, <1>6, <1>7, CachedIs
    <3> QED
      BY <3>1, <3>2 DEF HeldApart
  <2>2. OnePageEach(h)
    <3> SUFFICES ASSUME NEW a \in DOMAIN h.slots, NEW b \in DOMAIN h.slots, h.slots[a].at >= 0,
                        h.slots[a].at = h.slots[b].at
                 PROVE  a = b
      BY DEF OnePageEach
    <3>1. a # i /\ b # i
      BY <1>4, <1>6
    <3>2. h.slots[a] = f.slots[a] /\ h.slots[b] = f.slots[b] /\ a \in DOMAIN f.slots /\ b \in DOMAIN f.slots
      BY <1>6, <3>1
    <3> QED
      BY <1>1, <3>2, PageOnce
  <2>3. FewPages(h)
    BY <1>1, <1>6 DEF HeldPages, FewPages
  <2>4. ASSUME NEW j \in DOMAIN h.slots PROVE RightPage(h.length, h.slots[j])
    <3>1. CASE j = i
      BY <1>4, <1>6, <3>1 DEF RightPage
    <3>2. CASE j # i
      <4>1. h.slots[j] = f.slots[j] /\ RightPage(f.length, f.slots[j])
        BY <1>1, <1>6, <3>2 DEF HeldPages
      <4>2. f.length >= 0 => length >= 0
        BY <1>1
      <4> QED
        BY <1>5, <4>1, <4>2 DEF RightPage
    <3> QED
      BY <3>1, <3>2
  <2> QED
    BY <1>1, <1>5, <2>1, <2>2, <2>3, <2>4 DEF HeldPages
<1>9. Held(h, pin, idx)
  <2>1. \A j \in f.cache : f.slots[j].ref > 0 =>
           j \in h.cache /\ h.slots[j].at = f.slots[j].at /\ h.slots[j].size = f.slots[j].size
    BY <1>1, <1>2, <1>5, <1>6, CachedIs
  <2>2. \A j \in DOMAIN h.slots : h.slots[j].ref >= 0 =>
           \/ j \in DOMAIN f.slots /\ h.slots[j].ref = f.slots[j].ref
           \/ h.slots[j].ref = 0 /\ (j \in f.cache => f.slots[j].ref <= 0)
    BY <1>2, <1>4, <1>6
  <2>3. h \in AFile
    BY <1>5
  <2> QED
    BY <1>8, <2>1, <2>2, <2>3, LocksStay
<1>10. NoneRead(h)
  BY <1>2, <1>4, <1>6 DEF NoneRead
<1>11. Keeps(f, h)
  BY <1>1, <1>2, <1>5, <1>6, CachedIs DEF Keeps
<1>12. \A k : HasKey(f, k) /\ k # KeyOf(f.pos) => HasKey(h, k)
  BY <1>1, <1>2, <1>5, <1>6, CachedIs DEF HasKey
<1> QED
  BY <1>5, <1>9, <1>10, <1>11, <1>12 DEF h

(* The page has got n bytes.                                               *)
LEMMA FilledIs ==
  ASSUME total \in FileSizes, NEW f, NEW pin, NEW idx, Held(f, pin, idx), NEW i, Busy(f, i), f.pos \in Nat,
         NEW n \in Nat, n > 0, n = Least({PageBytes, total - KeyOf(f.pos)}),
         NEW g \in AFile, g.slots = [f.slots EXCEPT ![i] = [at |-> KeyOf(f.pos), size |-> n, ref |-> 0]],
         g.free = f.free, g.cache = f.cache,
         g.length = f.length \/ g.length = total, g.length >= 0 \/ n = PageBytes
  PROVE  /\ Held(g, pin, idx) /\ NoneRead(g) /\ Keeps(f, g)
         /\ \A k : HasKey(f, k) => HasKey(g, k)
         /\ HasKey(g, KeyOf(f.pos))
<1> DEFINE length == g.length
           page == [at |-> KeyOf(f.pos), size |-> n, ref |-> 0]
<1>1. total \in Nat /\ f \in AFile /\ HeldPages(f) /\ f.length \in {-1, total}
  BY ReaderAssumption DEF Held, HeldPages
<1>2. /\ i \in DOMAIN f.slots /\ i \in Nat /\ i \notin f.free /\ i \in f.cache
      /\ f.slots[i].at = KeyOf(f.pos) /\ f.slots[i].size = 0 /\ f.slots[i].ref = -1
      /\ KeyOf(f.pos) \in Nat /\ KeyOf(f.pos) <= total /\ Aligned(KeyOf(f.pos))
      /\ \A j \in DOMAIN f.slots : j # i => f.slots[j].ref >= 0
  BY BusyIs
<1>3. page.at = KeyOf(f.pos) /\ page.size = n /\ page.ref = 0
  OBVIOUS
<1>4. g.slots = [f.slots EXCEPT ![i] = page]
  OBVIOUS
<1> HIDE DEF page
<1>5. /\ DOMAIN g.slots = DOMAIN f.slots /\ g.slots[i] = page
      /\ \A j \in DOMAIN f.slots : j # i => g.slots[j] = f.slots[j]
  BY <1>2, <1>4
<1>6. \A j \in DOMAIN f.slots : g.slots[j].at = f.slots[j].at
  BY <1>2, <1>3, <1>5
<1>7. \A j \in f.cache : j \in DOMAIN f.slots
  BY <1>1, CachedIs
<1>8. HeldPages(g)
  <2>1. HeldApart(g)
    BY <1>1, <1>5, <1>6, <1>7 DEF HeldPages, HeldApart
  <2>2. OnePageEach(g)
    BY <1>1, <1>5, <1>6 DEF HeldPages, OnePageEach
  <2>3. FewPages(g)
    BY <1>1, <1>5 DEF HeldPages, FewPages
  <2>4. ASSUME NEW j \in DOMAIN g.slots PROVE RightPage(g.length, g.slots[j])
    <3>1. CASE j = i
      <4>1. /\ page.at >= 0 /\ page.at <= total /\ Aligned(page.at) /\ ~(page.at < 0) /\ ~(page.ref < 0)
            /\ page.size = Least({PageBytes, total - page.at}) /\ page.size > 0
            /\ length >= 0 \/ page.size = PageBytes
        BY <1>2, <1>3
      <4>2. g.slots[j] = page
        BY <1>5, <3>1
      <4> QED
        BY <4>1, <4>2 DEF RightPage
    <3>2. CASE j # i
      <4>1. g.slots[j] = f.slots[j] /\ RightPage(f.length, f.slots[j])
        BY <1>1, <1>5, <3>2 DEF HeldPages
      <4>2. f.length >= 0 => length >= 0
        BY <1>1
      <4> QED
        BY <4>1, <4>2 DEF RightPage
    <3> QED
      BY <3>1, <3>2
  <2> QED
    BY <1>1, <2>1, <2>2, <2>3, <2>4 DEF HeldPages
<1>9. Held(g, pin, idx)
  <2>1. \A j \in f.cache : f.slots[j].ref > 0 =>
           j \in g.cache /\ g.slots[j].at = f.slots[j].at /\ g.slots[j].size = f.slots[j].size
    BY <1>2, <1>5, <1>7
  <2>2. \A j \in DOMAIN g.slots : g.slots[j].ref >= 0 =>
           \/ j \in DOMAIN f.slots /\ g.slots[j].ref = f.slots[j].ref
           \/ g.slots[j].ref = 0 /\ (j \in f.cache => f.slots[j].ref <= 0)
    BY <1>2, <1>3, <1>5
  <2> QED
    BY <1>8, <2>1, <2>2, LocksStay
<1>10. NoneRead(g)
  BY <1>2, <1>3, <1>5 DEF NoneRead
<1>11. Keeps(f, g)
  BY <1>2, <1>5, <1>7 DEF Keeps
<1>12. \A k : HasKey(f, k) => HasKey(g, k)
  BY <1>6, <1>7 DEF HasKey
<1>13. HasKey(g, KeyOf(f.pos))
  BY <1>2, <1>3, <1>5 DEF HasKey
<1> QED
  BY <1>9, <1>10, <1>11, <1>12, <1>13

(* The page that was read is filled, or given back.                        *)
LEMMA CompletionIs ==
  ASSUME total \in FileSizes, NEW f, NEW pin, NEW idx, Held(f, pin, idx), Busy(f, PageRead(f)), RangeIs(f),
         NEW r \in AsyncReadCompletion(f)
  PROVE  LET g   == r.file
             key == KeyOf(f.pos)
         IN /\ Held(g, pin, idx) /\ NoneRead(g) /\ Keeps(f, g)
            /\ \A k : HasKey(f, k) /\ k # key => HasKey(g, k)
            /\ \/ /\ r.hr \in {"ok", "fail"} /\ g.pos = -1 /\ g.len = -1 /\ g.at = f.at
                  /\ r.hr = "ok" => total <= key
               \/ /\ HasKey(g, key)
                  /\ \E n \in Nat :
                       /\ n > 0 /\ n <= PageBytes /\ (n = PageBytes \/ key + n = total)
                       /\ g.at = IF io = "aborted" THEN f.at ELSE key + n
                       /\ \/ /\ r.hr = "more" /\ RangeIs(g) /\ g.pos = key + n /\ n = PageBytes
                             /\ f.pos + f.len <= total => g.pos + g.len = f.pos + f.len
                          \/ /\ r.hr = "ok" /\ g.pos = -1 /\ g.len = -1
                             /\ f.pos + f.len <= total => f.pos + f.len <= key + n
<1> DEFINE i      == PageRead(f)
           key    == f.slots[i].at
           n      == Greatest({0, Least({PageBytes, total - key})})
           length == IF n < PageBytes /\ f.length < 0 THEN key + n ELSE f.length
           end    == IF length >= 0 THEN Least({f.pos + f.len, length}) ELSE f.pos + f.len
           pos    == Least({end, key + n})
           a      == AvailAtLeast(f, {key + n})
           at     == IF io = "aborted" THEN a.at ELSE key + n
           page   == [at |-> key, size |-> n, ref |-> 0]
           g      == [a EXCEPT !.slots[i] = page, !.length = length, !.pos = pos, !.len = end - pos, !.at = at]
<1>1. total \in Nat /\ f \in AFile /\ HeldPages(f) /\ f.length \in {-1, total} /\ f.at \in Nat
  BY ReaderAssumption, FileIs DEF Held, HeldPages
<1>2. f.pos \in Nat /\ f.len \in Nat \ {0} /\ (f.length >= 0 => f.pos + f.len <= total)
  BY DEF RangeIs
<1>3. /\ i \in DOMAIN f.slots /\ i \in Nat /\ key = KeyOf(f.pos) /\ key \in Nat /\ key <= total
      /\ Aligned(key) /\ Busy(f, i)
  BY <1>2, BusyIs
<1>4. key <= f.pos /\ f.pos < key + PageBytes /\ PageBytes \in Nat /\ PageBytes > 0
  BY <1>2, <1>3, KeyIs, Sizes
<1>5. a.at = f.at
  BY <1>1 DEF AvailAtLeast, AFile
<1>6. r \in {IF n = 0 THEN [hr |-> "ok", file |-> DropPage([f EXCEPT !.length = length], i)]
             ELSE IF pos < end THEN [hr |-> "more", file |-> g]
             ELSE [hr |-> "ok", file |-> NoRange(g)]}
            \cup (IF IoMayFail \/ io = "aborted"
                  THEN {[hr |-> "fail", file |-> DropPage(f, i)]} ELSE {})
  BY DEF AsyncReadCompletion
<1> HIDE DEF i
<1>7. /\ n \in Nat /\ n <= PageBytes /\ (n = PageBytes \/ key + n = total)
      /\ n = Least({PageBytes, total - key}) /\ key + n <= total
  <2>1. total - key \in Int /\ total - key >= 0
    BY <1>1, <1>3
  <2> DEFINE d == total - key
             l == Least({PageBytes, d})
  <2>2. l = IF PageBytes <= d THEN PageBytes ELSE d
    BY <1>4, <2>1, LessOfTwo
  <2>3. l \in Int /\ l >= 0
    BY <1>4, <2>1, <2>2
  <2>4. n = l
    <3>1. \A y \in Int : y >= 0 => Greatest({0, y}) = y
      BY MoreOfTwo
    <3> QED
      BY <2>3, <3>1
  <2> HIDE DEF n, l
  <2> QED
    BY <1>1, <1>3, <1>4, <2>1, <2>2, <2>3, <2>4 DEF l
<1> HIDE DEF n, key
<1>8. /\ length = f.length \/ length = total
      /\ length >= 0 \/ n = PageBytes
      /\ length \in Int
  <2>1. CASE n < PageBytes /\ f.length < 0
    <3>1. length = total
      BY <1>3, <1>7, <2>1
    <3> HIDE DEF length
    <3> QED
      BY <1>1, <3>1
  <2>2. CASE ~(n < PageBytes /\ f.length < 0)
    <3>1. length = f.length
      BY <2>2
    <3>2. f.length >= 0 \/ n = PageBytes
      BY <1>1, <1>4, <1>7, <2>2
    <3> HIDE DEF length
    <3> QED
      BY <1>1, <3>1, <3>2
  <2> QED
    BY <2>1, <2>2
<1>9. CASE r = [hr |-> "fail", file |-> DropPage(f, i)]
  <2>1. [f EXCEPT !.length = f.length] = f
    BY <1>1 DEF AFile
  <2>2. LET h == DropPage([f EXCEPT !.length = f.length], i) IN
         /\ Held(h, pin, idx) /\ NoneRead(h) /\ Keeps(f, h)
         /\ \A k : HasKey(f, k) /\ k # KeyOf(f.pos) => HasKey(h, k)
         /\ h.pos = -1 /\ h.len = -1 /\ h.at = f.at
    BY <1>2, <1>3, DropIs
  <2> QED
    BY <1>9, <2>1, <2>2
<1> HIDE DEF length
<1>10. CASE n = 0 /\ r = [hr |-> "ok", file |-> DropPage([f EXCEPT !.length = length], i)]
  <2>1. LET h == DropPage([f EXCEPT !.length = length], i) IN
         /\ Held(h, pin, idx) /\ NoneRead(h) /\ Keeps(f, h)
         /\ \A k : HasKey(f, k) /\ k # KeyOf(f.pos) => HasKey(h, k)
         /\ h.pos = -1 /\ h.len = -1 /\ h.at = f.at
    BY <1>2, <1>3, <1>8, DropIs
  <2>2. total <= key
    BY <1>1, <1>3, <1>4, <1>7, <1>10
  <2> QED
    BY <1>3, <1>10, <2>1, <2>2
<1>11. ASSUME n # 0
       PROVE  /\ g \in AFile /\ g.pos = pos /\ g.len = end - pos /\ g.at = at /\ g.length = length
              /\ Held(g, pin, idx) /\ NoneRead(g) /\ Keeps(f, g)
              /\ \A k : HasKey(f, k) => HasKey(g, k)
              /\ HasKey(g, key)
              /\ end \in Nat /\ pos = (IF end <= key + n THEN end ELSE key + n) /\ pos \in Nat
              /\ length >= 0 => end <= total
              /\ f.pos + f.len <= total => end = f.pos + f.len
              /\ length < 0 => n = PageBytes /\ end = f.pos + f.len
  <2>1. end \in Nat /\ (length >= 0 => end <= total) /\ (f.pos + f.len <= total => end = f.pos + f.len)
    <3>1. CASE length >= 0
      <4>1. length = total
        BY <1>1, <1>8, <3>1
      <4>2. end = IF f.pos + f.len <= total THEN f.pos + f.len ELSE total
        BY <1>1, <1>2, <3>1, <4>1, LessOfTwo
      <4> QED
        BY <1>1, <1>2, <4>2
    <3>2. CASE ~(length >= 0)
      BY <1>2, <3>2
    <3> QED
      BY <3>1, <3>2
  <2>2. length < 0 => n = PageBytes /\ end = f.pos + f.len
    BY <1>8
  <2> HIDE DEF end
  <2>3. pos = (IF end <= key + n THEN end ELSE key + n) /\ pos \in Nat
    <3>1. pos = IF end <= key + n THEN end ELSE key + n
      <4>1. key + n \in Int /\ end \in Int
        BY <1>3, <1>7, <2>1
      <4> QED
        BY <4>1, LessOfTwo
    <3> QED
      BY <1>3, <1>7, <2>1, <3>1
  <2> HIDE DEF pos
  <2>4. at \in Nat
    BY <1>1, <1>3, <1>5, <1>7
  <2> HIDE DEF at
  <2>5. PICK v \in Int : a = [f EXCEPT !.avail = v]
    <3>1. key + n \in Nat
      BY <1>3, <1>7
    <3> QED
      BY <1>1, <3>1, AvailIs
  <2>6. page \in APage
    BY <1>3, <1>7 DEF APage
  <2>7. [f.slots EXCEPT ![i] = page] \in Slots
    <3>1. PICK m \in Nat : f.slots \in [1 .. m -> APage]
      BY <1>1, FileIs, SlotsAre
    <3> HIDE DEF page
    <3> QED
      BY <2>6, <3>1 DEF Slots
  <2>8. /\ g \in AFile /\ g.pos = pos /\ g.len = end - pos /\ g.at = at /\ g.length = length
        /\ g.slots = [f.slots EXCEPT ![i] = page] /\ g.free = f.free /\ g.cache = f.cache
    <3>1. end - pos \in Int /\ pos \in Int
      BY <2>1, <2>3
    <3> HIDE DEF page, a
    <3> QED
      BY <1>1, <1>8, <2>4, <2>5, <2>7, <3>1 DEF AFile
  <2> HIDE DEF g
  <2>9. g.slots = [f.slots EXCEPT ![i] = [at |-> KeyOf(f.pos), size |-> n, ref |-> 0]]
    BY <1>3, <2>8
  <2>10. n > 0 /\ n = Least({PageBytes, total - KeyOf(f.pos)})
    BY <1>3, <1>7, <1>11
  <2>11. /\ Held(g, pin, idx) /\ NoneRead(g) /\ Keeps(f, g)
         /\ \A k : HasKey(f, k) => HasKey(g, k)
         /\ HasKey(g, KeyOf(f.pos))
    <3>1. /\ f.pos \in Nat /\ Busy(f, i) /\ n \in Nat /\ n > 0
          /\ n = Least({PageBytes, total - KeyOf(f.pos)})
          /\ g.length = f.length \/ g.length = total
          /\ g.length >= 0 \/ n = PageBytes
          /\ g \in AFile /\ g.free = f.free /\ g.cache = f.cache
      BY <1>2, <1>3, <1>7, <1>8, <2>8, <2>10
    <3> QED
      BY <2>9, <3>1, FilledIs
  <2> QED
    BY <1>3, <2>1, <2>2, <2>3, <2>8, <2>11
<1> HIDE DEF g, pos, end
<1>12. CASE n # 0 /\ pos < end /\ r = [hr |-> "more", file |-> g]
  <2>1. pos = key + n /\ key + n < end
    BY <1>3, <1>7, <1>11, <1>12
  <2>2. n = PageBytes
    <3>1. CASE length >= 0
      BY <1>1, <1>3, <1>7, <1>11, <1>12, <2>1, <3>1
    <3>2. CASE ~(length >= 0)
      BY <1>8, <3>2
    <3> QED
      BY <3>1, <3>2
  <2>3. KeyOf(pos) <= total
    <3>1. KeyOf(pos) <= pos /\ KeyOf(pos) \in Nat
      BY <1>11, <1>12, KeyIs
    <3> QED
      BY <1>1, <1>3, <1>7, <2>1, <3>1
  <2>4. g.len \in Nat \ {0} /\ g.pos + g.len = end
    BY <1>11, <1>12
  <2>5. RangeIs(g)
    BY <1>11, <1>12, <2>3, <2>4 DEF RangeIs
  <2>6. f.pos + f.len <= total => g.pos + g.len = f.pos + f.len
    BY <1>11, <1>12, <2>4
  <2>7. n \in Nat /\ n > 0 /\ n <= PageBytes /\ (n = PageBytes \/ key + n = total)
    BY <1>7, <1>12
  <2>8. g.pos = key + n
    BY <1>11, <1>12, <2>1
  <2>9. /\ g.at = (IF io = "aborted" THEN f.at ELSE key + n) /\ HasKey(g, key)
        /\ Held(g, pin, idx) /\ NoneRead(g) /\ Keeps(f, g)
        /\ \A k : HasKey(f, k) => HasKey(g, k)
    BY <1>5, <1>11, <1>12
  <2>10. r.hr = "more" /\ r.file = g
    BY <1>12
  <2> QED
    BY <1>3, <2>2, <2>5, <2>6, <2>7, <2>8, <2>9, <2>10
<1>13. CASE n # 0 /\ ~(pos < end) /\ r = [hr |-> "ok", file |-> NoRange(g)]
  <2> DEFINE h == NoRange(g)
  <2>1. h \in AFile /\ Ranges(g, h) /\ h.pos = -1 /\ h.len = -1 /\ h.at = at
    <3>1. g \in AFile /\ g.at = at /\ h = [g EXCEPT !.pos = -1, !.len = -1]
      BY <1>11, <1>13 DEF NoRange
    <3>2. -1 \in Int
      OBVIOUS
    <3> HIDE DEF h, at
    <3>3. h \in AFile
      BY <3>1, <3>2 DEF AFile
    <3>4. /\ h.slots = g.slots /\ h.free = g.free /\ h.cache = g.cache /\ h.length = g.length
          /\ h.pos = -1 /\ h.len = -1 /\ h.at = at
      BY <3>1 DEF AFile
    <3> QED
      BY <3>3, <3>4 DEF Ranges
  <2> HIDE DEF h
  <2>2. /\ Held(h, pin, idx) /\ NoneRead(h) /\ HasKey(h, key)
        /\ \A k : HasKey(f, k) => HasKey(h, k)
    BY <1>11, <1>13, <2>1, Ranged
  <2>3. Keeps(f, h)
    BY <1>11, <1>13, <2>1 DEF Keeps, Ranges
  <2>4. f.pos + f.len <= total => f.pos + f.len <= key + n
    BY <1>3, <1>7, <1>11, <1>13
  <2>5. n \in Nat /\ n > 0 /\ n <= PageBytes /\ (n = PageBytes \/ key + n = total)
    BY <1>7, <1>13
  <2>6. r.hr = "ok" /\ r.file = h
    BY <1>13 DEF h
  <2> QED
    BY <1>3, <1>5, <2>1, <2>2, <2>3, <2>4, <2>5, <2>6
<1> QED
  BY <1>6, <1>9, <1>10, <1>12, <1>13
-----------------------------------------------------------------------------
(***************************************************************************)
(* The steps.                                                              *)
(***************************************************************************)
LEMMA Primes ==
  ASSUME total' = total
  PROVE  /\ Held(file, pinned, index)' <=> Held(file', pinned', index')
         /\ NoneRead(file)' <=> NoneRead(file')
         /\ RangeIs(file)' <=> RangeIs(file')
         /\ \A i : Busy(file, i)' <=> Busy(file', i)
         /\ \A b : AllThere(file, b)' <=> AllThere(file', b)
         /\ SerialFrom(file, index, file.at)' <=> SerialFrom(file', index', file'.at)
         /\ \A k : HasKey(file, k)' <=> HasKey(file', k)
<1>1. Held(file, pinned, index)' <=> Held(file', pinned', index')
  BY DEF Held, HeldPages, HeldApart, OnePageEach, FewPages, RightPage, RefsAre, PinsThere, LockersOf, PagesOf,
         AllThere, ByteThere, DataEnd
<1>2. NoneRead(file)' <=> NoneRead(file')
  BY DEF NoneRead
<1>3. RangeIs(file)' <=> RangeIs(file')
  BY DEF RangeIs
<1>4. \A i : Busy(file, i)' <=> Busy(file', i)
  BY DEF Busy
<1>5. \A b : AllThere(file, b)' <=> AllThere(file', b)
  BY DEF AllThere
<1>6. SerialFrom(file, index, file.at)' <=> SerialFrom(file', index', file'.at)
  BY DEF SerialFrom
<1>7. \A k : HasKey(file, k)' <=> HasKey(file', k)
  BY DEF HasKey
<1> QED
  BY <1>1, <1>2, <1>3, <1>4, <1>5, <1>6, <1>7

LEMMA InterruptKeeps == ASSUME AsyncInv, Interrupt PROVE AsyncInv'
<1>1. UNCHANGED <<total, file, index, pinned, extent, front, goal, io, base, missed, down>>
  BY DEF Interrupt, places
<1>2. worker = "read" /\ goal = "ahead" /\ worker' = "cancel"
  BY DEF Interrupt
<1>3. Held(file, pinned, index)'
  BY <1>1, Primes DEF AsyncInv
<1>4. AsyncTypes'
  BY <1>1, <1>2 DEF AsyncInv, AsyncTypes
<1>5. AsyncControl'
  BY <1>1, <1>2 DEF AsyncInv, AsyncControl, InRead
<1>6. AsyncRange'
  BY <1>1, <1>2, Primes DEF AsyncInv, AsyncRange, InRead
<1>7. AsyncSerial'
  BY <1>1, <1>2, Primes DEF AsyncInv, AsyncSerial, PositionsOf
<1>8. AsyncExtents'
  BY <1>1, <1>2, Primes DEF AsyncInv, AsyncExtents, SampleOf
<1>9. AsyncTarget'
  BY <1>2 DEF AsyncTarget
<1> QED
  BY <1>1, <1>3, <1>4, <1>5, <1>6, <1>7, <1>8, <1>9 DEF AsyncInv

LEMMA NoRangeIs ==
  ASSUME NEW f \in AFile
  PROVE  LET g == NoRange(f) IN
         /\ g \in AFile /\ Ranges(f, g) /\ g.pos = -1 /\ g.len = -1 /\ g.at = f.at
<1> DEFINE g == NoRange(f)
<1>1. g = [f EXCEPT !.pos = -1, !.len = -1] /\ -1 \in Int
  BY DEF NoRange
<1> HIDE DEF g
<1>2. g \in AFile
  BY <1>1 DEF AFile
<1>3. /\ g.slots = f.slots /\ g.free = f.free /\ g.cache = f.cache /\ g.length = f.length
      /\ g.pos = -1 /\ g.len = -1 /\ g.at = f.at
  BY <1>1 DEF AFile
<1> QED
  BY <1>2, <1>3 DEF Ranges, g

LEMMA StutterKeeps == ASSUME AsyncInv, UNCHANGED readerVars PROVE AsyncInv'
<1>1. UNCHANGED <<total, file, index, pinned, extent, front, worker, goal, io, base, missed, down>>
  BY DEF readerVars, places, thread
<1>2. Held(file, pinned, index)'
  BY <1>1, Primes DEF AsyncInv
<1>3. AsyncTypes'
  BY <1>1 DEF AsyncInv, AsyncTypes
<1>4. AsyncControl'
  BY <1>1 DEF AsyncInv, AsyncControl, InRead
<1>5. AsyncRange'
  BY <1>1, Primes DEF AsyncInv, AsyncRange, InRead
<1>6. AsyncSerial'
  BY <1>1, Primes DEF AsyncInv, AsyncSerial, PositionsOf
<1>7. AsyncExtents'
  BY <1>1, Primes DEF AsyncInv, AsyncExtents, SampleOf
<1>8. AsyncTarget'
  BY <1>1, Primes DEF AsyncInv, AsyncTarget, MoreExtents, ToLoad, Block, SampleOf
<1> QED
  BY <1>1, <1>2, <1>3, <1>4, <1>5, <1>6, <1>7, <1>8 DEF AsyncInv

LEMMA WorkerEndsKeeps == ASSUME AsyncInv, WorkerEnds PROVE AsyncInv'
<1>1. UNCHANGED <<total, file, index, pinned, extent, front, goal, io, base, missed, down>>
  BY DEF WorkerEnds, places
<1>2. worker = "request" /\ down /\ worker' = "quit"
  BY DEF WorkerEnds
<1>3. Held(file, pinned, index)'
  BY <1>1, Primes DEF AsyncInv
<1>4. AsyncTypes'
  BY <1>1, <1>2 DEF AsyncInv, AsyncTypes
<1>5. AsyncControl'
  BY <1>1, <1>2 DEF AsyncInv, AsyncControl, InRead
<1>6. AsyncRange'
  BY <1>1, <1>2, Primes DEF AsyncInv, AsyncRange, InRead
<1>7. AsyncSerial'
  BY <1>1, <1>2, Primes DEF AsyncInv, AsyncSerial, PositionsOf
<1>8. AsyncExtents'
  BY <1>1, <1>2, Primes DEF AsyncInv, AsyncExtents, SampleOf
<1>9. AsyncTarget'
  BY <1>2 DEF AsyncTarget
<1> QED
  BY <1>1, <1>3, <1>4, <1>5, <1>6, <1>7, <1>8, <1>9 DEF AsyncInv

LEMMA OnRequestSampleKeeps == ASSUME AsyncInv, NEW t \in Tracks, OnRequestSample(t) PROVE AsyncInv'
<1>1. UNCHANGED <<total, file, index, pinned, extent, goal, io, base, missed, down>>
  BY DEF OnRequestSample
<1>2. /\ worker = "request" /\ ~down /\ front \in {NoTrack, t} /\ index[t] \in DOMAIN TrackBlocks[t]
      /\ front' = t /\ worker' = "load"
  BY DEF OnRequestSample
<1>3. Held(file, pinned, index)'
  BY <1>1, Primes DEF AsyncInv
<1>4. AsyncTypes'
  BY <1>1, <1>2 DEF AsyncInv, AsyncTypes
<1>5. AsyncControl'
  BY <1>1, <1>2 DEF AsyncInv, AsyncControl, InRead
<1>6. AsyncRange'
  BY <1>1, <1>2, Primes DEF AsyncInv, AsyncRange, InRead
<1>7. AsyncSerial'
  BY <1>1, <1>2, Primes DEF AsyncInv, AsyncSerial, PositionsOf
<1>8. \A u \in Tracks : extent[u] > 0 => u = t
  BY <1>2, ReaderAssumption DEF AsyncInv, AsyncExtents
<1>9. AsyncExtents'
  BY <1>1, <1>2, <1>8, Primes DEF AsyncInv, AsyncExtents, SampleOf
<1>10. AsyncTarget'
  BY <1>2 DEF AsyncTarget
<1> QED
  BY <1>1, <1>3, <1>4, <1>5, <1>6, <1>7, <1>9, <1>10 DEF AsyncInv

LEMMA DropRequestKeeps == ASSUME AsyncInv, DropRequest PROVE AsyncInv'
<1>1. UNCHANGED <<total, file, index, pinned, extent, worker, goal, io, base, missed, down>>
  BY DEF DropRequest, thread
<1>2. /\ worker = "request" /\ front' = NoTrack
      /\ front \in Tracks => index[front] = 0 \/ index[front] > Len(TrackBlocks[front])
  BY DEF DropRequest, Deselected, AtEOS
<1>3. Held(file, pinned, index)'
  BY <1>1, Primes DEF AsyncInv
<1>4. AsyncTypes'
  BY <1>1, <1>2 DEF AsyncInv, AsyncTypes
<1>5. AsyncControl'
  BY <1>1, <1>2 DEF AsyncInv, AsyncControl, InRead
<1>6. AsyncRange'
  BY <1>1, <1>2, Primes DEF AsyncInv, AsyncRange, InRead
<1>7. AsyncSerial'
  BY <1>1, <1>2, Primes DEF AsyncInv, AsyncSerial, PositionsOf
<1>8. ASSUME NEW u \in Tracks, extent[u] > 0 PROVE FALSE
  <2>1. u = front /\ index[u] \in DOMAIN TrackBlocks[u]
    BY <1>8 DEF AsyncInv, AsyncExtents
  <2>2. index[u] > 0 /\ index[u] <= Len(TrackBlocks[u]) /\ Len(TrackBlocks[u]) \in Nat /\ index[u] \in Nat
    BY <2>1, BlockIs DEF AsyncInv, AsyncTypes
  <2> QED
    BY <1>2, <2>1, <2>2
<1>9. AsyncExtents'
  BY <1>1, <1>8 DEF AsyncExtents
<1>10. AsyncTarget'
  BY <1>1, <1>2 DEF AsyncTarget
<1> QED
  BY <1>1, <1>3, <1>4, <1>5, <1>6, <1>7, <1>9, <1>10 DEF AsyncInv

LEMMA CancelledKeeps == ASSUME AsyncInv, Cancelled PROVE AsyncInv'
<1>1. UNCHANGED <<total, index, pinned, extent, front, goal, base, missed, down>>
  BY DEF Cancelled, places
<1>2. worker = "cancel" /\ io \in {"ok", "more", "fail"} /\ worker' = "request" /\ io' = "none" /\ file' = NoRange(file)
  BY DEF Cancelled, AsyncReadCancel
<1>3. Held(file, pinned, index) /\ file \in AFile
  BY DEF AsyncInv, Held
<1>4. file' \in AFile /\ Ranges(file, file') /\ file'.pos = -1 /\ file'.len = -1 /\ file'.at = file.at
  BY <1>2, <1>3, NoRangeIs
<1>5. Held(file', pinned, index) /\ \A b : AllThere(file', b) <=> AllThere(file, b)
  BY <1>3, <1>4, Ranged
<1>6. \A k : HasKey(file', k) <=> HasKey(file, k)
  BY <1>4, Ranged
<1>7. NoneRead(file')
  BY <1>2, <1>4, Ranged DEF AsyncInv, AsyncRange, InRead
<1>8. Held(file, pinned, index)'
  BY <1>1, <1>5, Primes
<1>9. AsyncTypes'
  BY <1>1, <1>2, <1>4 DEF AsyncInv, AsyncTypes
<1>10. AsyncControl'
  BY <1>1, <1>2 DEF AsyncInv, AsyncControl, InRead
<1>11. AsyncRange'
  BY <1>1, <1>2, <1>4, <1>7, Primes DEF AsyncRange, InRead
<1>12. AsyncSerial'
  <2>1. SerialFrom(file', index, file'.at)
    BY <1>4, <1>6 DEF AsyncInv, AsyncSerial, SerialFrom
  <2> QED
    BY <1>1, <2>1, Primes DEF AsyncInv, AsyncSerial, PositionsOf
<1>13. AsyncExtents'
  BY <1>1, <1>5, Primes DEF AsyncInv, AsyncExtents, SampleOf
<1>14. AsyncTarget'
  BY <1>2 DEF AsyncTarget
<1> QED
  BY <1>1, <1>8, <1>9, <1>10, <1>11, <1>12, <1>13, <1>14 DEF AsyncInv

LEMMA UnlockedIs ==
  ASSUME AsyncInv, NEW g \in AFile, Ranges(UnlockAll(file), g), g.pos = file.pos, g.len = file.len, NEW idx
  PROVE  /\ Held(g, [t \in Tracks |-> FALSE], idx)
         /\ NoneRead(file) => NoneRead(g)
         /\ \A i \in file.cache : Busy(file, i) => i \in g.cache /\ Busy(g, i)
         /\ RangeIs(file) => RangeIs(g)
         /\ \A k : HasKey(g, k) <=> HasKey(file, k)
         /\ \A b : AllThere(g, b) <=> AllThere(file, b)
<1> DEFINE u == UnlockAll(file)
<1>1. total \in FileSizes /\ total \in Nat /\ file \in AFile /\ HeldPages(file) /\ Held(file, pinned, index)
  BY ReaderAssumption DEF AsyncInv, AsyncTypes, Held
<1>2. /\ Held(u, [t \in Tracks |-> FALSE], idx) /\ Recounts(file, u)
      /\ \A i \in DOMAIN file.slots : file.slots[i].ref < 0 => u.slots[i] = file.slots[i]
  BY <1>1, UnlockAllIs
<1>3. Ranges(u, g)
  OBVIOUS
<1> HIDE DEF u
<1>4. u \in AFile /\ HeldPages(u)
  BY <1>2 DEF Held
<1>5. Held(g, [t \in Tracks |-> FALSE], idx)
  BY <1>2, <1>3, Ranged
<1>6. u.slots \in Slots
  BY <1>4, FileIs
<1>7. /\ \A b : AllThere(u, b) <=> AllThere(file, b)
      /\ \A k : HasKey(u, k) <=> HasKey(file, k)
  BY <1>1, <1>2, <1>6, Recounted
<1>8. /\ u = [file EXCEPT !.slots = u.slots] /\ DOMAIN u.slots = DOMAIN file.slots
      /\ \A i \in DOMAIN file.slots : file.slots[i].ref < 0 <=> u.slots[i].ref < 0
  BY <1>2 DEF Recounts
<1>9. /\ u.free = file.free /\ u.cache = file.cache /\ u.length = file.length
  BY <1>1, <1>8 DEF AFile
<1>10. g.slots = u.slots /\ g.cache = file.cache /\ g.length = file.length
  BY <1>3, <1>9 DEF Ranges
<1>11. \A i \in DOMAIN file.slots : file.slots[i].ref \in Int /\ u.slots[i].ref \in Int
  BY <1>1, <1>4, <1>8, PageIs
<1>12. NoneRead(file) => NoneRead(g)
  BY <1>8, <1>10, <1>11 DEF NoneRead
<1>13. ASSUME NEW i \in file.cache, Busy(file, i) PROVE i \in g.cache /\ Busy(g, i)
  <2>1. i \in DOMAIN file.slots
    BY <1>1, CachedIs
  <2>2. file.slots[i] = [at |-> KeyOf(file.pos), size |-> 0, ref |-> -1]
    BY <1>13 DEF Busy
  <2>3. g.slots[i] = [at |-> KeyOf(g.pos), size |-> 0, ref |-> -1]
    BY <1>2, <1>10, <2>1, <2>2
  <2>4. \A j \in DOMAIN g.slots : j # i => g.slots[j].ref >= 0
    BY <1>8, <1>10, <1>11, <1>13 DEF Busy
  <2> QED
    BY <1>10, <2>3, <2>4 DEF Busy
<1>14. RangeIs(file) => RangeIs(g)
  BY <1>10 DEF RangeIs
<1> QED
  BY <1>3, <1>5, <1>7, <1>12, <1>13, <1>14, Ranged

LEMMA ShutdownKeeps == ASSUME AsyncInv, Shutdown PROVE AsyncInv'
<1>1. UNCHANGED <<total, index, extent, front, worker, goal, base, missed>>
  BY DEF Shutdown
<1>2. /\ worker # "load" /\ ~down /\ down' = TRUE /\ file' = UnlockAll(file)
      /\ pinned' = [t \in Tracks |-> FALSE]
      /\ io' = IF io = "pending" THEN "aborted" ELSE io
  BY DEF Shutdown
<1>3. Held(file, pinned, index) /\ file \in AFile /\ total \in FileSizes
  BY DEF AsyncInv, AsyncTypes, Held
<1>4. Held(file', pinned', index) /\ Recounts(file, file')
  BY <1>2, <1>3, UnlockAllIs
<1>5. /\ file' \in AFile /\ file'.pos = file.pos /\ file'.len = file.len /\ file'.at = file.at
      /\ Ranges(UnlockAll(file), file')
  <2>1. file' \in AFile
    BY <1>4 DEF Held
  <2>2. file' = [file EXCEPT !.slots = file'.slots]
    BY <1>4 DEF Recounts
  <2> QED
    BY <1>2, <1>3, <2>1, <2>2 DEF AFile, Ranges
<1>6. /\ NoneRead(file) => NoneRead(file')
      /\ \A i \in file.cache : Busy(file, i) => i \in file'.cache /\ Busy(file', i)
      /\ RangeIs(file) => RangeIs(file')
      /\ \A k : HasKey(file', k) <=> HasKey(file, k)
      /\ \A b : AllThere(file', b) <=> AllThere(file, b)
  BY <1>5, UnlockedIs
<1>7. io' \in InRead <=> io \in InRead
  BY <1>2 DEF InRead
<1>8. Held(file, pinned, index)'
  BY <1>1, <1>4, Primes
<1>9. AsyncTypes'
  <2>1. io' \in {"none", "pending", "aborted", "ok", "more", "fail"}
    BY <1>2 DEF AsyncInv, AsyncTypes
  <2>2. pinned' \in [Tracks -> BOOLEAN] /\ down' \in BOOLEAN
    BY <1>2
  <2> QED
    BY <1>1, <1>5, <2>1, <2>2 DEF AsyncInv, AsyncTypes
<1>10. AsyncControl'
  BY <1>1, <1>2, <1>7 DEF AsyncInv, AsyncControl, InRead
<1>11. AsyncRange'
  BY <1>1, <1>2, <1>5, <1>6, <1>7, Primes DEF AsyncInv, AsyncRange, InRead
<1>12. AsyncSerial'
  <2>1. SerialFrom(file', index, file'.at)
    BY <1>5, <1>6 DEF AsyncInv, AsyncSerial, SerialFrom
  <2> QED
    BY <1>1, <2>1, Primes DEF AsyncInv, AsyncSerial, PositionsOf
<1>13. AsyncExtents'
  BY <1>1, <1>6, Primes DEF AsyncInv, AsyncExtents, SampleOf
<1>14. AsyncTarget'
  BY <1>2 DEF AsyncTarget
<1> QED
  BY <1>1, <1>8, <1>9, <1>10, <1>11, <1>12, <1>13, <1>14 DEF AsyncInv

(* A start, a seek or a stop, to cluster c.                                *)
LEMMA MovedKeeps ==
  ASSUME AsyncInv, worker \notin {"load", "quit"}, ~down, Interrupted, NEW c \in Nat, NEW v \in Nat,
         file' = Moved(file, c, v), index' \in [Tracks -> Nat], base' = c,
         \A p \in PositionsOf(index') : p \in Nat /\ c <= p,
         UNCHANGED <<total, goal, missed, down>>, front' \in Tracks \cup {NoTrack}
  PROVE  AsyncInv'
<1>1. /\ worker' = (IF worker = "read" THEN "cancel" ELSE worker)
      /\ io' = (IF io = "pending" THEN "aborted" ELSE io)
      /\ pinned' = [t \in Tracks |-> FALSE] /\ extent' = [t \in Tracks |-> 0]
  BY DEF Interrupted
<1>2. Held(file, pinned, index) /\ file \in AFile /\ total \in FileSizes
  BY DEF AsyncInv, AsyncTypes, Held
<1>3. KeyOf(c) \in Nat
  BY KeyIs
<1>4. /\ file' \in AFile /\ file'.pos = file.pos /\ file'.len = file.len /\ file'.at = KeyOf(c)
      /\ Ranges(UnlockAll(file), file')
  <2> DEFINE u == UnlockAll(file)
  <2>1. Held(u, [t \in Tracks |-> FALSE], index) /\ Recounts(file, u)
    BY <1>2, UnlockAllIs
  <2>2. file' = [u EXCEPT !.avail = v, !.at = KeyOf(c)]
    BY DEF Moved
  <2> HIDE DEF u
  <2>3. u \in AFile /\ u = [file EXCEPT !.slots = u.slots]
    BY <2>1 DEF Held, Recounts
  <2>4. u.pos = file.pos /\ u.len = file.len
    BY <1>2, <2>3 DEF AFile
  <2>5. file' \in AFile
    <3>1. \A k \in Nat, a \in Int : [u EXCEPT !.avail = a, !.at = k] \in AFile
      BY <2>3 DEF AFile
    <3>2. v \in Int /\ KeyOf(c) \in Nat
      BY <1>3
    <3> QED
      BY <2>2, <3>1, <3>2
  <2>6. /\ file'.slots = u.slots /\ file'.free = u.free /\ file'.cache = u.cache /\ file'.length = u.length
        /\ file'.pos = u.pos /\ file'.len = u.len /\ file'.at = KeyOf(c)
    BY <2>2, <2>3 DEF AFile
  <2> QED
    BY <2>4, <2>5, <2>6 DEF Ranges, u
<1>5. /\ Held(file', pinned', index')
      /\ NoneRead(file) => NoneRead(file')
      /\ \A i \in file.cache : Busy(file, i) => i \in file'.cache /\ Busy(file', i)
      /\ RangeIs(file) => RangeIs(file')
  BY <1>1, <1>4, UnlockedIs
<1>6. io' \in InRead <=> io \in InRead
  BY <1>1 DEF InRead
<1>7. Held(file, pinned, index)'
  BY <1>5, Primes
<1>8. AsyncTypes'
  <2>1. io' \in {"none", "pending", "aborted", "ok", "more", "fail"} /\ worker' \in {"request", "load", "read", "cancel", "quit"}
    BY <1>1 DEF AsyncInv, AsyncTypes
  <2>2. pinned' \in [Tracks -> BOOLEAN] /\ extent' \in [Tracks -> Nat]
    BY <1>1
  <2> QED
    BY <1>4, <2>1, <2>2 DEF AsyncInv, AsyncTypes
<1>9. AsyncControl'
  BY <1>1, <1>6 DEF AsyncInv, AsyncControl, AsyncTypes, InRead
<1>10. AsyncRange'
  <2>1. /\ io' \in InRead => \E i \in file'.cache : Busy(file', i)
        /\ io' \notin InRead => NoneRead(file')
    BY <1>5, <1>6 DEF AsyncInv, AsyncRange
  <2>2. worker' # "quit" =>
          IF io' \in InRead \cup {"more"} THEN RangeIs(file') ELSE file'.pos = -1 /\ file'.len = -1
    BY <1>1, <1>4, <1>5, <1>6 DEF AsyncInv, AsyncRange, InRead
  <2>3. /\ io' # "pending" /\ worker' # "read"
        /\ file'.at <= KeyOf(base')
    BY <1>1, <1>3, <1>4
  <2> QED
    BY <2>1, <2>2, <2>3, Primes DEF AsyncRange, InRead
<1>11. AsyncSerial'
  <2>1. SerialFrom(file', index', file'.at)
    <3> SUFFICES ASSUME NEW k \in Nat, NEW p \in PositionsOf(index'), KeyOf(p) <= k, k < KeyOf(c) PROVE FALSE
      BY <1>4 DEF SerialFrom
    <3>1. KeyOf(c) <= KeyOf(p) /\ KeyOf(p) \in Nat
      BY KeyGrows, KeyIs
    <3> QED
      BY <1>3, <3>1
  <2> QED
    BY <2>1, Primes DEF AsyncSerial, PositionsOf
<1>12. AsyncExtents'
  BY <1>1 DEF AsyncExtents
<1>13. AsyncTarget'
  BY <1>1 DEF AsyncTarget
<1> QED
  BY <1>7, <1>8, <1>9, <1>10, <1>11, <1>12, <1>13 DEF AsyncInv

LEMMA OnStopKeeps == ASSUME AsyncInv, OnStop PROVE AsyncInv'
<1>1. /\ worker \notin {"load", "quit"} /\ ~down /\ Interrupted /\ file' = Moved(file, 0, 0)
      /\ index' = [t \in Tracks |-> 0] /\ front' = NoTrack /\ base' = 0
      /\ UNCHANGED <<total, goal, missed, down>>
  BY DEF OnStop
<1>2. index' \in [Tracks -> Nat] /\ front' \in Tracks \cup {NoTrack}
  BY <1>1
<1>3. PositionsOf(index') = {}
  <2>1. ASSUME NEW t \in Tracks, index'[t] \in DOMAIN TrackBlocks[t] PROVE FALSE
    <3>1. index'[t] > 0
      BY <2>1, BlockIs DEF AsyncInv, AsyncTypes
    <3> QED
      BY <1>1, <3>1
  <2> QED
    BY <2>1 DEF PositionsOf
<1>4. \A p \in PositionsOf(index') : p \in Nat /\ 0 <= p
  BY <1>3
<1> QED
  BY <1>1, <1>2, <1>4, MovedKeeps

LEMMA OnStartKeeps == ASSUME AsyncInv, NEW c \in ClusterStarts, OnStart(c) PROVE AsyncInv'
<1> DEFINE v == IF c = Least(ClusterStarts) THEN 0 ELSE c
<1>1. /\ worker \notin {"load", "quit"} /\ ~down /\ Interrupted /\ file' = Moved(file, c, v)
      /\ index' = [t \in Tracks |-> FirstFrom(t, c)] /\ base' = c
      /\ UNCHANGED <<total, front, goal, missed, down>>
  BY DEF OnStart
<1>2. c \in Nat
  BY BlockIs DEF ClusterStarts, AsyncInv, AsyncTypes
<1>3. v \in Nat
  BY <1>2
<1> HIDE DEF v
<1>4. ASSUME NEW t \in Tracks
      PROVE  /\ FirstFrom(t, c) \in Nat
             /\ FirstFrom(t, c) \in DOMAIN TrackBlocks[t] => TrackBlocks[t][FirstFrom(t, c)].cluster >= c
  <2> DEFINE B == TrackBlocks[t]
             S == {i \in DOMAIN B : B[i].cluster >= c} \cup {Len(B) + 1}
  <2>1. B \in Seq([start : Nat, size : Nat \ {0}, cluster : Nat])
    BY ReaderAssumption
  <2>2. Len(B) \in Nat /\ DOMAIN B = 1 .. Len(B)
    BY <2>1
  <2>3. S \subseteq Nat /\ S # {} /\ Len(B) + 1 \notin DOMAIN B
    BY <2>2
  <2>4. Least(S) \in S
    BY <2>3, LeastIs
  <2> QED
    BY <2>3, <2>4 DEF FirstFrom
<1>5. index' \in [Tracks -> Nat]
  BY <1>1, <1>4
<1>6. \A p \in PositionsOf(index') : p \in Nat /\ c <= p
  <2> SUFFICES ASSUME NEW t \in Tracks, index'[t] \in DOMAIN TrackBlocks[t]
               PROVE  TrackBlocks[t][index'[t]].cluster \in Nat /\ c <= TrackBlocks[t][index'[t]].cluster
    BY DEF PositionsOf
  <2>1. TrackBlocks[t][index'[t]].cluster \in Nat
    BY BlockIs DEF AsyncInv, AsyncTypes
  <2>2. index'[t] = FirstFrom(t, c)
    BY <1>1
  <2> QED
    BY <1>2, <1>4, <2>1, <2>2
<1>7. front' \in Tracks \cup {NoTrack}
  BY <1>1 DEF AsyncInv, AsyncTypes
<1> QED
  BY <1>1, <1>2, <1>3, <1>5, <1>6, <1>7, MovedKeeps

(* Purge gives up no page that a stream has locked or still needs.         *)
LEMMA PurgeIs ==
  ASSUME total \in FileSizes, NEW f, NEW pin, NEW idx, Held(f, pin, idx), NoneRead(f),
         NEW next, SerialFrom(f, next, f.at)
  PROVE  LET g == PurgeCache(f, next) IN
         /\ Held(g, pin, idx) /\ NoneRead(g) /\ SerialFrom(g, next, g.at)
         /\ g.pos = f.pos /\ g.len = f.len /\ g.at = f.at
<1>1. CASE PositionsOf(next) = {}
  BY <1>1 DEF PurgeCache
<1>2. CASE PositionsOf(next) # {}
  <2> DEFINE p == Least(PositionsOf(next))
             E == Expendable(f, p)
             g == Lists(f, f.free \cup E, f.cache \ E)
  <2>1. total \in Nat /\ f \in AFile /\ HeldPages(f)
    BY ReaderAssumption DEF Held
  <2>2. p \in PositionsOf(next) /\ p \in Nat /\ p < total /\ \A q \in PositionsOf(next) : q \in Nat /\ p <= q
    <3>1. \A q \in PositionsOf(next) : q \in Nat /\ q < total
      BY BlockIs DEF PositionsOf
    <3>2. PositionsOf(next) \subseteq Nat
      BY <3>1
    <3> QED
      BY <1>2, <3>1, <3>2, LeastIs
  <2>3. PurgeCache(f, next) = g
    BY <1>2 DEF PurgeCache, Purge
  <2> HIDE DEF p
  <2>4. \A i \in E : i \in f.cache /\ i \in DOMAIN f.slots /\ f.slots[i].at \in Int /\ f.slots[i].ref = 0 /\ DataEnd(f, i) <= p
    <3> SUFFICES ASSUME NEW i \in E
                 PROVE  i \in f.cache /\ i \in DOMAIN f.slots /\ f.slots[i].at \in Int /\ f.slots[i].ref = 0 /\ DataEnd(f, i) <= p
      OBVIOUS
    <3>1. i \in f.cache /\ \A j \in UpTo(f, i) : f.slots[j].ref = 0 /\ DataEnd(f, j) <= p
      BY DEF Expendable
    <3>2. i \in DOMAIN f.slots /\ f.slots[i].at \in Int
      BY <2>1, <3>1, CachedIs, PageIs
    <3>3. i \in UpTo(f, i)
      BY <3>1, <3>2 DEF UpTo
    <3> QED
      BY <3>1, <3>2, <3>3
  <2> HIDE DEF E
  <2>5. /\ g \in AFile /\ g.slots = f.slots /\ g.free = f.free \cup E /\ g.cache = f.cache \ E
        /\ g.length = f.length /\ g.pos = f.pos /\ g.len = f.len /\ g.at = f.at
    <3>1. f.free \cup E \in SUBSET Nat /\ f.cache \ E \in SUBSET Nat
      BY <2>1, <2>4, FileIs
    <3>2. \A A, B \in SUBSET Nat : [f EXCEPT !.free = A, !.cache = B] \in AFile
      BY <2>1 DEF AFile
    <3>3. g \in AFile
      BY <3>1, <3>2 DEF Lists
    <3> QED
      BY <2>1, <3>3 DEF AFile, Lists
  <2> HIDE DEF g
  <2>6. HeldPages(g)
    <3>1. HeldApart(g)
      BY <2>1, <2>4, <2>5 DEF HeldPages, HeldApart
    <3> QED
      BY <2>1, <2>5, <3>1 DEF HeldPages, OnePageEach, FewPages
  <2>7. Held(g, pin, idx)
    <3>1. \A i \in f.cache : f.slots[i].ref > 0 =>
            i \in g.cache /\ g.slots[i].at = f.slots[i].at /\ g.slots[i].size = f.slots[i].size
      BY <2>4, <2>5
    <3>2. \A i \in DOMAIN g.slots : g.slots[i].ref >= 0 =>
            \/ i \in DOMAIN f.slots /\ g.slots[i].ref = f.slots[i].ref
            \/ g.slots[i].ref = 0 /\ (i \in f.cache => f.slots[i].ref <= 0)
      BY <2>5
    <3> QED
      BY <2>5, <2>6, <3>1, <3>2, LocksStay
  <2>8. NoneRead(g)
    BY <2>5 DEF NoneRead
  <2>9. SerialFrom(g, next, g.at)
    <3> SUFFICES ASSUME NEW k \in Nat, NEW q \in PositionsOf(next), Aligned(k), KeyOf(q) <= k, k < f.at
                 PROVE  HasKey(g, k)
      BY <2>5 DEF SerialFrom
    <3>1. HasKey(f, k)
      BY DEF SerialFrom
    <3>2. PICK i \in f.cache : f.slots[i].at = k
      BY <3>1 DEF HasKey
    <3>3. ASSUME i \in E PROVE FALSE
      <4>1. i \in DOMAIN f.slots /\ f.slots[i].ref = 0 /\ DataEnd(f, i) <= p
        BY <2>4, <3>3
      <4>2. /\ f.slots[i].size \in Nat /\ f.slots[i].size > 0
            /\ f.slots[i].size = PageBytes \/ f.slots[i].at + f.slots[i].size = total
        <5>1. f.slots[i].at >= 0 /\ f.slots[i].ref >= 0
          BY <3>2, <4>1
        <5>2. LET s == f.slots[i] IN
              /\ s.size \in Nat
              /\ s.at >= 0 /\ s.ref >= 0 => s.size > 0
              /\ s.size > 0 => s.size = PageBytes \/ (f.length >= 0 /\ s.at + s.size = total)
          BY <2>1, <4>1, PageIs
        <5> QED
          BY <5>1, <5>2
      <4>3. k + f.slots[i].size <= p
        BY <3>2, <4>1 DEF DataEnd
      <4>4. q \in Nat /\ p <= q /\ p < total /\ p \in Nat
        BY <2>2
      <4>5. q < KeyOf(q) + PageBytes /\ KeyOf(q) \in Nat
        BY <4>4, KeyIs
      <4>6. f.slots[i].size # PageBytes
        BY <4>3, <4>4, <4>5, Sizes
      <4> QED
        BY <2>1, <3>2, <4>2, <4>3, <4>4, <4>6
    <3> QED
      BY <2>5, <3>2, <3>3 DEF HasKey
  <2> QED
    BY <2>3, <2>5, <2>7, <2>8, <2>9
<1> QED
  BY <1>1, <1>2

LEMMA InitKeeps == ASSUME ReaderInit PROVE AsyncInv
<1>1. total \in FileSizes /\ total \in Nat /\ total > 0
  BY ReaderAssumption DEF ReaderInit
<1>2. PICK n \in {total, -1} :
        file = [slots |-> <<>>, free |-> {}, cache |-> {}, length |-> n, avail |-> 0,
                pos |-> -1, len |-> -1, at |-> 0]
  BY DEF ReaderInit
<1>3. /\ index = [t \in Tracks |-> 0] /\ pinned = [t \in Tracks |-> FALSE] /\ extent = [t \in Tracks |-> 0]
      /\ front = NoTrack /\ worker = "request" /\ goal = "parse" /\ io = "none"
      /\ base = 0 /\ missed = FALSE /\ down = FALSE
  BY DEF ReaderInit
<1>4. /\ file.slots = <<>> /\ file.free = {} /\ file.cache = {} /\ file.length = n
      /\ file.pos = -1 /\ file.len = -1 /\ file.at = 0 /\ n \in Int /\ -1 \in Int
  BY <1>1, <1>2
<1>5. <<>> \in Slots /\ DOMAIN file.slots = {}
  <2>1. <<>> \in [1 .. 0 -> APage]
    OBVIOUS
  <2>2. 0 \in Nat
    OBVIOUS
  <2> QED
    BY <1>4, <2>1, <2>2 DEF Slots
<1>6. file \in AFile
  BY <1>2, <1>4, <1>5 DEF AFile
<1>7. HeldPages(file)
  <2>1. FewPages(file)
    <3>1. /\ IsFiniteSet(KeysOf(0, total + 1))
      BY <1>1, KeysFew
    <3>2. Cardinality(KeysOf(0, total + 1)) \in Nat
      BY <3>1, FS_CardinalityType
    <3>3. Cardinality({}) = 0
      BY FS_EmptySet
    <3> QED
      BY <1>5, <3>2, <3>3, Sizes DEF FewPages
  <2>2. HeldApart(file) /\ OnePageEach(file)
    BY <1>4, <1>5 DEF HeldApart, OnePageEach
  <2> QED
    BY <1>4, <1>5, <2>1, <2>2 DEF HeldPages
<1>8. Held(file, pinned, index) /\ NoneRead(file)
  BY <1>3, <1>5, <1>6, <1>7 DEF Held, RefsAre, PinsThere, NoneRead
<1>9. AsyncTypes
  BY <1>1, <1>3, <1>6 DEF AsyncTypes
<1>10. AsyncControl /\ AsyncExtents /\ AsyncTarget
  BY <1>3 DEF AsyncControl, AsyncExtents, AsyncTarget, InRead
<1>11. AsyncRange
  BY <1>3, <1>4, <1>8 DEF AsyncRange, InRead
<1>12. PositionsOf(index) = {}
  <2>1. ASSUME NEW t \in Tracks, index[t] \in DOMAIN TrackBlocks[t] PROVE FALSE
    <3>1. index[t] > 0
      BY <1>1, <2>1, BlockIs
    <3> QED
      BY <1>3, <3>1
  <2> QED
    BY <2>1 DEF PositionsOf
<1>13. AsyncSerial
  BY <1>12 DEF AsyncSerial, SerialFrom
<1> QED
  BY <1>3, <1>8, <1>9, <1>10, <1>11, <1>13 DEF AsyncInv

(* What a stream has not locked does not matter to the counts.             *)
LEMMA PlacesIs ==
  ASSUME NEW f, NEW pin, NEW idx, Held(f, pin, idx), NEW idy, \A t \in Tracks : pin[t] => idy[t] = idx[t]
  PROVE  Held(f, pin, idy)
<1>1. \A i : LockersOf(f, pin, idy, i) = LockersOf(f, pin, idx, i)
  BY DEF LockersOf
<1>2. RefsAre(f, pin, idy)
  BY <1>1 DEF Held, RefsAre
<1>3. PinsThere(f, pin, idy)
  BY DEF Held, PinsThere
<1> QED
  BY <1>2, <1>3 DEF Held

(* A sample: blocks in a row, the first of them the current one.           *)
LEMMA SampleIs ==
  ASSUME total \in FileSizes, index \in [Tracks -> Nat], NEW t \in Tracks, index[t] \in DOMAIN TrackBlocks[t]
  PROVE  \E m \in DOMAIN TrackBlocks[t] :
           /\ SampleOf(t) = index[t] .. m /\ index[t] <= m /\ m \in Nat
           /\ Greatest(SampleOf(t)) = m /\ SampleOf(t) \subseteq DOMAIN TrackBlocks[t]
           /\ SampleBlocks[t] = 1 => m = index[t]
           /\ SampleBlocks[t] \in Nat /\ SampleBlocks[t] > 0
<1> DEFINE B == TrackBlocks[t]
           s == SampleBlocks[t]
           n == index[t]
           m == Least({n + s - 1, Len(B)})
<1>1. s \in Nat /\ s > 0
  BY ReaderAssumption
<1>2. Len(B) \in Nat /\ DOMAIN B = 1 .. Len(B) /\ n \in Nat /\ n > 0 /\ n <= Len(B)
  <2>1. B \in Seq([start : Nat, size : Nat \ {0}, cluster : Nat])
    BY ReaderAssumption
  <2> QED
    BY <2>1
<1> HIDE DEF s, n, B
<1>3. m = IF n + s - 1 <= Len(B) THEN n + s - 1 ELSE Len(B)
  <2>1. n + s - 1 \in Int /\ Len(B) \in Int
    BY <1>1, <1>2
  <2> QED
    BY <2>1, LessOfTwo
<1>4. m \in Nat /\ n <= m /\ m <= Len(B) /\ (s = 1 => m = n)
  <2> HIDE DEF m
  <2> DEFINE l == Len(B)
  <2>1. l \in Nat /\ n \in Nat /\ n <= l /\ m = IF n + s - 1 <= l THEN n + s - 1 ELSE l
    BY <1>2, <1>3
  <2> HIDE DEF l
  <2>2. n + s - 1 <= l => m \in Nat /\ n <= m /\ m <= l /\ (s = 1 => m = n)
    BY <1>1, <2>1
  <2>3. l < n + s - 1 => m \in Nat /\ n <= m /\ m <= l /\ (s = 1 => m = n)
    BY <1>1, <2>1
  <2> QED
    BY <1>1, <2>1, <2>2, <2>3 DEF l
<1>5. SampleOf(t) = n .. m
  BY DEF SampleOf, n, s, B
<1> HIDE DEF m
<1>6. Greatest(n .. m) = m
  <2>1. n .. m \subseteq Int /\ m \in n .. m /\ \A y \in n .. m : y <= m
    BY <1>2, <1>4
  <2>2. Greatest(n .. m) \in n .. m /\ \A y \in n .. m : y <= Greatest(n .. m)
    BY <1>4, <2>1, GreatestIs
  <2>3. Greatest(n .. m) \in Int /\ Greatest(n .. m) <= m /\ m <= Greatest(n .. m)
    BY <2>1, <2>2
  <2> QED
    BY <1>4, <2>3
<1>7. m \in DOMAIN B /\ n .. m \subseteq DOMAIN B
  BY <1>2, <1>4
<1> QED
  BY <1>1, <1>4, <1>5, <1>6, <1>7 DEF n, s, B

LEMMA ToLoadIs ==
  ASSUME total \in FileSizes, index \in [Tracks -> Nat], NEW t \in Tracks, index[t] \in DOMAIN TrackBlocks[t]
  PROVE  LET b == ToLoad(t) IN
         /\ b.start \in Nat /\ b.size \in Nat /\ b.size > 0 /\ BlockEnd(b) \in Nat
         /\ b.start < BlockEnd(b) /\ BlockEnd(b) <= total
<1> DEFINE n == IF MoreExtents(t) THEN index[t] + extent[t] ELSE index[t]
<1>1. n \in DOMAIN TrackBlocks[t]
  BY SampleIs DEF MoreExtents
<1>2. ToLoad(t) = TrackBlocks[t][n]
  BY DEF ToLoad, Block
<1> HIDE DEF n
<1> QED
  BY <1>1, <1>2, BlockIs

(* The blocks of the sample that are loaded stay.                          *)
LEMMA ExtentsStay ==
  ASSUME AsyncInv, NEW f, Keeps(file, f), file' = f, UNCHANGED <<total, index, extent>>,
         \A u \in Tracks : extent[u] > 0 => u = front'
  PROVE  AsyncExtents'
<1>1. total \in FileSizes /\ total \in Nat /\ file \in AFile /\ HeldPages(file)
  BY ReaderAssumption DEF AsyncInv, AsyncTypes, Held
<1> SUFFICES ASSUME NEW t \in Tracks, extent[t] > 0
             PROVE  /\ t = front' /\ index[t] \in DOMAIN TrackBlocks[t]
                    /\ \A i \in index[t] .. index[t] + extent[t] - 1 :
                         i \in SampleOf(t) /\ AllThere(f, TrackBlocks[t][i])
  BY Primes DEF AsyncExtents, SampleOf
<1>2. /\ index[t] \in DOMAIN TrackBlocks[t]
      /\ \A i \in index[t] .. index[t] + extent[t] - 1 :
           i \in SampleOf(t) /\ AllThere(file, TrackBlocks[t][i])
  BY DEF AsyncInv, AsyncExtents
<1>3. SampleOf(t) \subseteq DOMAIN TrackBlocks[t]
  BY <1>1, <1>2, SampleIs DEF AsyncInv, AsyncTypes
<1>4. ASSUME NEW i \in index[t] .. index[t] + extent[t] - 1 PROVE AllThere(f, TrackBlocks[t][i])
  <2>1. AllThere(file, TrackBlocks[t][i]) /\ i \in DOMAIN TrackBlocks[t]
    BY <1>2, <1>3
  <2>2. TrackBlocks[t][i].start \in Nat /\ BlockEnd(TrackBlocks[t][i]) \in Nat
    BY <1>1, <2>1, BlockIs
  <2> QED
    BY <1>1, <2>1, <2>2, ThereStays
<1> QED
  BY <1>2, <1>4

LEMMA ExtentsGrow ==
  ASSUME AsyncInv, NEW f, Keeps(file, f), file' = f, UNCHANGED <<total, index, front>>,
         front \in Tracks, index[front] \in DOMAIN TrackBlocks[front], MoreExtents(front),
         AllThere(f, ToLoad(front)), extent' = [extent EXCEPT ![front] = @ + 1]
  PROVE  AsyncExtents' /\ extent' \in [Tracks -> Nat]
<1>1. total \in FileSizes /\ total \in Nat /\ file \in AFile /\ HeldPages(file) /\ extent \in [Tracks -> Nat]
      /\ index \in [Tracks -> Nat]
  BY ReaderAssumption DEF AsyncInv, AsyncTypes, Held
<1>2. extent' \in [Tracks -> Nat]
  BY <1>1
<1>3. ASSUME NEW t \in Tracks, extent'[t] > 0 PROVE t = front /\ extent'[t] = extent[t] + 1
  <2>1. t # front => extent[t] > 0
    BY <1>1, <1>3
  <2>2. extent[t] > 0 => t = front
    BY DEF AsyncInv, AsyncExtents
  <2> QED
    BY <1>1, <2>1, <2>2
<1>4. ASSUME NEW i \in index[front] .. index[front] + extent[front]
      PROVE  i \in SampleOf(front) /\ AllThere(f, TrackBlocks[front][i])
  <2>1. CASE i = index[front] + extent[front]
    BY <2>1 DEF MoreExtents, ToLoad
  <2>2. CASE i # index[front] + extent[front]
    <3>1. i \in index[front] .. index[front] + extent[front] - 1 /\ extent[front] > 0
      BY <1>1, <2>2
    <3>2. i \in SampleOf(front) /\ AllThere(file, TrackBlocks[front][i])
      BY <3>1 DEF AsyncInv, AsyncExtents
    <3>3. i \in DOMAIN TrackBlocks[front]
      BY <1>1, <3>2, SampleIs
    <3>4. TrackBlocks[front][i].start \in Nat /\ BlockEnd(TrackBlocks[front][i]) \in Nat
      BY <1>1, <3>3, BlockIs
    <3>5. AllThere(f, TrackBlocks[front][i])
      BY <1>1, <3>2, <3>4, ThereStays
    <3> QED
      BY <3>2, <3>5
  <2> QED
    BY <2>1, <2>2
<1>5. AsyncExtents'
  <2> SUFFICES ASSUME NEW t \in Tracks, extent'[t] > 0
               PROVE  /\ t = front /\ index[t] \in DOMAIN TrackBlocks[t]
                      /\ \A i \in index[t] .. index[t] + extent'[t] - 1 :
                           i \in SampleOf(t) /\ AllThere(f, TrackBlocks[t][i])
    BY Primes DEF AsyncExtents, SampleOf
  <2>1. t = front /\ extent'[t] = extent[t] + 1
    BY <1>3
  <2>2. index[t] + extent'[t] - 1 = index[front] + extent[front]
    BY <1>1, <2>1
  <2> QED
    BY <1>4, <2>1, <2>2
<1> QED
  BY <1>2, <1>5

(* A read has been begun.                                                  *)
LEMMA ReadingKeeps ==
  ASSUME AsyncInv, NEW r, NEW p, NEW e, Outcome(file, r, pinned, index, p, e), r.hr = "more", ~down,
         NEW what \in {"ahead", "parse", "extent", "lock"}, Reading(r.file, what),
         UNCHANGED <<total, index, pinned, extent, base, missed, down>>, front' \in Tracks \cup {NoTrack},
         \A u \in Tracks : extent[u] > 0 => u = front',
         what \in {"extent", "lock"} =>
           /\ front' = front /\ front \in Tracks /\ index[front] \in DOMAIN TrackBlocks[front]
           /\ what = (IF MoreExtents(front) THEN "extent" ELSE "lock")
           /\ MoreExtents(front) \/ ~pinned[front]
           /\ e = BlockEnd(ToLoad(front))
           /\ \A k \in KeysOf(ToLoad(front).start, e) : k < KeyOf(r.file.pos) => HasKey(r.file, k)
  PROVE  AsyncInv'
<1>1. worker' = "read" /\ goal' = what /\ io' = "pending" /\ file' = r.file
  BY DEF Reading
<1>2. /\ Held(file', pinned, index) /\ Keeps(file, file') /\ SerialFrom(file', index, file'.at)
      /\ \E i \in file'.cache : Busy(file', i)
      /\ RangeIs(file') /\ file'.at = KeyOf(file'.pos) /\ file'.pos + file'.len = e
  BY <1>1 DEF Outcome
<1>3. Held(file, pinned, index)'
  BY <1>2, Primes
<1>4. AsyncTypes'
  BY <1>1, <1>2 DEF AsyncInv, AsyncTypes, Held
<1>5. AsyncControl'
  BY <1>1 DEF AsyncControl, InRead
<1>6. AsyncRange'
  BY <1>1, <1>2, Primes DEF AsyncRange, InRead
<1>7. AsyncSerial'
  BY <1>2, Primes DEF AsyncInv, AsyncSerial, PositionsOf
<1>8. AsyncExtents'
  BY <1>1, <1>2, ExtentsStay
<1>9. AsyncTarget'
  BY <1>1, <1>2, Primes DEF AsyncTarget, MoreExtents, ToLoad, Block, SampleOf
<1> QED
  BY <1>3, <1>4, <1>5, <1>6, <1>7, <1>8, <1>9 DEF AsyncInv

(* The worker gives up.                                                    *)
LEMMA QuitKeeps ==
  ASSUME AsyncInv, NEW g, Held(g, pinned, index), Keeps(file, g), SerialFrom(g, index, g.at), NoneRead(g),
         Quit(g), io \notin InRead,
         UNCHANGED <<total, index, pinned, extent, base, missed, down>>, front' \in Tracks \cup {NoTrack},
         \A u \in Tracks : extent[u] > 0 => u = front'
  PROVE  AsyncInv'
<1>1. worker' = "quit" /\ file' = g /\ goal' = goal /\ io' = io
  BY DEF Quit
<1>2. Held(file, pinned, index)'
  BY <1>1, Primes
<1>3. AsyncTypes'
  BY <1>1 DEF AsyncInv, AsyncTypes, Held
<1>4. AsyncControl'
  BY <1>1 DEF AsyncControl, InRead
<1>5. AsyncRange'
  BY <1>1, Primes DEF AsyncRange, InRead
<1>6. AsyncSerial'
  BY <1>1, Primes DEF AsyncInv, AsyncSerial, PositionsOf
<1>7. AsyncExtents'
  BY <1>1, ExtentsStay
<1>8. AsyncTarget'
  BY <1>1 DEF AsyncTarget
<1> QED
  BY <1>2, <1>3, <1>4, <1>5, <1>6, <1>7, <1>8 DEF AsyncInv

(* Invoke: the page has been read, or dropped.                             *)
LEMMA InvokeKeeps == ASSUME AsyncInv, Invoke PROVE AsyncInv'
<1>1. /\ io \in InRead /\ UNCHANGED <<total, index, pinned, extent, front, worker, goal, base, missed, down>>
      /\ \E r \in AsyncReadCompletion(file) : file' = r.file /\ io' = r.hr
  BY DEF Invoke, InRead, places
<1>2. PICK r \in AsyncReadCompletion(file) : file' = r.file /\ io' = r.hr
  BY <1>1
<1>3. /\ total \in FileSizes /\ total \in Nat /\ file \in AFile /\ HeldPages(file) /\ Held(file, pinned, index)
      /\ index \in [Tracks -> Nat] /\ file.at \in Nat /\ base \in Nat
  BY ReaderAssumption, FileIs DEF AsyncInv, AsyncTypes, Held
<1>4. worker \in {"read", "cancel"} /\ RangeIs(file)
  BY <1>1 DEF AsyncInv, AsyncControl, AsyncRange, InRead
<1>5. file.pos \in Nat /\ file.len \in Nat \ {0}
  BY <1>4 DEF RangeIs
<1>6. Busy(file, PageRead(file))
  <2>1. PICK i \in file.cache : Busy(file, i)
    BY <1>1 DEF AsyncInv, AsyncRange
  <2>2. PageRead(file) = i
    BY <1>3, <1>5, <2>1, BusyIs
  <2> QED
    BY <2>1, <2>2
<1> DEFINE key == KeyOf(file.pos)
<1>7. key \in Nat /\ key <= file.pos /\ file.pos < key + PageBytes /\ Aligned(key)
  BY <1>5, KeyIs
<1>8. /\ Held(file', pinned, index) /\ NoneRead(file') /\ Keeps(file, file')
      /\ \A k : HasKey(file, k) /\ k # key => HasKey(file', k)
      /\ \/ /\ io' \in {"ok", "fail"} /\ file'.pos = -1 /\ file'.len = -1 /\ file'.at = file.at
            /\ io' = "ok" => total <= key
         \/ /\ HasKey(file', key)
            /\ \E n \in Nat :
                 /\ n > 0 /\ n <= PageBytes /\ (n = PageBytes \/ key + n = total)
                 /\ file'.at = IF io = "aborted" THEN file.at ELSE key + n
                 /\ \/ /\ io' = "more" /\ RangeIs(file') /\ file'.pos = key + n /\ n = PageBytes
                       /\ file.pos + file.len <= total => file'.pos + file'.len = file.pos + file.len
                    \/ /\ io' = "ok" /\ file'.pos = -1 /\ file'.len = -1
                       /\ file.pos + file.len <= total => file.pos + file.len <= key + n
  BY <1>2, <1>3, <1>4, <1>6, CompletionIs
<1> HIDE DEF key
<1>9. io' \in {"ok", "fail", "more"}
  BY <1>8
<1>10. io = "pending" => file.at = key
  BY DEF AsyncInv, AsyncRange, key
<1>11. io = "aborted" => file.at = key \/ file.at <= KeyOf(base)
  BY DEF AsyncInv, AsyncRange, key
<1>12. io = "pending" \/ io = "aborted"
  BY <1>1 DEF InRead
<1>13. worker = "read" /\ ~down => io = "pending"
  BY <1>12 DEF AsyncInv, AsyncControl
<1>14. SerialFrom(file', index, file'.at)
  <2> SUFFICES ASSUME NEW k \in Nat, NEW q \in PositionsOf(index), Aligned(k), KeyOf(q) <= k, k < file'.at
               PROVE  HasKey(file', k)
    BY DEF SerialFrom
  <2>1. k < file.at => HasKey(file, k)
    BY DEF AsyncInv, AsyncSerial, SerialFrom
  <2>2. CASE k = key
    <3>1. CASE HasKey(file', key)
      BY <2>2, <3>1
    <3>2. CASE file'.at = file.at
      <4>1. io = "aborted" /\ file.at <= KeyOf(base)
        BY <1>3, <1>7, <1>10, <1>11, <1>12, <2>2, <3>2
      <4>2. q \in Nat
        BY <1>3, BlockIs DEF PositionsOf
      <4>3. base <= q
        BY DEF AsyncInv, AsyncSerial
      <4>4. KeyOf(base) <= KeyOf(q) /\ KeyOf(q) \in Nat /\ KeyOf(base) \in Nat
        BY <1>3, <4>2, <4>3, KeyGrows, KeyIs
      <4> QED
        BY <1>3, <3>2, <4>1, <4>4
    <3> QED
      BY <1>8, <3>1, <3>2
  <2>3. CASE k # key
    <3>1. CASE k < file.at
      BY <1>8, <2>1, <2>3, <3>1
    <3>2. CASE ~(k < file.at)
      <4>1. PICK n \in Nat : n <= PageBytes /\ file'.at = IF io = "aborted" THEN file.at ELSE key + n
        BY <1>8, <3>2
      <4>2. io = "pending" /\ file'.at = key + n /\ key <= k /\ k < key + PageBytes
        BY <1>3, <1>7, <1>10, <1>12, <3>2, <4>1, Sizes
      <4>3. KeyOf(k) = key /\ KeyOf(k) = k
        BY <1>7, <4>2, KeyOnce DEF Aligned
      <4> QED
        BY <2>3, <4>3
    <3> QED
      BY <3>1, <3>2
  <2> QED
    BY <2>2, <2>3
<1>15. Held(file, pinned, index)'
  BY <1>1, <1>8, Primes
<1>16. AsyncTypes'
  BY <1>1, <1>8, <1>9 DEF AsyncInv, AsyncTypes, Held
<1>17. AsyncControl'
  BY <1>1, <1>4, <1>9 DEF AsyncInv, AsyncControl, InRead
<1>18. AsyncRange'
  <2>1. io' \notin InRead
    BY <1>9 DEF InRead
  <2>2. IF io' = "more" THEN RangeIs(file') ELSE file'.pos = -1 /\ file'.len = -1
    BY <1>8
  <2>3. ASSUME worker = "read", ~down, io' = "more" PROVE file'.pos <= file'.at
    <3>1. io = "pending"
      BY <1>13, <2>3
    <3>2. PICK n \in Nat : file'.at = key + n /\ file'.pos = key + n
      BY <1>8, <2>3, <3>1
    <3> QED
      BY <1>7, <3>2
  <2> QED
    BY <1>1, <1>8, <2>1, <2>2, <2>3, Primes DEF AsyncRange, InRead
<1>19. AsyncSerial'
  BY <1>1, <1>14, Primes DEF AsyncInv, AsyncSerial, PositionsOf
<1>20. AsyncExtents'
  <2>1. \A u \in Tracks : extent[u] > 0 => u = front'
    BY <1>1 DEF AsyncInv, AsyncExtents
  <2> QED
    BY <1>1, <1>8, <2>1, ExtentsStay
<1>21. ASSUME worker = "read", ~down, goal \in {"extent", "lock"}
       PROVE  /\ front \in Tracks /\ index[front] \in DOMAIN TrackBlocks[front]
              /\ goal = (IF MoreExtents(front) THEN "extent" ELSE "lock")
              /\ MoreExtents(front) \/ ~pinned[front]
              /\ io' = "ok" => AllThere(file', ToLoad(front))
              /\ io' = "more" =>
                   /\ file'.pos + file'.len = BlockEnd(ToLoad(front))
                   /\ \A k \in KeysOf(ToLoad(front).start, BlockEnd(ToLoad(front))) :
                        k < KeyOf(file'.pos) => HasKey(file', k)
  <2> DEFINE b == ToLoad(front)
  <2>1. io = "pending"
    BY <1>13, <1>21
  <2>2. /\ front \in Tracks /\ index[front] \in DOMAIN TrackBlocks[front]
        /\ goal = (IF MoreExtents(front) THEN "extent" ELSE "lock")
        /\ MoreExtents(front) \/ ~pinned[front]
        /\ file.pos + file.len = BlockEnd(b)
        /\ \A k \in KeysOf(b.start, BlockEnd(b)) : k < key => HasKey(file, k)
    BY <1>21, <2>1 DEF AsyncInv, AsyncTarget, key
  <2>3. b.start \in Nat /\ BlockEnd(b) \in Nat /\ b.start < BlockEnd(b) /\ BlockEnd(b) <= total
    BY <1>3, <2>2, ToLoadIs
  <2> HIDE DEF b
  <2>4. \A k : k \in KeysOf(b.start, BlockEnd(b)) => Aligned(k) /\ k \in Nat /\ k < BlockEnd(b)
    BY <2>3, KeysAre DEF Aligned
  <2>5. ASSUME io' \in {"ok", "more"}
        PROVE  HasKey(file', key) /\ \E n \in Nat :
                 /\ n <= PageBytes
                 /\ io' = "more" => n = PageBytes /\ file'.pos = key + n /\ file'.pos + file'.len = BlockEnd(b)
                 /\ io' = "ok" => BlockEnd(b) <= key + n
    <3>1. ~(total <= key)
      BY <1>3, <1>5, <1>7, <2>2, <2>3
    <3> QED
      BY <1>8, <2>2, <2>3, <2>5, <3>1
  <2>6. ASSUME io' \in {"ok", "more"}, NEW k \in KeysOf(b.start, BlockEnd(b)), k < key + PageBytes
        PROVE  HasKey(file', k)
    <3>1. Aligned(k) /\ k \in Nat /\ HasKey(file', key)
      BY <2>4, <2>5, <2>6
    <3>2. CASE k < key
      BY <1>7, <1>8, <2>2, <3>1, <3>2
    <3>3. CASE ~(k < key)
      <4>1. KeyOf(k) = key /\ KeyOf(k) = k
        BY <1>7, <2>6, <3>1, <3>3, KeyOnce DEF Aligned
      <4> QED
        BY <3>1, <4>1
    <3> QED
      BY <3>2, <3>3
  <2>7. ASSUME io' = "ok" PROVE AllThere(file', b)
    <3>1. PICK n \in Nat : n <= PageBytes /\ BlockEnd(b) <= key + n
      BY <2>5, <2>7
    <3>2. \A k \in KeysOf(b.start, BlockEnd(b)) : k < key + PageBytes
      BY <1>7, <2>3, <2>4, <3>1, Sizes
    <3>3. \A k \in KeysOf(b.start, BlockEnd(b)) : HasKey(file', k)
      BY <2>6, <2>7, <3>2
    <3>4. file' \in AFile /\ HeldPages(file')
      BY <1>8 DEF Held
    <3> QED
      BY <1>3, <1>8, <2>3, <3>3, <3>4, AllRead
  <2>8. ASSUME io' = "more"
        PROVE  /\ file'.pos + file'.len = BlockEnd(b)
               /\ \A k \in KeysOf(b.start, BlockEnd(b)) : k < KeyOf(file'.pos) => HasKey(file', k)
    <3>1. file'.pos = key + PageBytes /\ file'.pos + file'.len = BlockEnd(b)
      BY <2>5, <2>8
    <3>2. KeyOf(file'.pos) = key + PageBytes
      BY <1>7, <3>1, KeyAfter DEF Aligned
    <3> QED
      BY <2>6, <2>8, <3>1, <3>2
  <2> QED
    BY <2>2, <2>7, <2>8 DEF b
<1>22. AsyncTarget'
  BY <1>1, <1>9, <1>21, Primes DEF AsyncTarget, MoreExtents, ToLoad, Block, SampleOf
<1> QED
  BY <1>1, <1>15, <1>16, <1>17, <1>18, <1>19, <1>20, <1>22 DEF AsyncInv

LEMMA ParseKeeps ==
  ASSUME AsyncInv, NEW c \in Peeks, NEW t \in Tracks \cup {NoTrack}, Parse(c, t) PROVE AsyncInv'
<1>1. /\ worker = "request" /\ ~down /\ front \in {NoTrack, t} /\ c.start <= total /\ front' = t
      /\ UNCHANGED <<total, index, pinned, extent, base, missed, down>>
  BY DEF Parse
<1>2. PICK r \in AsyncReadInit(file, c) :
        CASE r.hr = "ok"   -> file' = r.file /\ UNCHANGED thread
          [] r.hr = "more" -> Reading(r.file, IF t = NoTrack THEN "ahead" ELSE "parse")
          [] r.hr = "fail" -> Quit(r.file)
  BY DEF Parse
<1>3. /\ total \in FileSizes /\ Held(file, pinned, index) /\ index \in [Tracks -> Nat]
      /\ io = "none" /\ NoneRead(file) /\ file.pos = -1 /\ file.len = -1 /\ SerialFrom(file, index, file.at)
  BY <1>1 DEF AsyncInv, AsyncTypes, AsyncControl, AsyncRange, AsyncSerial, InRead
<1>4. c.start \in Nat /\ c.size \in Nat /\ c.size > 0
  BY ReaderAssumption
<1>5. PICK p \in Nat, e \in Nat : Outcome(file, r, pinned, index, p, e)
  BY <1>1, <1>3, <1>4, InitIs
<1>6. front' \in Tracks \cup {NoTrack} /\ \A u \in Tracks : extent[u] > 0 => u = front'
  <2>1. \A u \in Tracks : extent[u] > 0 => u = front
    BY DEF AsyncInv, AsyncExtents
  <2> QED
    BY <1>1, <2>1, ReaderAssumption
<1>7. CASE r.hr = "ok"
  <2>1. file' = r.file /\ UNCHANGED <<worker, goal, io>>
    BY <1>2, <1>7 DEF thread
  <2>2. /\ Held(file', pinned, index) /\ Keeps(file, file') /\ SerialFrom(file', index, file'.at)
        /\ NoneRead(file') /\ file'.pos = -1 /\ file'.len = -1
    BY <1>5, <1>7, <2>1 DEF Outcome
  <2>3. Held(file, pinned, index)'
    BY <1>1, <2>2, Primes
  <2>4. AsyncTypes'
    BY <1>1, <1>6, <2>1, <2>2 DEF AsyncInv, AsyncTypes, Held
  <2>5. AsyncControl'
    BY <1>1, <1>3, <2>1 DEF AsyncControl, InRead
  <2>6. AsyncRange'
    BY <1>1, <1>3, <2>1, <2>2, Primes DEF AsyncRange, InRead
  <2>7. AsyncSerial'
    BY <1>1, <2>2, Primes DEF AsyncInv, AsyncSerial, PositionsOf
  <2>8. AsyncExtents'
    BY <1>1, <1>6, <2>1, <2>2, ExtentsStay
  <2>9. AsyncTarget'
    BY <1>1, <2>1 DEF AsyncTarget
  <2> QED
    BY <1>1, <2>3, <2>4, <2>5, <2>6, <2>7, <2>8, <2>9 DEF AsyncInv
<1>8. CASE r.hr = "more"
  <2> DEFINE what == IF t = NoTrack THEN "ahead" ELSE "parse"
  <2>1. Reading(r.file, what)
    BY <1>2, <1>8
  <2>2. what \in {"ahead", "parse", "extent", "lock"} /\ what \notin {"extent", "lock"}
    OBVIOUS
  <2> HIDE DEF what
  <2> QED
    BY <1>1, <1>5, <1>6, <1>8, <2>1, <2>2, ReadingKeeps
<1>9. CASE r.hr = "fail"
  <2>1. Quit(r.file)
    BY <1>2, <1>9
  <2>2. /\ Held(r.file, pinned, index) /\ Keeps(file, r.file) /\ SerialFrom(r.file, index, r.file.at)
        /\ NoneRead(r.file)
    BY <1>5, <1>9 DEF Outcome
  <2>3. io \notin InRead
    BY <1>3 DEF InRead
  <2> QED
    BY <1>1, <1>6, <2>1, <2>2, <2>3, QuitKeeps
<1> QED
  BY <1>5, <1>7, <1>8, <1>9 DEF Outcome

(* GetSample reads what is there, unlocks the block and moves on.          *)
LEMMA GetSampleKeeps ==
  ASSUME AsyncInv, worker = "load", NEW t \in Tracks, t = front, index[t] \in DOMAIN TrackBlocks[t], ~MoreExtents(t),
         NEW f, Held(f, pinned, index), NoneRead(f), SerialFrom(f, index, f.at), f.pos = -1, f.len = -1,
         Keeps(file, f), AllThere(f, Block(t)), GetSample(t, f), UNCHANGED <<total, base, down>>
  PROVE  AsyncInv'
<1> DEFINE next == [index EXCEPT ![t] = Greatest(SampleOf(t)) + 1]
           pin  == [pinned EXCEPT ![t] = FALSE]
           g    == IF pinned[t] THEN Counted(f, Block(t), -1) ELSE f
<1>1. /\ missed' = (missed \/ \E i \in SampleOf(t) : ~AllThere(f, TrackBlocks[t][i]))
      /\ index' = next /\ file' = PurgeCache(g, next) /\ pinned' = pin
      /\ extent' = [extent EXCEPT ![t] = 0] /\ front' = NoTrack /\ worker' = "request"
      /\ UNCHANGED <<goal, io>>
  BY DEF GetSample
<1>2. /\ total \in FileSizes /\ total \in Nat /\ f \in AFile /\ HeldPages(f)
      /\ file \in AFile /\ HeldPages(file) /\ Held(file, pinned, index)
      /\ index \in [Tracks -> Nat] /\ pinned \in [Tracks -> BOOLEAN] /\ extent \in [Tracks -> Nat] /\ base \in Nat
  BY ReaderAssumption DEF AsyncInv, AsyncTypes, Held
<1>3. PICK m \in DOMAIN TrackBlocks[t] :
        /\ SampleOf(t) = index[t] .. m /\ index[t] <= m /\ m \in Nat
        /\ Greatest(SampleOf(t)) = m /\ SampleOf(t) \subseteq DOMAIN TrackBlocks[t]
        /\ SampleBlocks[t] = 1 => m = index[t]
        /\ SampleBlocks[t] \in Nat /\ SampleBlocks[t] > 0
  BY <1>2, SampleIs
<1>4. next \in [Tracks -> Nat] /\ next[t] = m + 1 /\ \A u \in Tracks : u # t => next[u] = index[u]
  BY <1>2, <1>3
<1>5. pin \in [Tracks -> BOOLEAN] /\ ~pin[t] /\ \A u \in Tracks : pin[u] => u # t
  BY <1>2
<1> HIDE DEF next
<1>6. ~missed'
  <2> SUFFICES ASSUME NEW i \in SampleOf(t) PROVE AllThere(f, TrackBlocks[t][i])
    BY <1>1 DEF AsyncInv
  <2>1. CASE i = index[t]
    BY <2>1 DEF Block
  <2>2. CASE i # index[t]
    <3>1. SampleBlocks[t] > 1
      BY <1>2, <1>3, <2>2
    <3>2. index[t] + extent[t] \notin index[t] .. m
      BY <1>3, <3>1 DEF MoreExtents
    <3>3. i \in index[t] .. index[t] + extent[t] - 1 /\ extent[t] > 0
      BY <1>2, <1>3, <3>2
    <3>4. AllThere(file, TrackBlocks[t][i])
      BY <3>3 DEF AsyncInv, AsyncExtents
    <3>5. TrackBlocks[t][i].start \in Nat /\ BlockEnd(TrackBlocks[t][i]) \in Nat
      BY <1>2, <1>3, BlockIs
    <3> QED
      BY <1>2, <3>4, <3>5, ThereStays
  <2> QED
    BY <2>1, <2>2
<1>7. /\ Held(g, pin, index) /\ NoneRead(g) /\ \A k : HasKey(f, k) => HasKey(g, k)
      /\ g.pos = -1 /\ g.len = -1 /\ g.at = f.at
  <2>1. CASE pinned[t]
    <3>1. g = Counted(f, TrackBlocks[t][index[t]], -1)
      BY <2>1 DEF Block
    <3>2. Held(g, pin, index) /\ NoneRead(g) /\ Recounts(f, g)
      BY <1>2, <2>1, <3>1, UnlockIs
    <3> HIDE DEF g, pin
    <3>3. g.slots \in Slots
      BY <3>2, FileIs DEF Held
    <3>4. \A k : HasKey(f, k) => HasKey(g, k)
      BY <1>2, <3>2, <3>3, Recounted
    <3>5. g.pos = f.pos /\ g.len = f.len /\ g.at = f.at
      <4>1. g = [f EXCEPT !.slots = g.slots]
        BY <3>2 DEF Recounts
      <4> QED
        BY <1>2, <4>1 DEF AFile
    <3> QED
      BY <3>2, <3>4, <3>5
  <2>2. CASE ~pinned[t]
    <3>1. g = f /\ pin = pinned
      BY <1>2, <2>2
    <3> QED
      BY <3>1
  <2> QED
    BY <2>1, <2>2
<1>8. Held(g, pin, next)
  BY <1>4, <1>5, <1>7, PlacesIs
<1> HIDE DEF g, pin
<1>9. \A q \in PositionsOf(next) : q \in Nat /\ \E p \in PositionsOf(index) : p \in Nat /\ p <= q
  <2> SUFFICES ASSUME NEW u \in Tracks, next[u] \in DOMAIN TrackBlocks[u]
               PROVE  LET q == TrackBlocks[u][next[u]].cluster IN
                      q \in Nat /\ \E p \in PositionsOf(index) : p \in Nat /\ p <= q
    BY DEF PositionsOf
  <2>1. TrackBlocks[u][next[u]].cluster \in Nat
    BY <1>2, BlockIs
  <2>2. CASE u # t
    <3>1. TrackBlocks[u][next[u]].cluster \in PositionsOf(index)
      BY <1>4, <2>2 DEF PositionsOf
    <3> QED
      BY <2>1, <3>1
  <2>3. CASE u = t
    <3>1. next[t] = m + 1 /\ next[t] \in DOMAIN TrackBlocks[t] /\ index[t] > 0
      BY <1>2, <1>4, <2>3, BlockIs
    <3>2. index[t] \in 1 .. next[t]
      BY <1>2, <1>3, <3>1
    <3>3. TrackBlocks[t][index[t]].cluster <= TrackBlocks[t][next[t]].cluster
      BY <1>2, <3>1, <3>2, BlockIs
    <3>4. TrackBlocks[t][index[t]].cluster \in PositionsOf(index) /\ TrackBlocks[t][index[t]].cluster \in Nat
      BY <1>2, BlockIs DEF PositionsOf
    <3> QED
      BY <2>1, <2>3, <3>3, <3>4
  <2> QED
    BY <2>2, <2>3
<1>10. SerialFrom(g, next, g.at)
  <2> SUFFICES ASSUME NEW k \in Nat, NEW q \in PositionsOf(next), Aligned(k), KeyOf(q) <= k, k < f.at
               PROVE  HasKey(f, k)
    BY <1>7 DEF SerialFrom
  <2>1. PICK p \in PositionsOf(index) : p \in Nat /\ p <= q /\ q \in Nat
    BY <1>9
  <2>2. KeyOf(p) <= KeyOf(q) /\ KeyOf(p) \in Nat /\ KeyOf(q) \in Nat
    BY <2>1, KeyGrows, KeyIs
  <2>3. KeyOf(p) <= k
    BY <2>2
  <2> QED
    BY <2>1, <2>3 DEF SerialFrom
<1>11. /\ Held(file', pin, next) /\ NoneRead(file') /\ SerialFrom(file', next, file'.at)
       /\ file'.pos = -1 /\ file'.len = -1
  BY <1>1, <1>2, <1>7, <1>8, <1>10, PurgeIs
<1>12. io = "none" /\ ~down
  BY DEF AsyncInv, AsyncControl
<1>13. Held(file, pinned, index)'
  BY <1>1, <1>11, Primes
<1>14. AsyncTypes'
  <2>1. extent' \in [Tracks -> Nat]
    BY <1>1, <1>2
  <2>2. missed' \in BOOLEAN
    BY <1>6, <1>1 DEF AsyncInv, AsyncTypes
  <2> QED
    BY <1>1, <1>4, <1>5, <1>11, <2>1, <2>2 DEF AsyncInv, AsyncTypes, Held
<1>15. AsyncControl'
  BY <1>1, <1>12 DEF AsyncControl, InRead
<1>16. AsyncRange'
  BY <1>1, <1>11, <1>12, Primes DEF AsyncRange, InRead
<1>17. AsyncSerial'
  <2>1. \A q \in PositionsOf(next) : base <= q
    BY <1>2, <1>9 DEF AsyncInv, AsyncSerial
  <2> QED
    BY <1>1, <1>11, <2>1, Primes DEF AsyncSerial, PositionsOf
<1>18. AsyncExtents'
  <2>1. \A u \in Tracks : extent[u] > 0 => u = t
    BY DEF AsyncInv, AsyncExtents
  <2>2. \A u \in Tracks : ~(extent'[u] > 0)
    BY <1>1, <1>2, <2>1
  <2> QED
    BY <2>2 DEF AsyncExtents
<1>19. AsyncTarget'
  BY <1>1 DEF AsyncTarget
<1> QED
  BY <1>6, <1>13, <1>14, <1>15, <1>16, <1>17, <1>18, <1>19 DEF AsyncInv

LEMMA LoadSampleKeeps == ASSUME AsyncInv, LoadSample PROVE AsyncInv'
<1> DEFINE b == ToLoad(front)
<1>1. /\ worker = "load" /\ UNCHANGED <<total, base, down>>
      /\ \/ /\ MoreExtents(front) \/ ~pinned[front]
            /\ \E r \in AsyncReadInit(file, b) : Load(front, r)
         \/ ~MoreExtents(front) /\ pinned[front] /\ GetSample(front, file)
  BY DEF LoadSample
<1>2. /\ total \in FileSizes /\ total \in Nat /\ Held(file, pinned, index) /\ index \in [Tracks -> Nat]
      /\ io = "none" /\ ~down /\ NoneRead(file) /\ file.pos = -1 /\ file.len = -1
      /\ SerialFrom(file, index, file.at)
      /\ front \in Tracks /\ index[front] \in DOMAIN TrackBlocks[front]
  BY <1>1, ReaderAssumption DEF AsyncInv, AsyncTypes, AsyncControl, AsyncRange, AsyncSerial, InRead
<1>3. \A u \in Tracks : extent[u] > 0 => u = front
  BY DEF AsyncInv, AsyncExtents
<1>4. CASE ~MoreExtents(front) /\ pinned[front] /\ GetSample(front, file)
  <2>1. AllThere(file, Block(front))
    BY <1>2, <1>4 DEF Held, PinsThere, Block
  <2>2. Keeps(file, file)
    BY DEF Keeps
  <2> QED
    BY <1>1, <1>2, <1>4, <2>1, <2>2, GetSampleKeeps
<1>5. CASE /\ MoreExtents(front) \/ ~pinned[front]
           /\ \E r \in AsyncReadInit(file, b) : Load(front, r)
  <2>1. PICK r \in AsyncReadInit(file, b) : Load(front, r)
    BY <1>5
  <2>2. /\ b.start \in Nat /\ b.size \in Nat /\ b.size > 0 /\ BlockEnd(b) \in Nat
        /\ b.start < BlockEnd(b) /\ BlockEnd(b) <= total /\ b.start <= total
    BY <1>2, ToLoadIs
  <2> HIDE DEF b
  <2>3. PICK p \in Nat, e \in Nat : /\ Outcome(file, r, pinned, index, p, e)
                                    /\ p <= b.start /\ e = BlockEnd(b)
    BY <1>2, <2>1, <2>2, InitIs
  <2>4. /\ Held(r.file, pinned, index) /\ Keeps(file, r.file) /\ SerialFrom(r.file, index, r.file.at)
    BY <2>3 DEF Outcome
  <2>5. \A k : k \in KeysOf(b.start, BlockEnd(b)) => k \in KeysOf(p, e)
    BY <2>2, <2>3, KeysLater
  <2>6. ASSUME r.hr = "ok"
        PROVE  NoneRead(r.file) /\ r.file.pos = -1 /\ r.file.len = -1 /\ AllThere(r.file, b)
    <3>1. NoneRead(r.file) /\ r.file.pos = -1 /\ r.file.len = -1 /\ \A k \in KeysOf(p, e) : HasKey(r.file, k)
      BY <2>3, <2>6 DEF Outcome
    <3>2. \A k \in KeysOf(b.start, BlockEnd(b)) : HasKey(r.file, k)
      BY <2>5, <3>1
    <3>3. r.file \in AFile /\ HeldPages(r.file)
      BY <2>4 DEF Held
    <3> QED
      BY <1>2, <2>2, <3>1, <3>2, <3>3, AllRead
  <2>7. CASE /\ r.hr = "ok" /\ MoreExtents(front)
             /\ file' = r.file /\ extent' = [extent EXCEPT ![front] = @ + 1]
             /\ UNCHANGED <<index, pinned, front, thread, missed>>
    <3>1. UNCHANGED <<index, pinned, front, worker, goal, io, missed>>
      BY <2>7 DEF thread
    <3>2. AsyncExtents' /\ extent' \in [Tracks -> Nat]
      BY <1>1, <1>2, <2>4, <2>6, <2>7, <3>1, ExtentsGrow DEF b
    <3>3. Held(file, pinned, index)'
      BY <1>1, <2>4, <2>7, <3>1, Primes
    <3>4. AsyncTypes'
      BY <1>1, <2>4, <2>7, <3>1, <3>2 DEF AsyncInv, AsyncTypes, Held
    <3>5. AsyncControl'
      BY <1>1, <1>2, <3>1 DEF AsyncControl, InRead
    <3>6. AsyncRange'
      BY <1>1, <1>2, <2>6, <2>7, <3>1, Primes DEF AsyncRange, InRead
    <3>7. AsyncSerial'
      BY <1>1, <2>4, <2>7, <3>1, Primes DEF AsyncInv, AsyncSerial, PositionsOf
    <3>8. AsyncTarget'
      BY <1>1, <3>1 DEF AsyncTarget
    <3> QED
      BY <3>1, <3>2, <3>3, <3>4, <3>5, <3>6, <3>7, <3>8 DEF AsyncInv
  <2>8. CASE r.hr = "ok" /\ ~MoreExtents(front) /\ GetSample(front, r.file)
    <3>1. AllThere(r.file, Block(front))
      BY <2>6, <2>8 DEF b, ToLoad
    <3> QED
      BY <1>1, <1>2, <2>4, <2>6, <2>8, <3>1, GetSampleKeeps
  <2>9. CASE r.hr = "more" /\ Reading(r.file, IF MoreExtents(front) THEN "extent" ELSE "lock")
             /\ UNCHANGED <<places, missed>>
    <3> DEFINE what == IF MoreExtents(front) THEN "extent" ELSE "lock"
    <3>1. UNCHANGED <<index, pinned, extent, front, missed>>
      BY <2>9 DEF places
    <3>2. \A k \in KeysOf(p, e) : k < KeyOf(r.file.pos) => HasKey(r.file, k)
      BY <2>3, <2>9 DEF Outcome
    <3>3. \A k \in KeysOf(b.start, e) : k < KeyOf(r.file.pos) => HasKey(r.file, k)
      BY <2>3, <2>5, <3>2
    <3>4. Reading(r.file, what)
      BY <2>9
    <3>5. what \in {"ahead", "parse", "extent", "lock"} /\ what = (IF MoreExtents(front) THEN "extent" ELSE "lock")
      OBVIOUS
    <3> HIDE DEF what
    <3>6. e = BlockEnd(ToLoad(front)) /\ \A k \in KeysOf(ToLoad(front).start, e) : k < KeyOf(r.file.pos) => HasKey(r.file, k)
      BY <2>3, <3>3 DEF b
    <3>7. front' = front /\ front' \in Tracks \cup {NoTrack} /\ \A u \in Tracks : extent[u] > 0 => u = front'
      BY <1>2, <1>3, <3>1
    <3> QED
      BY <1>1, <1>2, <1>5, <2>3, <2>9, <3>1, <3>4, <3>5, <3>6, <3>7, ReadingKeeps
  <2>10. CASE r.hr = "fail" /\ Quit(r.file) /\ UNCHANGED <<places, missed>>
    <3>1. UNCHANGED <<index, pinned, extent, front, missed>>
      BY <2>10 DEF places
    <3>2. NoneRead(r.file)
      BY <2>3, <2>10 DEF Outcome
    <3>3. front' \in Tracks \cup {NoTrack} /\ \A u \in Tracks : extent[u] > 0 => u = front'
      BY <1>2, <1>3, <3>1
    <3>4. io \notin InRead
      BY <1>2 DEF InRead
    <3> QED
      BY <1>1, <2>4, <2>10, <3>1, <3>2, <3>3, <3>4, QuitKeeps
  <2> QED
    BY <2>1, <2>7, <2>8, <2>9, <2>10 DEF Load
<1> QED
  BY <1>1, <1>4, <1>5

(* All that was asked for is in the cache.                                 *)
LEMMA ContinuesKeeps ==
  ASSUME AsyncInv, worker = "read", ~down, NEW f, Held(f, pinned, index), NoneRead(f), f.pos = -1, f.len = -1,
         Keeps(file, f), SerialFrom(f, index, f.at),
         goal \in {"extent", "lock"} => AllThere(f, ToLoad(front)),
         Continues(f), UNCHANGED <<total, base, down>>
  PROVE  AsyncInv'
<1>1. worker' = "request" /\ io' = "none" /\ goal' = goal
  BY DEF Continues
<1>2. \A u \in Tracks : extent[u] > 0 => u = front
  BY DEF AsyncInv, AsyncExtents
<1>3. AsyncControl' /\ AsyncTarget'
  BY <1>1 DEF AsyncControl, AsyncTarget, InRead
<1>4. CASE goal \in {"ahead", "parse"} /\ file' = f /\ UNCHANGED <<places, missed>>
  <2>1. UNCHANGED <<index, pinned, extent, front, missed>>
    BY <1>4 DEF places
  <2>2. Held(file, pinned, index)'
    BY <1>4, <2>1, Primes
  <2>3. AsyncTypes'
    BY <1>1, <1>4, <2>1 DEF AsyncInv, AsyncTypes, Held
  <2>4. AsyncRange'
    BY <1>1, <1>4, Primes DEF AsyncRange, InRead
  <2>5. AsyncSerial'
    BY <1>4, <2>1, Primes DEF AsyncInv, AsyncSerial, PositionsOf
  <2>6. AsyncExtents'
    BY <1>2, <1>4, <2>1, ExtentsStay
  <2> QED
    BY <1>3, <2>1, <2>2, <2>3, <2>4, <2>5, <2>6 DEF AsyncInv
<1>5. CASE /\ goal = "extent" /\ file' = f
           /\ extent' = [extent EXCEPT ![front] = @ + 1]
           /\ UNCHANGED <<index, pinned, front, missed>>
  <2>1. front \in Tracks /\ index[front] \in DOMAIN TrackBlocks[front] /\ MoreExtents(front)
    BY <1>5 DEF AsyncInv, AsyncTarget
  <2>2. AsyncExtents' /\ extent' \in [Tracks -> Nat]
    BY <1>5, <2>1, ExtentsGrow
  <2>3. Held(file, pinned, index)'
    BY <1>5, Primes
  <2>4. AsyncTypes'
    BY <1>1, <1>5, <2>2 DEF AsyncInv, AsyncTypes, Held
  <2>5. AsyncRange'
    BY <1>1, <1>5, Primes DEF AsyncRange, InRead
  <2>6. AsyncSerial'
    BY <1>5, Primes DEF AsyncInv, AsyncSerial, PositionsOf
  <2> QED
    BY <1>3, <1>5, <2>2, <2>3, <2>4, <2>5, <2>6 DEF AsyncInv
<1>6. CASE /\ goal = "lock"
           /\ IF AllThere(f, Block(front))
              THEN /\ file' = Counted(f, Block(front), 1)
                   /\ pinned' = [pinned EXCEPT ![front] = TRUE]
                   /\ UNCHANGED missed
              ELSE file' = f /\ missed' = TRUE /\ UNCHANGED pinned
           /\ UNCHANGED <<index, extent, front>>
  <2>1. front \in Tracks /\ index[front] \in DOMAIN TrackBlocks[front] /\ ~MoreExtents(front) /\ ~pinned[front]
    BY <1>6 DEF AsyncInv, AsyncTarget
  <2>2. AllThere(f, Block(front))
    BY <1>6, <2>1 DEF ToLoad
  <2>3. file' = Counted(f, TrackBlocks[front][index[front]], 1) /\ pinned' = [pinned EXCEPT ![front] = TRUE] /\ missed' = missed
    BY <1>6, <2>2 DEF Block
  <2>4. total \in FileSizes /\ total \in Nat /\ f \in AFile /\ HeldPages(f) /\ pinned \in [Tracks -> BOOLEAN]
    BY ReaderAssumption DEF AsyncInv, AsyncTypes, Held
  <2>5. Held(file', pinned', index) /\ NoneRead(file') /\ Recounts(f, file')
    BY <2>1, <2>2, <2>3, <2>4, LockIs DEF Block
  <2>6. file' \in AFile /\ file'.slots \in Slots
    BY <2>5, FileIs DEF Held
  <2>7. file'.pos = -1 /\ file'.len = -1 /\ file'.at = f.at
    <3>1. file' = [f EXCEPT !.slots = file'.slots]
      BY <2>5 DEF Recounts
    <3> QED
      BY <2>4, <3>1 DEF AFile
  <2>8. Keeps(f, file') /\ \A k : HasKey(file', k) <=> HasKey(f, k)
    BY <2>4, <2>5, <2>6, Recounted
  <2>9. Keeps(file, file')
    BY <2>8 DEF Keeps
  <2>10. Held(file, pinned, index)'
    BY <1>6, <2>5, Primes
  <2>11. AsyncTypes'
    BY <1>1, <1>6, <2>3, <2>4, <2>6 DEF AsyncInv, AsyncTypes
  <2>12. AsyncRange'
    BY <1>1, <2>5, <2>7, Primes DEF AsyncRange, InRead
  <2>13. AsyncSerial'
    <3>1. SerialFrom(file', index, file'.at)
      BY <2>7, <2>8 DEF SerialFrom
    <3> QED
      BY <1>6, <3>1, Primes DEF AsyncInv, AsyncSerial, PositionsOf
  <2>14. AsyncExtents'
    BY <1>2, <1>6, <2>9, ExtentsStay
  <2> QED
    BY <1>3, <2>3, <2>10, <2>11, <2>12, <2>13, <2>14 DEF AsyncInv
<1> QED
  BY <1>4, <1>5, <1>6 DEF Continues

LEMMA OnAsyncReadKeeps == ASSUME AsyncInv, OnAsyncRead PROVE AsyncInv'
<1>1. /\ worker = "read" /\ io \in {"ok", "more", "fail"} /\ UNCHANGED <<total, base, down>>
  BY DEF OnAsyncRead
<1>2. /\ total \in FileSizes /\ total \in Nat /\ Held(file, pinned, index) /\ index \in [Tracks -> Nat]
      /\ NoneRead(file) /\ SerialFrom(file, index, file.at) /\ io \notin InRead /\ front \in Tracks \cup {NoTrack}
      /\ goal \in {"ahead", "parse", "extent", "lock"}
  BY <1>1, ReaderAssumption DEF AsyncInv, AsyncTypes, AsyncRange, AsyncSerial, InRead
<1>3. Keeps(file, file)
  BY DEF Keeps
<1>4. \A u \in Tracks : extent[u] > 0 => u = front
  BY DEF AsyncInv, AsyncExtents
<1>5. CASE down /\ worker' = "request" /\ UNCHANGED <<file, places, goal, io, missed>>
  <2>1. UNCHANGED <<file, index, pinned, extent, front, goal, io, missed>> /\ worker' = "request" /\ down
    BY <1>5 DEF places
  <2>2. Held(file, pinned, index)'
    BY <1>1, <1>2, <2>1, Primes
  <2>3. AsyncTypes'
    BY <1>1, <2>1 DEF AsyncInv, AsyncTypes
  <2>4. AsyncControl'
    BY <1>1, <1>2, <2>1 DEF AsyncControl, InRead
  <2>5. AsyncRange'
    BY <1>1, <2>1, Primes DEF AsyncInv, AsyncRange, InRead
  <2>6. AsyncSerial'
    BY <1>1, <2>1, Primes DEF AsyncInv, AsyncSerial, PositionsOf
  <2>7. AsyncExtents'
    BY <1>1, <1>3, <1>4, <2>1, ExtentsStay
  <2>8. AsyncTarget'
    BY <2>1 DEF AsyncTarget
  <2> QED
    BY <2>1, <2>2, <2>3, <2>4, <2>5, <2>6, <2>7, <2>8 DEF AsyncInv
<1>6. CASE ~down /\ io = "fail" /\ Quit(file) /\ UNCHANGED <<places, missed>>
  <2>1. UNCHANGED <<index, pinned, extent, front, missed>>
    BY <1>6 DEF places
  <2>2. front' \in Tracks \cup {NoTrack} /\ \A u \in Tracks : extent[u] > 0 => u = front'
    BY <1>2, <1>4, <2>1
  <2> QED
    BY <1>1, <1>2, <1>3, <1>6, <2>1, <2>2, QuitKeeps
<1>7. CASE ~down /\ io = "ok" /\ Continues(file)
  <2>1. file.pos = -1 /\ file.len = -1
    BY <1>1, <1>7 DEF AsyncInv, AsyncRange, InRead
  <2>2. goal \in {"extent", "lock"} => AllThere(file, ToLoad(front))
    BY <1>1, <1>7 DEF AsyncInv, AsyncTarget
  <2> QED
    BY <1>1, <1>2, <1>3, <1>7, <2>1, <2>2, ContinuesKeeps
<1>8. CASE /\ ~down /\ io = "more"
           /\ \E r \in AsyncReadContinue(file) :
                \/ r.hr = "ok" /\ Continues(r.file)
                \/ r.hr = "more" /\ Reading(r.file, goal) /\ UNCHANGED <<places, missed>>
                \/ r.hr = "fail" /\ Quit(r.file) /\ UNCHANGED <<places, missed>>
  <2>1. PICK r \in AsyncReadContinue(file) :
          \/ r.hr = "ok" /\ Continues(r.file)
          \/ r.hr = "more" /\ Reading(r.file, goal) /\ UNCHANGED <<places, missed>>
          \/ r.hr = "fail" /\ Quit(r.file) /\ UNCHANGED <<places, missed>>
    BY <1>8
  <2>2. RangeIs(file) /\ file.pos <= file.at
    BY <1>1, <1>8 DEF AsyncInv, AsyncRange, InRead
  <2> DEFINE p == file.pos
             e == file.pos + file.len
  <2>3. p \in Nat /\ e \in Nat /\ p < e
    BY <2>2 DEF RangeIs
  <2>4. Outcome(file, r, pinned, index, p, e)
    BY <1>2, <2>2, ContinueIs
  <2>5. goal \in {"extent", "lock"} =>
           /\ front \in Tracks /\ index[front] \in DOMAIN TrackBlocks[front]
           /\ goal = (IF MoreExtents(front) THEN "extent" ELSE "lock")
           /\ MoreExtents(front) \/ ~pinned[front]
           /\ e = BlockEnd(ToLoad(front))
           /\ \A k \in KeysOf(ToLoad(front).start, BlockEnd(ToLoad(front))) : k < KeyOf(p) => HasKey(file, k)
    BY <1>1, <1>8 DEF AsyncInv, AsyncTarget
  <2> HIDE DEF p, e
  <2>6. /\ Held(r.file, pinned, index) /\ Keeps(file, r.file) /\ SerialFrom(r.file, index, r.file.at)
        /\ \A k : HasKey(file, k) => HasKey(r.file, k)
    BY <2>4 DEF Outcome
  <2>7. ASSUME goal \in {"extent", "lock"}
        PROVE  LET b == ToLoad(front) IN
               /\ b.start \in Nat /\ BlockEnd(b) \in Nat /\ b.start < BlockEnd(b) /\ BlockEnd(b) <= total
               /\ e = BlockEnd(b)
               /\ \A k \in KeysOf(b.start, e) : HasKey(r.file, k) \/ k \in KeysOf(p, e)
    <3> DEFINE b == ToLoad(front)
    <3>1. /\ b.start \in Nat /\ BlockEnd(b) \in Nat /\ b.start < BlockEnd(b) /\ BlockEnd(b) <= total
      BY <1>2, <2>5, <2>7, ToLoadIs
    <3>2. e = BlockEnd(b) /\ \A k \in KeysOf(b.start, e) : k < KeyOf(p) => HasKey(file, k)
      BY <2>5, <2>7
    <3> HIDE DEF b
    <3>3. ASSUME NEW k \in KeysOf(b.start, e), ~HasKey(r.file, k) PROVE k \in KeysOf(p, e)
      <4>1. Aligned(k) /\ k \in Nat /\ k < e
        BY <3>1, <3>2, KeysAre DEF Aligned
      <4>2. ~(k < KeyOf(p))
        BY <2>6, <3>2, <3>3
      <4>3. KeyOf(p) <= k
        BY <2>3, <4>1, <4>2, KeyIs
      <4> QED
        BY <2>3, <4>1, <4>3, KeysAre
    <3> QED
      BY <3>1, <3>2, <3>3 DEF b
  <2>8. CASE r.hr = "ok" /\ Continues(r.file)
    <3>1. NoneRead(r.file) /\ r.file.pos = -1 /\ r.file.len = -1 /\ \A k \in KeysOf(p, e) : HasKey(r.file, k)
      BY <2>4, <2>8 DEF Outcome
    <3>2. ASSUME goal \in {"extent", "lock"} PROVE AllThere(r.file, ToLoad(front))
      <4> DEFINE b == ToLoad(front)
      <4>1. /\ b.start \in Nat /\ BlockEnd(b) \in Nat /\ b.start < BlockEnd(b) /\ BlockEnd(b) <= total
            /\ \A k \in KeysOf(b.start, BlockEnd(b)) : HasKey(r.file, k)
        BY <2>7, <3>1, <3>2
      <4> HIDE DEF b
      <4>2. r.file \in AFile /\ HeldPages(r.file)
        BY <2>6 DEF Held
      <4>3. AllThere(r.file, b)
        BY <1>2, <3>1, <4>1, <4>2, AllRead
      <4> QED
        BY <4>3 DEF b
    <3> QED
      BY <1>1, <1>8, <2>6, <2>8, <3>1, <3>2, ContinuesKeeps
  <2>9. CASE r.hr = "more" /\ Reading(r.file, goal) /\ UNCHANGED <<places, missed>>
    <3>1. UNCHANGED <<index, pinned, extent, front, missed>>
      BY <2>9 DEF places
    <3>2. front' \in Tracks \cup {NoTrack} /\ \A u \in Tracks : extent[u] > 0 => u = front'
      BY <1>2, <1>4, <3>1
    <3>3. \A k \in KeysOf(p, e) : k < KeyOf(r.file.pos) => HasKey(r.file, k)
      BY <2>4, <2>9 DEF Outcome
    <3>4. goal \in {"extent", "lock"} =>
            \A k \in KeysOf(ToLoad(front).start, e) : k < KeyOf(r.file.pos) => HasKey(r.file, k)
      BY <2>7, <3>3
    <3> QED
      BY <1>1, <1>2, <1>8, <2>4, <2>5, <2>9, <3>1, <3>2, <3>4, ReadingKeeps
  <2>10. CASE r.hr = "fail" /\ Quit(r.file) /\ UNCHANGED <<places, missed>>
    <3>1. UNCHANGED <<index, pinned, extent, front, missed>>
      BY <2>10 DEF places
    <3>2. front' \in Tracks \cup {NoTrack} /\ \A u \in Tracks : extent[u] > 0 => u = front'
      BY <1>2, <1>4, <3>1
    <3>3. NoneRead(r.file)
      BY <2>4, <2>10 DEF Outcome
    <3> QED
      BY <1>1, <1>2, <2>6, <2>10, <3>1, <3>2, <3>3, QuitKeeps
  <2> QED
    BY <2>1, <2>8, <2>9, <2>10
<1> QED
  BY <1>5, <1>6, <1>7, <1>8 DEF OnAsyncRead

-----------------------------------------------------------------------------
(* AsyncInv is kept by every step, and says that the reader is sound.          *)
LEMMA AsyncInvIsKept == ASSUME AsyncInv, [ReaderNext]_readerVars PROVE AsyncInv'
<1>1. CASE UNCHANGED readerVars
  BY <1>1, StutterKeeps
<1>2. CASE \E r \in Peeks, t \in Tracks \cup {NoTrack} : Parse(r, t)
  BY <1>2, ParseKeeps
<1>3. CASE \E t \in Tracks : OnRequestSample(t)
  BY <1>3, OnRequestSampleKeeps
<1>4. CASE LoadSample
  BY <1>4, LoadSampleKeeps
<1>5. CASE DropRequest
  BY <1>5, DropRequestKeeps
<1>6. CASE Invoke
  BY <1>6, InvokeKeeps
<1>7. CASE OnAsyncRead
  BY <1>7, OnAsyncReadKeeps
<1>8. CASE Interrupt
  BY <1>8, InterruptKeeps
<1>9. CASE Cancelled
  BY <1>9, CancelledKeeps
<1>10. CASE \E c \in ClusterStarts : OnStart(c)
  BY <1>10, OnStartKeeps
<1>11. CASE OnStop
  BY <1>11, OnStopKeeps
<1>12. CASE Shutdown
  BY <1>12, ShutdownKeeps
<1>13. CASE WorkerEnds
  BY <1>13, WorkerEndsKeeps
<1> QED
  BY <1>1, <1>2, <1>3, <1>4, <1>5, <1>6, <1>7, <1>8, <1>9, <1>10, <1>11, <1>12, <1>13 DEF ReaderNext

(* What the invariant is for.                                              *)
LEMMA SoundOfInv == ASSUME AsyncInv PROVE ReaderSound
<1>1. /\ total \in FileSizes /\ total \in Nat /\ file \in AFile /\ HeldPages(file) /\ Held(file, pinned, index)
      /\ file.at \in Nat /\ base \in Nat
  BY ReaderAssumption, FileIs DEF AsyncInv, AsyncTypes, Held
<1>2. ReaderTypes
  BY <1>1 DEF AsyncInv, AsyncTypes, ReaderTypes, HeldPages
<1>3. PagesHeld
  <2>1. /\ file.free \cup file.cache = Pages /\ file.free \cap file.cache = {}
        /\ \A i \in file.cache : file.slots[i].at >= 0
        /\ Cardinality(Pages) < Cardinality(KeysOf(0, total + 1)) + RegionPages
    BY <1>1 DEF HeldPages, HeldApart, FewPages, Pages
  <2>2. ASSUME NEW i \in Pages, NEW j \in Pages, file.slots[i].at = file.slots[j].at
        PROVE  i = j \/ file.slots[i] = Blank
    <3>1. file.slots[i].at \in Int /\ (file.slots[i].at < 0 => file.slots[i] = Blank)
      BY <1>1, PageIs DEF Pages
    <3>2. file.slots[i].at >= 0 => i = j
      BY <1>1, <2>2, PageOnce DEF Pages
    <3> QED
      BY <3>1, <3>2
  <2>3. ASSUME NEW i \in Pages, file.slots[i].at >= 0, file.slots[i].ref >= 0
        PROVE  LET s == file.slots[i] IN
               s.at = KeyOf(s.at) /\ s.size = Least({PageBytes, total - s.at}) /\ s.size > 0
    BY <1>1, <2>3 DEF HeldPages, RightPage, Aligned, Pages
  <2> QED
    BY <2>1, <2>2, <2>3 DEF PagesHeld
<1>4. OneRead
  <2>1. \A i \in Pages : file.slots[i].ref \in Int
    BY <1>1, PageIs DEF Pages
  <2>2. CASE io \in InRead
    <3>1. PICK i \in file.cache : Busy(file, i)
      BY <2>2 DEF AsyncInv, AsyncRange
    <3>2. worker \in {"read", "cancel"} /\ RangeIs(file)
      BY <2>2 DEF AsyncInv, AsyncControl, AsyncRange, InRead
    <3>3. file.pos \in Nat /\ file.len \in Nat \ {0}
      BY <3>2 DEF RangeIs
    <3>4. /\ i \in Pages /\ file.slots[i].at = KeyOf(file.pos) /\ file.slots[i].ref = -1 /\ KeyOf(file.pos) \in Nat
          /\ \A j \in Pages : j # i => file.slots[j].ref >= 0
      BY <1>1, <3>1, <3>3, BusyIs DEF Pages
    <3>5. {j \in Pages : file.slots[j].ref < 0} = {i}
      BY <2>1, <3>4
    <3>6. {j \in file.cache : file.slots[j].at = KeyOf(file.pos)} = {i}
      <4>1. ASSUME NEW j \in file.cache, file.slots[j].at = KeyOf(file.pos) PROVE j = i
        <5>1. j \in DOMAIN file.slots /\ file.slots[j].at >= 0
          BY <1>1, CachedIs
        <5> QED
          BY <1>1, <3>4, <4>1, <5>1, PageOnce DEF Pages
      <4> QED
        BY <3>1, <3>4, <4>1
    <3> QED
      BY <2>2, <3>2, <3>3, <3>4, <3>5, <3>6 DEF OneRead, InRead
  <2>3. CASE io \notin InRead
    <3>1. {j \in Pages : file.slots[j].ref < 0} = {}
      BY <2>1, <2>3 DEF AsyncInv, AsyncRange, NoneRead, Pages
    <3>2. worker # "quit" => (file.pos >= 0 /\ file.len > 0 <=> io = "more")
      BY <2>3 DEF AsyncInv, AsyncRange, RangeIs
    <3>3. worker \in {"request", "load"} /\ ~down => io = "none"
      BY DEF AsyncInv, AsyncControl
    <3> QED
      BY <2>3, <3>1, <3>2, <3>3 DEF OneRead, InRead
  <2> QED
    BY <2>2, <2>3
<1>5. LocksCounted
  BY <1>1 DEF Held, RefsAre, PinsThere, LockersOf, LocksCounted, Pages, Block
<1>6. ReadSerially
  <2> SUFFICES ASSUME PositionsOf(index) # {},
                      NEW k \in KeysOf(Greatest({base, Least(PositionsOf(index))}), file.at)
               PROVE  HasKey(file, k)
    BY DEF ReadSerially, HasKey
  <2> DEFINE p == Least(PositionsOf(index))
  <2>1. PositionsOf(index) \subseteq Nat
    BY <1>1, BlockIs DEF PositionsOf
  <2>2. p \in PositionsOf(index) /\ p \in Nat /\ base <= p
    BY <2>1, LeastIs DEF AsyncInv, AsyncSerial
  <2> HIDE DEF p
  <2>3. Greatest({base, p}) = p
    BY <1>1, <2>2, MoreOfTwo
  <2>4. k \in KeysOf(p, file.at)
    BY <2>3 DEF p
  <2>5. p < file.at
    <3>1. PICK x \in p .. file.at - 1 : TRUE
      BY <2>4 DEF KeysOf
    <3> QED
      BY <1>1, <2>2, <3>1
  <2>6. Aligned(k) /\ KeyOf(p) <= k /\ k < file.at
    BY <1>1, <2>2, <2>4, <2>5, KeysAre
  <2> QED
    BY <2>2, <2>6 DEF AsyncInv, AsyncSerial, SerialFrom, Aligned
<1> QED
  BY <1>2, <1>3, <1>4, <1>5, <1>6 DEF ReaderSound, AsyncInv

(* What MkvReader of mkvreader.cc and the worker thread keep true: every   *)
(* page holds what the file has at its place or is the one being read, the *)
(* counts are the locks of the streams, the range asked for is the rest of *)
(* the request, and all before the position of the byte stream that a      *)
(* stream still needs is cached.                                           *)
THEOREM AsyncInvariance == ReaderSpec => []AsyncInv
<1>1. ReaderInit => AsyncInv
  BY InitKeeps
<1>2. AsyncInv /\ [ReaderNext]_readerVars => AsyncInv'
  BY AsyncInvIsKept
<1> QED
  BY <1>1, <1>2, PTL DEF ReaderSpec

(* The reader is sound, for any streams, blocks, sizes and file: whatever  *)
(* seeks, stops, interrupted, short and failed reads there are, no page is *)
(* lost or held twice, one page is read at a time, the counts are right,   *)
(* the file is read serially (the assert in AsyncReadPage) and LockPage    *)
(* and Read find all they want ("should never happen" in LockCurrBlock).   *)
THEOREM ReaderAlwaysSound == ReaderSpec => []ReaderSound
<1>1. AsyncInv => ReaderSound
  BY SoundOfInv
<1> QED
  BY <1>1, AsyncInvariance, PTL
=============================================================================
