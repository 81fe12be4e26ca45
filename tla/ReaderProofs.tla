---------------------------- MODULE ReaderProofs ----------------------------
(***************************************************************************)
(* Proofs about the page cache of the splitter, for any streams, blocks,   *)
(* sizes and numbers of pages.                                             *)
(***************************************************************************)
EXTENDS MkvReader, SequenceTheorems, FiniteSetTheorems, WellFoundedInduction, TLAPS

\* the pages made so far
Made == 1 .. NPages * connects

(* The values of the variables that say where the pages are.               *)
PageTypes ==
  /\ pages \subseteq Made /\ connects \in 0 .. MaxConnects
  /\ pos \in [AllPages -> Int] /\ cRef \in [AllPages -> Int]
  /\ freePages \subseteq [key : Int, page : Made]
  /\ cache \in Seq(Made)
  /\ owned \in Made \cup {NoPage}
  /\ op \in {"none", "read", "lock"}
  /\ next \in Nat \ {0} /\ cur \in Int /\ len \in Int

(* Each page of the reader has one place, and no place is given twice.     *)
PlaceInv ==
  /\ \A i, j \in 1 .. Len(cache) : cache[i] = cache[j] => i = j
  /\ \A e, f \in freePages : e.page = f.page => e = f
  /\ \A e \in freePages : ~Cached(e.page) /\ e.page # owned
  /\ ~Cached(owned)
  /\ \A p \in pages : Free(p) \/ Cached(p) \/ owned = p

(* Only cached pages are locked.                                           *)
CountInv == \A p \in AllPages : cRef[p] > 0 => Cached(p)

\* the iterator of the call in progress
NextInv == op # "none" => next <= Len(cache) + 1 /\ pages # {}

CacheInv == PageTypes /\ PlaceInv /\ CountInv /\ NextInv

-----------------------------------------------------------------------------
(* Inserting into a sequence, and removing from it.                        *)
Inserted(r, q, n, e) ==
  /\ Len(r) = Len(q) + 1
  /\ \A i \in 1 .. Len(q) + 1 : r[i] = IF i < n THEN q[i] ELSE IF i = n THEN e ELSE q[i - 1]

Removed(r, q, n) ==
  /\ Len(r) = Len(q) - 1
  /\ \A i \in 1 .. Len(q) - 1 : r[i] = IF i < n THEN q[i] ELSE q[i + 1]

LEMMA InsertAtIs ==
  ASSUME NEW S, NEW q \in Seq(S), NEW n \in 1 .. Len(q) + 1, NEW e \in S
  PROVE  /\ InsertAt(q, n, e) \in Seq(S)
         /\ Len(InsertAt(q, n, e)) = Len(q) + 1
         /\ Inserted(InsertAt(q, n, e), q, n, e)
<1> DEFINE A == SubSeq(q, 1, n - 1)
           B == SubSeq(q, n, Len(q))
<1>1. Len(q) \in Nat /\ n \in Nat /\ n >= 1 /\ n <= Len(q) + 1 /\ \A i \in 1 .. Len(q) : q[i] \in S
  BY LenProperties, ElementOfSeq
<1>2. A \in Seq(S) /\ Len(A) = n - 1 /\ \A i \in 1 .. n - 1 : A[i] = q[i]
  <2>1. \A i \in 1 .. n - 1 : q[i] \in S
    BY <1>1
  <2> QED
    BY <1>1, <2>1, SubSeqProperties
<1>3. B \in Seq(S) /\ Len(B) = Len(q) - n + 1 /\ \A i \in 1 .. Len(q) - n + 1 : B[i] = q[n + i - 1]
  <2>1. \A i \in n .. Len(q) : q[i] \in S
    BY <1>1
  <2> QED
    BY <1>1, <2>1, SubSeqProperties
<1> HIDE DEF A, B
<1>4. <<e>> \in Seq(S) /\ Len(<<e>>) = 1 /\ <<e>>[1] = e
  OBVIOUS
<1>5. /\ A \o <<e>> \in Seq(S) /\ Len(A \o <<e>>) = n
      /\ \A i \in 1 .. n : (A \o <<e>>)[i] = IF i <= n - 1 THEN A[i] ELSE <<e>>[i - (n - 1)]
  <2>1. /\ A \o <<e>> \in Seq(S) /\ Len(A \o <<e>>) = Len(A) + Len(<<e>>)
        /\ \A i \in 1 .. Len(A) + Len(<<e>>) :
             (A \o <<e>>)[i] = IF i <= Len(A) THEN A[i] ELSE <<e>>[i - Len(A)]
    BY <1>2, <1>4, ConcatProperties
  <2>2. Len(A) + Len(<<e>>) = n
    BY ONLY <1>1, <1>2, <1>4
  <2> QED
    BY <2>1, <2>2, <1>2
<1> DEFINE C == A \o <<e>>
<1>6. /\ C \in Seq(S) /\ Len(C) = n
      /\ \A i \in 1 .. n : C[i] = IF i < n THEN q[i] ELSE e
  <2>1. \A i \in 1 .. n : C[i] = IF i < n THEN q[i] ELSE e
    <3> SUFFICES ASSUME NEW i \in 1 .. n PROVE C[i] = IF i < n THEN q[i] ELSE e
      OBVIOUS
    <3>1. CASE i < n
      <4>1. i <= n - 1 /\ i \in 1 .. n - 1
        BY <1>1, <3>1
      <4> QED
        BY <1>2, <1>5, <3>1, <4>1
    <3>2. CASE i = n
      <4>1. ~(i <= n - 1) /\ i - (n - 1) = 1
        BY <1>1, <3>2
      <4> QED
        BY <1>4, <1>5, <3>2, <4>1, SMTT(30)
    <3>3. i < n \/ i = n
      BY ONLY <1>1, i \in 1 .. n
    <3> QED
      BY <3>1, <3>2, <3>3
  <2> QED
    BY <1>5, <2>1
<1> HIDE DEF C
<1>7. InsertAt(q, n, e) = C \o B
  BY DEF InsertAt, A, B, C
<1>8. /\ C \o B \in Seq(S) /\ Len(C \o B) = Len(C) + Len(B)
      /\ \A i \in 1 .. Len(C) + Len(B) :
           (C \o B)[i] = IF i <= Len(C) THEN C[i] ELSE B[i - Len(C)]
  BY <1>3, <1>6, ConcatProperties
<1>9. Len(C) + Len(B) = Len(q) + 1
  BY ONLY <1>1, <1>3, <1>6
<1>10. ASSUME NEW i \in 1 .. Len(q) + 1
       PROVE  (C \o B)[i] = IF i < n THEN q[i] ELSE IF i = n THEN e ELSE q[i - 1]
  <2>1. CASE i <= n
    <3>1. (C \o B)[i] = C[i] /\ i \in 1 .. n
      BY <1>1, <1>6, <1>8, <1>9, <2>1
    <3> QED
      BY <1>1, <1>6, <2>1, <3>1
  <2>2. CASE i > n
    <3>1. i - n \in 1 .. Len(q) - n + 1 /\ n + (i - n) - 1 = i - 1 /\ ~(i <= n)
      BY <1>1, <2>2
    <3>2. (C \o B)[i] = B[i - n]
      BY <1>6, <1>8, <1>9, <3>1
    <3> QED
      BY <1>1, <1>3, <2>2, <3>1, <3>2
  <2>3. i <= n \/ i > n
    BY ONLY <1>1, i \in 1 .. Len(q) + 1
  <2> QED
    BY <2>1, <2>2, <2>3
<1> QED
  BY <1>7, <1>8, <1>9, <1>10 DEF Inserted

LEMMA RemoveAtIs ==
  ASSUME NEW S, NEW q \in Seq(S), NEW n \in 1 .. Len(q)
  PROVE  /\ RemoveAt(q, n) \in Seq(S)
         /\ Len(RemoveAt(q, n)) = Len(q) - 1
         /\ Removed(RemoveAt(q, n), q, n)
<1> DEFINE A == SubSeq(q, 1, n - 1)
           B == SubSeq(q, n + 1, Len(q))
<1>1. Len(q) \in Nat /\ n \in Nat /\ n >= 1 /\ n <= Len(q) /\ \A i \in 1 .. Len(q) : q[i] \in S
  BY LenProperties, ElementOfSeq
<1>2. A \in Seq(S) /\ Len(A) = n - 1 /\ \A i \in 1 .. n - 1 : A[i] = q[i]
  <2>1. \A i \in 1 .. n - 1 : q[i] \in S
    BY <1>1
  <2> QED
    BY <1>1, <2>1, SubSeqProperties
<1>3. B \in Seq(S) /\ Len(B) = Len(q) - n /\ \A i \in 1 .. Len(q) - n : B[i] = q[n + i]
  <2>1. \A i \in n + 1 .. Len(q) : q[i] \in S
    BY <1>1
  <2>2. /\ B \in Seq(S) /\ Len(B) = IF n + 1 <= Len(q) THEN Len(q) - (n + 1) + 1 ELSE 0
        /\ \A i \in 1 .. Len(q) - (n + 1) + 1 : B[i] = q[(n + 1) + i - 1]
    BY <1>1, <2>1, SubSeqProperties
  <2>3. Len(q) - (n + 1) + 1 = Len(q) - n /\ \A i \in Int : (n + 1) + i - 1 = n + i
    BY <1>1
  <2> HIDE DEF B
  <2>4. Len(B) = Len(q) - n
    BY ONLY <1>1, <2>2
  <2>5. ASSUME NEW i \in 1 .. Len(q) - n PROVE B[i] = q[n + i]
    <3>1. i \in 1 .. Len(q) - (n + 1) + 1 /\ (n + 1) + i - 1 = n + i
      BY <1>1
    <3> QED
      BY <2>2, <3>1
  <2> QED
    BY <2>2, <2>4, <2>5
<1> HIDE DEF A, B
<1>4. RemoveAt(q, n) = A \o B
  BY DEF RemoveAt, A, B
<1>5. /\ A \o B \in Seq(S) /\ Len(A \o B) = Len(A) + Len(B)
      /\ \A i \in 1 .. Len(A) + Len(B) :
           (A \o B)[i] = IF i <= Len(A) THEN A[i] ELSE B[i - Len(A)]
  BY <1>2, <1>3, ConcatProperties
<1>6. Len(A) + Len(B) = Len(q) - 1
  BY ONLY <1>1, <1>2, <1>3
<1>7. ASSUME NEW i \in 1 .. Len(q) - 1
      PROVE  (A \o B)[i] = IF i < n THEN q[i] ELSE q[i + 1]
  <2>1. CASE i < n
    <3>1. i <= n - 1 /\ i \in 1 .. n - 1
      BY <1>1, <2>1
    <3> QED
      BY <1>2, <1>5, <1>6, <2>1, <3>1
  <2>2. CASE ~(i < n)
    <3>1. i - (n - 1) \in 1 .. Len(q) - n /\ n + (i - (n - 1)) = i + 1 /\ ~(i <= n - 1)
      BY <1>1, <2>2
    <3>2. (A \o B)[i] = B[i - (n - 1)]
      BY <1>2, <1>5, <1>6, <3>1
    <3> QED
      BY <1>3, <2>2, <3>1, <3>2
  <2> QED
    BY <2>1, <2>2
<1> QED
  BY <1>4, <1>5, <1>6, <1>7 DEF Removed

(* A set of naturals has a least element, a bounded one a greatest one.    *)
LEMMA LeastIn ==
  ASSUME NEW S, S \subseteq Nat, S # {}
  PROVE  \E m \in S : \A y \in S : m <= y
<1>1. PICK x \in S : \A y \in S : ~(<<y, x>> \in OpToRel(<, Nat))
  BY NatLessThanWellFounded, WFMin
<1>2. ASSUME NEW y \in S PROVE x <= y
  <2>1. <<y, x>> \in Nat \X Nat /\ <<y, x>>[1] = y /\ <<y, x>>[2] = x
    OBVIOUS
  <2>2. ~(y < x)
    BY <1>1, <2>1 DEF OpToRel
  <2> QED
    BY <2>2
<1> QED
  BY <1>2

LEMMA GreatestIn ==
  ASSUME NEW n \in Nat, NEW S, S \subseteq 1 .. n, S # {}
  PROVE  \E m \in S : \A y \in S : y <= m
<1> DEFINE D == {n - y : y \in S}
<1>1. D \subseteq Nat /\ D # {}
  OBVIOUS
<1>2. PICK d \in D : \A e \in D : d <= e
  BY <1>1, LeastIn
<1>3. PICK m \in S : d = n - m
  BY <1>2
<1>4. ASSUME NEW y \in S PROVE y <= m
  <2>1. d <= n - y
    BY <1>2
  <2> QED
    BY <1>3, <2>1
<1> QED
  BY <1>4

(* Cached pages, as the sequence has them.                                 *)
LEMMA CacheTypes ==
  ASSUME PageTypes
  PROVE  /\ Len(cache) \in Nat
         /\ \A i \in 1 .. Len(cache) : cache[i] \in AllPages /\ pos[cache[i]] \in Int
         /\ Made \subseteq AllPages
<1>1. connects \in Nat /\ NPages \in Nat /\ MaxConnects \in Nat /\ connects <= MaxConnects
  BY SizesAssumption DEF PageTypes
<1>2. NPages * connects \in Nat /\ NPages * MaxConnects \in Nat
      /\ NPages * connects <= NPages * MaxConnects
  BY <1>1
<1>3. Made \subseteq AllPages
  BY <1>2 DEF Made, AllPages
<1> QED
  BY <1>3, LenProperties, ElementOfSeq DEF PageTypes

(* std::upper_bound finds where the position belongs.                      *)
LEMMA UpperBoundIs ==
  ASSUME PageTypes, NEW x \in Int
  PROVE  /\ UpperBound(x) \in 1 .. Len(cache) + 1
         /\ \A i \in 1 .. UpperBound(x) - 1 : pos[cache[i]] <= x
         /\ UpperBound(x) <= Len(cache) => pos[cache[UpperBound(x)]] > x
<1> DEFINE P(n) == /\ \A i \in 1 .. n - 1 : pos[cache[i]] <= x
                   /\ n <= Len(cache) => pos[cache[n]] > x
           S == {i \in 1 .. Len(cache) : pos[cache[i]] > x}
<1>1. \E n \in 1 .. Len(cache) + 1 : P(n)
  <2>1. CASE S = {}
    <3>1. \A i \in 1 .. Len(cache) : pos[cache[i]] <= x
      BY <2>1, CacheTypes
    <3> QED
      BY <3>1, CacheTypes
  <2>2. CASE S # {}
    <3>1. PICK m \in S : \A y \in S : m <= y
      <4>1. S \subseteq Nat
        BY CacheTypes
      <4> QED
        BY <2>2, <4>1, LeastIn
    <3>2. \A i \in 1 .. m - 1 : pos[cache[i]] <= x
      BY <3>1, CacheTypes
    <3> QED
      BY <3>1, <3>2, CacheTypes
  <2> QED
    BY <2>1, <2>2
<1> HIDE DEF P
<1>2. UpperBound(x) \in 1 .. Len(cache) + 1 /\ P(UpperBound(x))
  <2>1. UpperBound(x) = CHOOSE n \in 1 .. Len(cache) + 1 : P(n)
    BY DEF UpperBound, P
  <2> QED
    BY <1>1, <2>1, Zenon
<1> QED
  BY <1>2 DEF P

(* FreeOne purges a page that is not locked and not the one at n, or       *)
(* leaves everything as it is.                                             *)
LEMMA FreeOneIs ==
  ASSUME PageTypes, NEW n \in Nat
  PROVE  \/ /\ FreeOne(n) = [cache |-> cache, free |-> freePages, next |-> n]
            /\ ~MustPurge(n)
         \/ \E v \in 1 .. Len(cache) :
              /\ FreeOne(n) = [cache |-> RemoveAt(cache, v), free |-> {Entry(cache[v])},
                               next |-> IF v < n THEN n - 1 ELSE n]
              /\ freePages = {} /\ v # n /\ cRef[cache[v]] <= 0
<1>1. CASE ~MustPurge(n)
  BY <1>1 DEF FreeOne
<1>2. CASE MustPurge(n)
  <2>1. Purgeable(n) # {} /\ Purgeable(n) \subseteq 1 .. Len(cache) /\ freePages = {}
    BY <1>2 DEF MustPurge, Purgeable
  <2>2. Victim(n) \in Purgeable(n)
    <3>1. PICK m \in Purgeable(n) : \A y \in Purgeable(n) : y <= m
      BY <2>1, GreatestIn, CacheTypes
    <3> QED
      BY <3>1, Zenon DEF Victim
  <2>3. Victim(n) # n /\ cRef[cache[Victim(n)]] <= 0
    <3>1. cRef[cache[Victim(n)]] \in Int
      BY <2>1, <2>2, CacheTypes DEF PageTypes
    <3> QED
      BY <2>2, <3>1 DEF Purgeable, Idle
  <2> QED
    BY <1>2, <2>1, <2>2, <2>3 DEF FreeOne
<1> QED
  BY <1>1, <1>2

-----------------------------------------------------------------------------
(* Sequences without repetition.                                           *)
In(q, p)    == \E i \in 1 .. Len(q) : q[i] = p
Distinct(q) == \A i, j \in 1 .. Len(q) : q[i] = q[j] => i = j

LEMMA InsertAtIn ==
  ASSUME NEW S, NEW q \in Seq(S), NEW n \in 1 .. Len(q) + 1, NEW e \in S
  PROVE  /\ \A p : In(InsertAt(q, n, e), p) <=> In(q, p) \/ p = e
         /\ Distinct(q) /\ ~In(q, e) => Distinct(InsertAt(q, n, e))
<1>0. Len(q) \in Nat /\ n \in Nat
  <2>1. Len(q) \in Nat
    BY LenProperties
  <2> QED
    BY <2>1
<1>9. Inserted(InsertAt(q, n, e), q, n, e)
  BY InsertAtIs
<1> DEFINE r == InsertAt(q, n, e)
<1>1. /\ Len(q) \in Nat /\ n \in Nat /\ Len(r) = Len(q) + 1
      /\ \A i \in 1 .. Len(q) + 1 :
           r[i] = IF i < n THEN q[i] ELSE IF i = n THEN e ELSE q[i - 1]
  BY <1>0, <1>9 DEF Inserted
<1> HIDE DEF r
<1>2. ASSUME NEW p, In(r, p) PROVE In(q, p) \/ p = e
  BY <1>1, <1>2 DEF In
<1>3. ASSUME NEW p, In(q, p) PROVE In(r, p)
  <2>1. PICK i \in 1 .. Len(q) : q[i] = p
    BY <1>3 DEF In
  <2>2. CASE i < n
    BY <1>1, <2>1, <2>2 DEF In
  <2>3. CASE ~(i < n)
    <3>1. i + 1 \in 1 .. Len(r) /\ ~(i + 1 < n) /\ i + 1 # n /\ (i + 1) - 1 = i
      BY <1>1, <2>3
    <3>2. r[i + 1] = p
      BY <1>1, <2>1, <3>1
    <3> QED
      BY <3>1, <3>2 DEF In
  <2> QED
    BY <2>2, <2>3
<1>4. In(r, e)
  BY <1>1 DEF In
<1>5. ASSUME Distinct(q), ~In(q, e) PROVE Distinct(r)
  <2> SUFFICES ASSUME NEW i \in 1 .. Len(q) + 1, NEW j \in 1 .. Len(q) + 1, r[i] = r[j]
               PROVE  i = j
    BY <1>1 DEF Distinct
  <2> DEFINE dn(k) == IF k < n THEN k ELSE k - 1
  <2>1. \A k \in 1 .. Len(q) : q[k] # e
    BY <1>5 DEF In
  <2>2. \A k \in 1 .. Len(q) + 1 : k # n => dn(k) \in 1 .. Len(q) /\ r[k] = q[dn(k)]
    BY <1>1
  <2>3. r[n] = e
    BY <1>1
  <2>4. CASE i = n \/ j = n
    BY <2>1, <2>2, <2>3, <2>4
  <2>5. CASE i # n /\ j # n
    <3>1. dn(i) = dn(j)
      BY <1>5, <2>2, <2>5 DEF Distinct
    <3> QED
      BY <1>1, <2>5, <3>1
  <2> QED
    BY <2>4, <2>5
<1> QED
  BY <1>2, <1>3, <1>4, <1>5 DEF r

LEMMA RemoveAtIn ==
  ASSUME NEW S, NEW q \in Seq(S), NEW n \in 1 .. Len(q), Distinct(q)
  PROVE  /\ \A p : In(RemoveAt(q, n), p) <=> In(q, p) /\ p # q[n]
         /\ Distinct(RemoveAt(q, n))
<1>0. Len(q) \in Nat /\ n \in Nat
  <2>1. Len(q) \in Nat
    BY LenProperties
  <2> QED
    BY <2>1
<1>9. Removed(RemoveAt(q, n), q, n)
  BY RemoveAtIs
<1> DEFINE r == RemoveAt(q, n)
<1>1. /\ Len(q) \in Nat /\ n \in Nat /\ Len(r) = Len(q) - 1
      /\ \A i \in 1 .. Len(q) - 1 : r[i] = IF i < n THEN q[i] ELSE q[i + 1]
  BY <1>0, <1>9 DEF Removed
<1> HIDE DEF r
<1>2. ASSUME NEW p, In(r, p) PROVE In(q, p) /\ p # q[n]
  <2>1. PICK i \in 1 .. Len(q) - 1 : r[i] = p
    BY <1>1, <1>2 DEF In
  <2>2. CASE i < n
    <3>1. i \in 1 .. Len(q) /\ q[i] = p /\ i # n
      BY <1>1, <2>1, <2>2
    <3> QED
      BY <3>1 DEF In, Distinct
  <2>3. CASE ~(i < n)
    <3>1. i + 1 \in 1 .. Len(q) /\ q[i + 1] = p /\ i + 1 # n
      BY <1>1, <2>1, <2>3
    <3> QED
      BY <3>1 DEF In, Distinct
  <2> QED
    BY <2>2, <2>3
<1>3. ASSUME NEW p, In(q, p), p # q[n] PROVE In(r, p)
  <2>1. PICK i \in 1 .. Len(q) : q[i] = p
    BY <1>3 DEF In
  <2>2. CASE i < n
    <3>1. i \in 1 .. Len(q) - 1 /\ r[i] = p
      BY <1>1, <2>1, <2>2
    <3> QED
      BY <1>1, <3>1 DEF In
  <2>3. CASE i > n
    <3>1. i - 1 \in 1 .. Len(q) - 1 /\ ~(i - 1 < n) /\ (i - 1) + 1 = i
      BY <1>1, <2>3
    <3>2. r[i - 1] = p
      BY <1>1, <2>1, <3>1
    <3> QED
      BY <1>1, <3>1, <3>2 DEF In
  <2>4. i # n
    BY <1>3, <2>1
  <2> QED
    BY <1>1, <2>2, <2>3, <2>4
<1>4. Distinct(r)
  <2> SUFFICES ASSUME NEW i \in 1 .. Len(q) - 1, NEW j \in 1 .. Len(q) - 1, r[i] = r[j]
               PROVE  i = j
    BY <1>1 DEF Distinct
  <2> DEFINE up(k) == IF k < n THEN k ELSE k + 1
  <2>1. up(i) \in 1 .. Len(q) /\ up(j) \in 1 .. Len(q) /\ q[up(i)] = q[up(j)]
    BY <1>1
  <2>2. up(i) = up(j)
    BY <2>1 DEF Distinct
  <2> QED
    BY <1>1, <2>2
<1> QED
  BY <1>2, <1>3, <1>4 DEF r

(* FreeOne takes a page from the cache to the free pages, or nothing.      *)
LEMMA FreeOneKeeps ==
  ASSUME PageTypes, PlaceInv, CountInv, NEW n \in 1 .. Len(cache) + 1
  PROVE  LET f == FreeOne(n) IN
         /\ f.cache \in Seq(Made) /\ f.next \in 1 .. Len(f.cache) + 1
         /\ f.free \subseteq [key : Int, page : Made]
         /\ Distinct(f.cache)
         /\ \A d, e \in f.free : d.page = e.page => d = e
         /\ \A e \in f.free : ~In(f.cache, e.page) /\ e.page # owned
         /\ \A p : In(f.cache, p) => Cached(p)
         /\ \A p : Cached(p) => In(f.cache, p) \/ (cRef[p] <= 0 /\ \E e \in f.free : e.page = p)
         /\ \A p : Free(p) => \E e \in f.free : e.page = p
<1>1. Len(cache) \in Nat /\ n \in Nat
  BY CacheTypes
<1>2. Distinct(cache) /\ \A p : Cached(p) <=> In(cache, p)
  BY DEF PlaceInv, Distinct, Cached, In
<1>3. CASE FreeOne(n) = [cache |-> cache, free |-> freePages, next |-> n]
  BY <1>1, <1>2, <1>3 DEF PageTypes, PlaceInv, Free
<1>4. CASE \E v \in 1 .. Len(cache) :
             /\ FreeOne(n) = [cache |-> RemoveAt(cache, v), free |-> {Entry(cache[v])},
                              next |-> IF v < n THEN n - 1 ELSE n]
             /\ freePages = {} /\ v # n /\ cRef[cache[v]] <= 0
  <2>1. PICK v \in 1 .. Len(cache) :
             /\ FreeOne(n) = [cache |-> RemoveAt(cache, v), free |-> {Entry(cache[v])},
                              next |-> IF v < n THEN n - 1 ELSE n]
             /\ freePages = {} /\ v # n /\ cRef[cache[v]] <= 0
    BY <1>4
  <2> DEFINE c == RemoveAt(cache, v)
  <2>2. c \in Seq(Made) /\ Len(c) = Len(cache) - 1
    BY RemoveAtIs DEF PageTypes
  <2>3. Distinct(c) /\ \A p : In(c, p) <=> In(cache, p) /\ p # cache[v]
    BY <1>2, RemoveAtIn DEF PageTypes
  <2> HIDE DEF c
  <2>4. /\ Entry(cache[v]) \in [key : Int, page : Made] /\ Entry(cache[v]).page = cache[v]
        /\ Cached(cache[v])
    BY CacheTypes, ElementOfSeq DEF Entry, Cached, PageTypes
  <2>5. cache[v] # owned
    BY <2>4 DEF PlaceInv
  <2>6. (IF v < n THEN n - 1 ELSE n) \in 1 .. Len(c) + 1
    BY <1>1, <2>1, <2>2
  <2>7. FreeOne(n) = [cache |-> c, free |-> {Entry(cache[v])},
                      next |-> IF v < n THEN n - 1 ELSE n]
    BY <2>1 DEF c
  <2>8. \A p : ~Free(p)
    BY <2>1 DEF Free
  <2> QED
    BY <1>2, <2>1, <2>2, <2>3, <2>4, <2>5, <2>6, <2>7, <2>8
<1> QED
  BY <1>1, <1>3, <1>4, FreeOneIs

-----------------------------------------------------------------------------
(* The page that holds a byte.                                             *)
LEMMA PagePosIs ==
  ASSUME NEW x \in Int
  PROVE  /\ PagePos(x) \in Int /\ PagePos(x) <= x /\ x < PagePos(x) + PageSize
         /\ PagePos(x) % PageSize = 0
<1>1. PageSize \in Int /\ PageSize > 0 /\ x \div PageSize \in Int
  BY SizesAssumption
<1>2. x % PageSize \in 0 .. PageSize - 1
  BY <1>1
<1>4. x = PageSize * (x \div PageSize) + (x % PageSize)
  BY <1>1
<1>3. (PageSize * (x \div PageSize)) % PageSize = 0
  BY <1>1
<1> QED
  BY <1>1, <1>2, <1>3, <1>4 DEF PagePos

(* Positions of pages are a page apart.                                    *)
LEMMA Apart ==
  ASSUME NEW x \in Int, NEW y \in Int, x % PageSize = 0, y % PageSize = 0, x < y
  PROVE  x + PageSize <= y
<1>1. PageSize \in Int /\ PageSize > 0
  BY SizesAssumption
<1> DEFINE i == x \div PageSize
           j == y \div PageSize
<1>2. i \in Int /\ j \in Int /\ x = PageSize * i /\ y = PageSize * j
  BY <1>1
<1> HIDE DEF i, j
<1>3. i + 1 <= j
  BY <1>1, <1>2
<1>4. PageSize * (i + 1) = PageSize * i + PageSize /\ PageSize * (i + 1) <= PageSize * j
  BY <1>1, <1>2, <1>3
<1> QED
  BY <1>1, <1>2, <1>4

-----------------------------------------------------------------------------
USE DEF vars, pageVars, callVars

LEMMA CacheInvInit == Init => CacheInv
<1> SUFFICES ASSUME Init PROVE CacheInv
  OBVIOUS
<1>1. PageTypes
  BY SizesAssumption DEF Init, PageTypes, Made, AllPages
<1>2. PlaceInv /\ CountInv /\ NextInv
  BY DEF Init, PlaceInv, CountInv, NextInv, Cached, Free
<1> QED
  BY <1>1, <1>2 DEF CacheInv

(* The pages of a connection are new.                                      *)
LEMMA CommitKeeps ==
  ASSUME CacheInv, Commit
  PROVE  CacheInv'
<1> USE DEF CacheInv
<1>1. connects \in Nat /\ connects' = connects + 1 /\ connects' \in 0 .. MaxConnects
      /\ NPages \in Nat \ {0}
  BY SizesAssumption DEF Commit, PageTypes
<1>2. NPages * connects \in Nat /\ NPages * connects' = NPages * connects + NPages
  BY <1>1
<1>3. /\ pages' = NPages * connects + 1 .. NPages * connects + NPages
      /\ freePages' = {[key |-> -1, page |-> p] : p \in pages'}
      /\ UNCHANGED <<pos, cRef, cache, owned, op, next>> /\ owned = NoPage /\ op = "none"
  BY DEF Commit, Quiet
<1>4. Made \subseteq Made' /\ pages' \subseteq Made' /\ \A p \in pages' : p \notin Made /\ p # 0
  <2> DEFINE k == NPages * connects
  <2>1. k \in Nat /\ Made = 1 .. k /\ Made' = 1 .. k + NPages /\ pages' = k + 1 .. k + NPages
    BY <1>2, <1>3 DEF Made
  <2> HIDE DEF k
  <2> QED
    BY ONLY <1>1, <2>1
<1>5. cache \in Seq(Made')
  BY <1>4, SeqMonotonic DEF PageTypes
<1>6. \A p : Cached(p) => p \in Made /\ p # 0
  BY CacheTypes, <1>2, ElementOfSeq DEF Cached, PageTypes, Made
<1>7. PageTypes'
  <2>1. freePages' \subseteq [key : Int, page : Made']
    BY <1>3, <1>4
  <2>2. owned' \in Made' \cup {NoPage}
    BY <1>3
  <2>3. cur' \in Int /\ len' \in Int
    BY DEF Commit, PageTypes
  <2> QED
    BY <1>1, <1>3, <1>4, <1>5, <2>1, <2>2, <2>3 DEF PageTypes
<1>8. PlaceInv'
  <2>1. \A p : Cached(p)' <=> Cached(p)
    BY <1>3 DEF Cached
  <2>2. \A e \in freePages' : e.page \in pages' /\ e = [key |-> -1, page |-> e.page]
    BY <1>3
  <2>3. ASSUME NEW p \in pages' PROVE Free(p)'
    <3>1. [key |-> -1, page |-> p] \in freePages' /\ [key |-> -1, page |-> p].page = p
      BY <1>3
    <3> QED
      BY <3>1 DEF Free
  <2> QED
    BY <1>3, <1>4, <1>6, <2>1, <2>2, <2>3 DEF PlaceInv, NoPage
<1>9. CountInv' /\ NextInv'
  BY <1>3 DEF CountInv, NextInv, Cached
<1> QED
  BY <1>7, <1>8, <1>9

(* What InsertPage, and the calls that fail, do to the pages.              *)
LEMMA ChosenIs ==
  ASSUME NEW S, NEW x
  PROVE  Chosen(S, x) \subseteq S /\ Lowest(S) \subseteq S
BY DEF Chosen, Listed, Lowest, OneOfEach

LEMMA InsertPageKeeps ==
  ASSUME CacheInv, InsertPage
  PROVE  CacheInv'
<1> DEFINE f == FreeOne(next)
           x == PagePos(cur)
<1>1. next \in 1 .. Len(cache) + 1 /\ pages # {}
  BY CacheTypes DEF CacheInv, NextInv, PageTypes, InsertPage, AtMiss
<1>2. PICK e \in f.free :
        /\ freePages' = f.free \ {e}
        /\ cache' = InsertAt(f.cache, f.next, e.page)
        /\ pos' = [pos EXCEPT ![e.page] = x]
        /\ cRef' = IF op = "lock" THEN [cRef EXCEPT ![e.page] = @ + 1] ELSE cRef
  BY ChosenIs DEF InsertPage
<1>3. next' = f.next + 1 /\ UNCHANGED <<pages, owned, op, connects>>
  BY DEF InsertPage
<1>4. /\ f.cache \in Seq(Made) /\ f.next \in 1 .. Len(f.cache) + 1
      /\ f.free \subseteq [key : Int, page : Made]
      /\ Distinct(f.cache)
      /\ \A d, g \in f.free : d.page = g.page => d = g
      /\ \A d \in f.free : ~In(f.cache, d.page) /\ d.page # owned
      /\ \A p : In(f.cache, p) => Cached(p)
      /\ \A p : Cached(p) => In(f.cache, p) \/ (cRef[p] <= 0 /\ \E d \in f.free : d.page = p)
      /\ \A p : Free(p) => \E d \in f.free : d.page = p
  BY <1>1, FreeOneKeeps DEF CacheInv
<1>5. x \in Int /\ cur \in Int /\ len \in Int /\ op \in {"none", "read", "lock"}
      /\ cRef \in [AllPages -> Int] /\ pos \in [AllPages -> Int]
  BY PagePosIs DEF CacheInv, PageTypes
<1> HIDE DEF x
<1>6. e.page \in Made /\ e.page \in AllPages /\ e.page # owned /\ ~In(f.cache, e.page)
      /\ e.page # NoPage
  <2>1. e.page \in Made /\ e.page # owned /\ ~In(f.cache, e.page)
    BY <1>4
  <2> QED
    BY <2>1, CacheTypes DEF CacheInv, AllPages, NoPage
<1>7. /\ cache' \in Seq(Made) /\ Len(cache') = Len(f.cache) + 1
      /\ Distinct(cache') /\ \A p : In(cache', p) <=> In(f.cache, p) \/ p = e.page
  BY <1>2, <1>4, <1>6, InsertAtIs, InsertAtIn
<1>8. Made' = Made
  BY <1>3 DEF Made
<1>9. cur' \in Int /\ len' \in Int
  <2>1. Advance(cur, len, x + PageSize) /\ PageSize \in Int
    BY SizesAssumption DEF InsertPage, x
  <2> QED
    BY <1>5, <2>1 DEF Advance
<1>10. next' \in Nat \ {0} /\ next' <= Len(cache') + 1
  <2>1. Len(f.cache) \in Nat
    BY <1>4, LenProperties
  <2> QED
    BY <1>3, <1>4, <1>7, <2>1
<1> HIDE DEF f
<1>11. PageTypes'
  <2>1. pos' \in [AllPages -> Int] /\ cRef' \in [AllPages -> Int]
    BY <1>2, <1>5, <1>6
  <2>2. freePages' \subseteq [key : Int, page : Made]
    BY <1>2, <1>4
  <2> QED
    BY <1>3, <1>7, <1>8, <1>9, <1>10, <2>1, <2>2 DEF CacheInv, PageTypes
<1>12. PlaceInv'
  <2>1. \A p : Cached(p)' <=> In(f.cache, p) \/ p = e.page
    BY <1>7 DEF Cached, In
  <2>2. \A p : Cached(p) => Cached(p)' \/ \E d \in freePages' : d.page = p
    BY <1>2, <1>4, <2>1
  <2>3. \A p : Free(p) => Cached(p)' \/ \E d \in freePages' : d.page = p
    BY <1>2, <1>4, <2>1
  <2>4. \A p \in pages : Free(p)' \/ Cached(p)' \/ owned = p
    BY <2>2, <2>3 DEF Free, CacheInv, PlaceInv
  <2>5. \A i, j \in 1 .. Len(cache') : cache'[i] = cache'[j] => i = j
    BY <1>7 DEF Distinct
  <2>6. ~Cached(owned)'
    BY <1>3, <1>4, <1>6, <2>1 DEF CacheInv, PlaceInv
  <2>7. \A d \in freePages' : d.page # owned' /\ ~Cached(d.page)'
    BY <1>2, <1>3, <1>4, <2>1
  <2>8. \A d, g \in freePages' : d.page = g.page => d = g
    BY <1>2, <1>4
  <2> QED
    BY <1>3, <2>4, <2>5, <2>6, <2>7, <2>8 DEF PlaceInv
<1>13. CountInv'
  <2> SUFFICES ASSUME NEW p \in AllPages, cRef'[p] > 0 PROVE Cached(p)'
    BY DEF CountInv
  <2>1. CASE p = e.page
    BY <1>7, <2>1 DEF Cached, In
  <2>2. CASE p # e.page
    <3>1. cRef[p] > 0 /\ cRef[p] \in Int
      BY <1>2, <1>5, <2>2
    <3>2. In(f.cache, p)
      BY <1>4, <3>1 DEF CacheInv, CountInv
    <3> QED
      BY <1>7, <3>2 DEF Cached, In
  <2> QED
    BY <2>1, <2>2
<1>14. NextInv'
  BY <1>1, <1>3, <1>10 DEF NextInv
<1> QED
  BY <1>11, <1>12, <1>13, <1>14 DEF CacheInv

(* A call that fails has purged a page, or nothing.                        *)
LEMMA FreeOneStep ==
  ASSUME CacheInv, NEW n \in 1 .. Len(cache) + 1, NEW e,
         \/ UNCHANGED owned /\ freePages' = FreeOne(n).free
         \/ /\ e \in FreeOne(n).free /\ freePages' = FreeOne(n).free \ {e}
            /\ owned = NoPage /\ owned' = e.page,
         cache' = FreeOne(n).cache, UNCHANGED <<pages, cRef, connects>>
  PROVE  /\ cache' \in Seq(Made) /\ freePages' \subseteq [key : Int, page : Made]
         /\ owned' \in Made \cup {NoPage}
         /\ PlaceInv' /\ CountInv'
<1> DEFINE f == FreeOne(n)
<1>1. /\ f.cache \in Seq(Made) /\ f.next \in 1 .. Len(f.cache) + 1
      /\ f.free \subseteq [key : Int, page : Made]
      /\ Distinct(f.cache)
      /\ \A d, g \in f.free : d.page = g.page => d = g
      /\ \A d \in f.free : ~In(f.cache, d.page) /\ d.page # owned
      /\ \A p : In(f.cache, p) => Cached(p)
      /\ \A p : Cached(p) => In(f.cache, p) \/ (cRef[p] <= 0 /\ \E d \in f.free : d.page = p)
      /\ \A p : Free(p) => \E d \in f.free : d.page = p
  BY FreeOneKeeps DEF CacheInv
<1> HIDE DEF f
<1>2. /\ cache' = f.cache
      /\ \/ UNCHANGED owned /\ freePages' = f.free
         \/ e \in f.free /\ freePages' = f.free \ {e} /\ owned = NoPage /\ owned' = e.page
  BY DEF f
<1>3. freePages' \subseteq [key : Int, page : Made] /\ owned' \in Made \cup {NoPage}
  BY <1>1, <1>2 DEF CacheInv, PageTypes
<1>4. \A p : Cached(p)' <=> In(f.cache, p)
  BY <1>2 DEF Cached, In
<1>5. PlaceInv'
  <2>1. \A p : Cached(p) => Cached(p)' \/ \E d \in f.free : d.page = p
    BY <1>1, <1>4
  <2>2. \A p \in pages : Cached(p)' \/ (\E d \in f.free : d.page = p) \/ owned = p
    BY <1>1, <2>1 DEF CacheInv, PlaceInv
  <2>3. \A p \in pages : Free(p)' \/ Cached(p)' \/ owned' = p
    <3>1. NoPage \notin pages
      BY CacheTypes DEF CacheInv, PageTypes, Made, NoPage
    <3> QED
      BY <1>2, <2>2, <3>1 DEF Free
  <2>4. \A i, j \in 1 .. Len(cache') : cache'[i] = cache'[j] => i = j
    BY <1>1, <1>2 DEF Distinct
  <2>5. ~Cached(owned)'
    <3>1. Cached(owned)' <=> In(f.cache, owned')
      BY <1>2 DEF Cached, In
    <3>2. CASE UNCHANGED owned
      BY <1>1, <3>1, <3>2 DEF CacheInv, PlaceInv
    <3>3. CASE e \in f.free /\ owned' = e.page
      BY <1>1, <3>1, <3>3
    <3> QED
      BY <1>2, <3>2, <3>3
  <2>6. \A d \in freePages' : d.page # owned' /\ ~Cached(d.page)'
    BY <1>1, <1>2, <1>4
  <2>7. \A d, g \in freePages' : d.page = g.page => d = g
    BY <1>1, <1>2
  <2> QED
    BY <2>3, <2>4, <2>5, <2>6, <2>7 DEF PlaceInv
<1>6. CountInv'
  BY <1>1, <1>4 DEF CacheInv, CountInv, PageTypes
<1> QED
  BY <1>1, <1>2, <1>3, <1>5, <1>6

(* Read and LockPages up to their loop.                                    *)
LEMMA EnterIs ==
  ASSUME CacheInv, NEW o \in {"read", "lock"}, NEW b \in [start : Nat, size : Nat],
         NEW refs \in [AllPages -> Int], \A p \in AllPages : refs[p] > 0 => Cached(p),
         Enter(o, b, refs), UNCHANGED <<pages, pos, freePages, cache, owned, connects>>,
         pages # {}
  PROVE  CacheInv'
<1> USE DEF CacheInv
<1>1. PageTypes /\ b.start \in Int /\ b.size \in Int /\ PageSize \in Int
  BY SizesAssumption
<1>2. UpperBound(b.start) \in 1 .. Len(cache) + 1 /\ Len(cache) \in Nat
  BY <1>1, UpperBoundIs, CacheTypes
<1>3. next' = UpperBound(b.start) /\ op' = o
  BY DEF Enter
<1>4. cRef' \in [AllPages -> Int] /\ \A p \in AllPages : cRef'[p] > 0 => Cached(p)
  <2>1. CASE Hit(b.start) /\ o = "lock"
    <3> DEFINE k == UpperBound(b.start) - 1
    <3>1. k \in 1 .. Len(cache) /\ cache[k] \in AllPages /\ Cached(cache[k])
      BY <1>1, <1>2, <2>1, CacheTypes DEF Hit, Cached
    <3>2. cRef' = [refs EXCEPT ![cache[k]] = @ + 1]
      BY <2>1 DEF Enter
    <3> HIDE DEF k
    <3> QED
      BY <3>1, <3>2
  <2>2. CASE ~(Hit(b.start) /\ o = "lock")
    BY <2>2 DEF Enter
  <2> QED
    BY <2>1, <2>2
<1>5. cur' \in Int /\ len' \in Int
  <2>1. CASE Hit(b.start)
    <3> DEFINE p == cache[UpperBound(b.start) - 1]
    <3>1. PageEnd(p) \in Int
      BY <1>1, <1>2, <2>1, CacheTypes DEF Hit, PageEnd
    <3>2. Advance(b.start, b.size, PageEnd(p))
      BY <2>1 DEF Enter
    <3> HIDE DEF p
    <3> QED
      BY <1>1, <3>1, <3>2 DEF Advance
  <2>2. CASE ~Hit(b.start)
    BY <1>1, <2>2 DEF Enter
  <2> QED
    BY <2>1, <2>2
<1>6. Made' = Made
  BY DEF Made
<1>7. PageTypes'
  BY <1>2, <1>3, <1>4, <1>5, <1>6 DEF PageTypes
<1>8. PlaceInv'
  BY DEF PlaceInv, Cached, Free
<1>9. CountInv' /\ NextInv'
  BY <1>2, <1>3, <1>4 DEF CountInv, NextInv, Cached
<1> QED
  BY <1>7, <1>8, <1>9

LEMMA UnlockPagesIs ==
  ASSUME PageTypes, NEW b
  PROVE  /\ UnlockPages(b) \in [AllPages -> Int]
         /\ \A p \in AllPages : UnlockPages(b)[p] \in {cRef[p], cRef[p] - 1}
BY DEF UnlockPages, PageTypes

(* The other steps.                                                        *)
LEMMA CacheInvStep ==
  ASSUME CacheInv, [Next]_vars
  PROVE  CacheInv'
<1>1. PageTypes /\ Len(cache) \in Nat /\ Made \subseteq AllPages
  BY CacheTypes DEF CacheInv
<1>2. ASSUME UNCHANGED <<pages, freePages, cache, owned, connects, op, next, cRef, cur, len>>,
             pos' \in [AllPages -> Int]
      PROVE  CacheInv'
  BY <1>2 DEF CacheInv, PageTypes, PlaceInv, CountInv, NextInv, Cached, Free, Made
<1>3. CASE Commit
  BY <1>3, CommitKeeps
<1>4. CASE Decommit
  <2>1. /\ pages' = {} /\ freePages' = {} /\ pos' \in [AllPages -> Int] /\ op = "none"
        /\ UNCHANGED <<cRef, cache, owned, connects, op, next, cur, len>>
    BY <1>4 DEF Decommit, Quiet
  <2> QED
    BY <2>1 DEF CacheInv, PageTypes, PlaceInv, CountInv, NextInv, Cached, Free, Made
<1>5. CASE Download
  BY <1>1, <1>2, <1>5 DEF Download, PageTypes
<1>6. ASSUME NEW b \in AllBlocks, Read(b)
      PROVE  CacheInv'
  <2>1. b \in [start : Nat, size : Nat]
    BY BlocksAssumption DEF AllBlocks
  <2>2. cRef \in [AllPages -> Int] /\ \A p \in AllPages : cRef[p] > 0 => Cached(p)
    BY DEF CacheInv, PageTypes, CountInv
  <2>3. /\ Enter("read", b, cRef) /\ pages # {}
        /\ UNCHANGED <<pages, pos, freePages, cache, owned, connects>>
    BY <1>6 DEF Read, Call
  <2> QED
    BY <2>1, <2>2, <2>3, EnterIs
<1>7. ASSUME NEW b \in AllBlocks, Wait(b)
      PROVE  CacheInv'
  <2> DEFINE f == FreeOne(Len(cache) + 1)
  <2>1. PICK e \in f.free :
          /\ owned' = e.page /\ freePages' = f.free \ {e}
          /\ pos' = [pos EXCEPT ![e.page] = PagePos(Stop(b) - 1)]
    BY <1>7, ChosenIs DEF Wait
  <2>2. /\ cache' = f.cache /\ UNCHANGED <<pages, cRef, connects, op, next, cur, len>>
        /\ op = "none" /\ owned = NoPage
    BY <1>7 DEF Wait, Call
  <2>3. Len(cache) + 1 \in 1 .. Len(cache) + 1
    BY <1>1
  <2>4. /\ cache' \in Seq(Made) /\ freePages' \subseteq [key : Int, page : Made]
        /\ owned' \in Made \cup {NoPage} /\ PlaceInv' /\ CountInv'
    BY <2>1, <2>2, <2>3, FreeOneStep
  <2>5. pos' \in [AllPages -> Int]
    <3>1. b \in [start : Nat, size : Nat]
      BY BlocksAssumption DEF AllBlocks
    <3>2. Stop(b) - 1 \in Int
      BY <3>1 DEF Stop
    <3> QED
      BY <1>1, <2>1, <3>2, PagePosIs DEF PageTypes
  <2> QED
    BY <2>2, <2>4, <2>5 DEF CacheInv, PageTypes, NextInv, Made
<1>8. ASSUME NEW s \in Streams, NEW b \in Blocks[s], SetCurr(s, b)
      PROVE  CacheInv'
  <2>1. b \in [start : Nat, size : Nat]
    BY BlocksAssumption
  <2>2. /\ UnlockPages(locked[s]) \in [AllPages -> Int]
        /\ \A p \in AllPages : UnlockPages(locked[s])[p] > 0 => Cached(p)
    <3>1. \A p \in AllPages : cRef[p] \in Int
      BY <1>1 DEF PageTypes
    <3> QED
      BY <1>1, <3>1, UnlockPagesIs DEF CacheInv, CountInv
  <2>3. /\ Enter("lock", b, UnlockPages(locked[s])) /\ pages # {}
        /\ UNCHANGED <<pages, pos, freePages, cache, owned, connects>>
    BY <1>8 DEF SetCurr, Call
  <2> QED
    BY <2>1, <2>2, <2>3, EnterIs
<1>9. ASSUME NEW s \in Streams, StreamStop(s)
      PROVE  CacheInv'
  <2>1. cRef' = UnlockPages(locked[s])
    BY <1>9 DEF StreamStop
  <2>2. cRef' \in [AllPages -> Int] /\ \A p \in AllPages : cRef'[p] > 0 => cRef[p] > 0
    <3>1. \A p \in AllPages : cRef[p] \in Int
      BY <1>1 DEF PageTypes
    <3> QED
      BY <1>1, <2>1, <3>1, UnlockPagesIs
  <2>3. UNCHANGED <<pages, pos, freePages, cache, owned, connects, op, next, cur, len>>
    BY <1>9 DEF StreamStop
  <2> QED
    BY <2>2, <2>3 DEF CacheInv, PageTypes, PlaceInv, CountInv, NextInv, Cached, Free, Made
<1>10. CASE InsertPage
  BY <1>10, InsertPageKeeps
<1>11. ASSUME NEW why, Fail(why), next \in 1 .. Len(cache) + 1,
              cache' = FreeOne(next).cache, freePages' = FreeOne(next).free,
              pos' \in [AllPages -> Int]
       PROVE  CacheInv'
  <2>1. UNCHANGED <<pages, cRef, owned, cur, len, next, connects>> /\ op' = "none"
    BY <1>11 DEF Fail
  <2>2. /\ cache' \in Seq(Made) /\ freePages' \subseteq [key : Int, page : Made]
        /\ owned' \in Made \cup {NoPage} /\ PlaceInv' /\ CountInv'
    BY <1>11, <2>1, FreeOneStep
  <2> QED
    BY <1>11, <2>1, <2>2 DEF CacheInv, PageTypes, NextInv, Made
<1>12. op # "none" => next \in 1 .. Len(cache) + 1
  BY <1>1 DEF CacheInv, PageTypes, NextInv
<1>13. CASE InsertPageBusy
  <2>1. UNCHANGED <<pages, cRef, owned, cur, len, next, connects, cache, freePages, pos>>
        /\ op' = "none"
    BY <1>13 DEF InsertPageBusy, Fail
  <2> QED
    BY <2>1 DEF CacheInv, PageTypes, PlaceInv, CountInv, NextInv, Cached, Free, Made
<1>14. CASE InsertPageNotBuffered
  BY <1>1, <1>11, <1>12, <1>14 DEF InsertPageNotBuffered, AtMiss, PageTypes
<1>15. CASE InsertPageReadFails
  <2>1. pos' \in [AllPages -> Int]
    <3>1. PICK e \in FreeOne(next).free : pos' = [pos EXCEPT ![e.page] = -1]
      BY <1>15, ChosenIs DEF InsertPageReadFails
    <3>3. e.page \in AllPages
      <4>1. next \in 1 .. Len(cache) + 1
        BY <1>12, <1>15 DEF InsertPageReadFails, AtMiss
      <4>2. e \in [key : Int, page : Made]
        BY <4>1, FreeOneKeeps DEF CacheInv
      <4> QED
        BY <1>1, <4>2
    <3>2. pos \in [AllPages -> Int]
      BY <1>1 DEF PageTypes
    <3> QED
      BY <3>1, <3>2, <3>3
  <2> QED
    BY <1>11, <1>12, <1>15, <2>1 DEF InsertPageReadFails, AtMiss
<1>16. CASE TakeCached
  <2>1. /\ next' = next + 1 /\ op # "none"
        /\ Advance(cur, len, PageEnd(cache[next]))
        /\ cRef' = IF op = "lock" THEN [cRef EXCEPT ![cache[next]] = @ + 1] ELSE cRef
        /\ UNCHANGED <<pages, pos, freePages, cache, owned, op, connects>>
    BY <1>16 DEF TakeCached
  <2>2. next \in 1 .. Len(cache)
    <3>1. ~(\A i \in 1 .. Len(cache) : i = next => pos[cache[i]] > cur)
      BY <1>16 DEF TakeCached, AtMiss
    <3> QED
      BY <3>1
  <2>3. cache[next] \in AllPages /\ pos[cache[next]] \in Int /\ Cached(cache[next])
    BY <2>2, CacheTypes, <1>1 DEF Cached
  <2>4. cur' \in Int /\ len' \in Int
    BY <1>1, <2>1, <2>3, SizesAssumption, SMTT(30) DEF Advance, PageEnd, PageTypes
  <2>5. cRef' \in [AllPages -> Int] /\ \A p \in AllPages : cRef'[p] > 0 => Cached(p)
    BY <1>1, <2>1, <2>3 DEF CacheInv, CountInv, PageTypes
  <2>6. next' \in Nat \ {0} /\ next' <= Len(cache) + 1
    BY <1>1, <2>1, <2>2
  <2> QED
    BY <2>1, <2>4, <2>5, <2>6
       DEF CacheInv, PageTypes, PlaceInv, CountInv, NextInv, Cached, Free, Made
<1>17. CASE Return
  <2>1. UNCHANGED <<pageVars, pages, owned, connects, cur, len, next>> /\ op' = "none"
    BY <1>17 DEF Return
  <2> QED
    BY <2>1 DEF CacheInv, PageTypes, PlaceInv, CountInv, NextInv, Cached, Free, Made
<1>18. ASSUME NEW e \in [key : Int, page : {owned}], owned # NoPage, op = "none",
              freePages' = freePages \cup {e}, owned' = NoPage, pos' \in [AllPages -> Int],
              UNCHANGED <<pages, cRef, cache, callVars, connects>>
       PROVE  CacheInv'
  <2>1. e \in [key : Int, page : Made] /\ e.page = owned
    BY <1>18 DEF CacheInv, PageTypes
  <2>2. PageTypes'
    BY <1>18, <2>1 DEF CacheInv, PageTypes, Made
  <2>3. NoPage \notin Made
    BY DEF NoPage, Made
  <2>4. ~Cached(NoPage)
    BY <1>1, <2>3, ElementOfSeq DEF Cached, PageTypes
  <2>5. PlaceInv'
    <3>1. \A p : Cached(p)' <=> Cached(p)
      BY <1>18 DEF Cached
    <3>2. \A p : Free(p)' <=> Free(p) \/ p = owned
      BY <1>18, <2>1 DEF Free
    <3>3. \A i, j \in 1 .. Len(cache') : cache'[i] = cache'[j] => i = j
      BY <1>18 DEF CacheInv, PlaceInv
    <3>4. \A d, g \in freePages' : d.page = g.page => d = g
      BY <1>18, <2>1 DEF CacheInv, PlaceInv
    <3>5. \A d \in freePages' : ~Cached(d.page) /\ d.page # NoPage
      BY <1>18, <2>1, <2>3 DEF CacheInv, PlaceInv, PageTypes
    <3>6. ~Cached(owned)'
      BY <1>18, <2>4 DEF Cached
    <3> QED
      BY <1>18, <3>1, <3>2, <3>3, <3>4, <3>5, <3>6 DEF CacheInv, PlaceInv
  <2>6. CountInv' /\ NextInv'
    BY <1>18 DEF CacheInv, CountInv, NextInv, Cached
  <2> QED
    BY <2>2, <2>5, <2>6 DEF CacheInv
<1>19. CASE WaitReturn
  <2>1. owned # NoPage => pos[owned] \in Int
    BY <1>1 DEF PageTypes
  <2>2. Entry(owned).page = owned
    BY DEF Entry
  <2>3. Entry(owned) \in [key : Int, page : {owned}]
    BY <1>19, <2>1 DEF Entry, WaitReturn
  <2> QED
    BY <1>1, <1>18, <1>19, <2>3 DEF WaitReturn, PageTypes
<1>20. CASE WaitCancelled
  <2>1. [key |-> -1, page |-> owned] \in [key : Int, page : {owned}]
    OBVIOUS
  <2>2. pos' \in [AllPages -> Int]
    BY <1>1, <1>20 DEF WaitCancelled, PageTypes
  <2> QED
    BY <1>18, <1>20, <2>1, <2>2 DEF WaitCancelled
<1>21. CASE UNCHANGED vars
  BY <1>1, <1>2, <1>21 DEF PageTypes
<1> QED
  BY <1>3, <1>4, <1>5, <1>6, <1>7, <1>8, <1>9, <1>10, <1>13, <1>14, <1>15, <1>16, <1>17,
     <1>19, <1>20, <1>21 DEF Next, CallStep

-----------------------------------------------------------------------------
(* Where the pages are is an invariant of the reader.                      *)
THEOREM CacheInvariance == Spec => []CacheInv
BY CacheInvInit, CacheInvStep, PTL DEF Spec

(* Each page of the reader is free, cached or owned by the waiting parser  *)
(* thread, in one place only, whatever the calls, the purges, the failures *)
(* and the connections (InsertPage, FreeOne, Wait of MkvReader).           *)
THEOREM PagesAreInOnePlace == Spec => []PagesInOnePlace
<1>1. CacheInv => PagesInOnePlace
  BY DEF CacheInv, PlaceInv, PagesInOnePlace, Free
<1> QED
  BY <1>1, CacheInvariance, PTL

(* A step that leaves the connection leaves the locked pages.              *)
LEMMA LockedStay ==
  ASSUME CacheInv, [Next]_vars, NEW p \in AllPages, cRef[p] > 0, pages' = pages
  PROVE  pos'[p] = pos[p] /\ \E i \in 1 .. Len(cache') : cache'[i] = p
<1> SUFFICES pos'[p] = pos[p] /\ Cached(p)'
  BY DEF Cached
<1>1. Cached(p) /\ PageTypes /\ PlaceInv /\ CountInv
  BY DEF CacheInv, CountInv
<1>2. p # owned /\ ~Free(p) /\ pos \in [AllPages -> Int] /\ cRef[p] \in Int
  BY <1>1 DEF PlaceInv, Free, PageTypes
<1>3. ASSUME UNCHANGED <<pos, cache>>
      PROVE  pos'[p] = pos[p] /\ Cached(p)'
  BY <1>1, <1>3 DEF Cached
<1>4. ASSUME NEW n \in 1 .. Len(cache) + 1
      PROVE  /\ In(FreeOne(n).cache, p) /\ \A e \in FreeOne(n).free : e.page # p
             /\ FreeOne(n).cache \in Seq(Made)
  BY <1>1, <1>2, <1>4, FreeOneKeeps
<1>5. op # "none" => next \in 1 .. Len(cache) + 1
  BY CacheTypes DEF CacheInv, PageTypes, NextInv
<1>6. CASE Commit
  BY <1>3, <1>6 DEF Commit
<1>7. CASE Decommit
  BY <1>7 DEF Decommit
<1>8. CASE Download
  BY <1>3, <1>8 DEF Download
<1>9. ASSUME NEW b \in AllBlocks, Read(b)
      PROVE  pos'[p] = pos[p] /\ Cached(p)'
  BY <1>3, <1>9 DEF Read
<1>10. ASSUME NEW b \in AllBlocks, Wait(b)
       PROVE  pos'[p] = pos[p] /\ Cached(p)'
  <2>1. PICK e \in FreeOne(Len(cache) + 1).free :
          pos' = [pos EXCEPT ![e.page] = PagePos(Stop(b) - 1)]
    BY <1>10, ChosenIs DEF Wait
  <2>2. cache' = FreeOne(Len(cache) + 1).cache /\ Len(cache) + 1 \in 1 .. Len(cache) + 1
    BY <1>1, <1>10, CacheTypes DEF Wait
  <2> QED
    BY <1>2, <1>4, <2>1, <2>2 DEF Cached, In
<1>11. ASSUME NEW s \in Streams, NEW b \in Blocks[s], SetCurr(s, b)
       PROVE  pos'[p] = pos[p] /\ Cached(p)'
  BY <1>3, <1>11 DEF SetCurr
<1>12. ASSUME NEW s \in Streams, StreamStop(s)
       PROVE  pos'[p] = pos[p] /\ Cached(p)'
  BY <1>3, <1>12 DEF StreamStop
<1>13. CASE InsertPage
  <2>1. PICK e \in FreeOne(next).free :
          /\ cache' = InsertAt(FreeOne(next).cache, FreeOne(next).next, e.page)
          /\ pos' = [pos EXCEPT ![e.page] = PagePos(cur)]
    BY <1>13, ChosenIs DEF InsertPage
  <2>2. next \in 1 .. Len(cache) + 1
    BY <1>5, <1>13 DEF InsertPage, AtMiss
  <2>3. /\ FreeOne(next).next \in 1 .. Len(FreeOne(next).cache) + 1
        /\ FreeOne(next).cache \in Seq(Made) /\ e.page \in Made
    BY <1>1, <2>1, <2>2, FreeOneKeeps
  <2>4. In(cache', p)
    BY <1>4, <2>1, <2>2, <2>3, InsertAtIn
  <2> QED
    BY <1>2, <1>4, <2>1, <2>2, <2>4 DEF Cached, In
<1>14. CASE InsertPageBusy
  BY <1>3, <1>14 DEF InsertPageBusy
<1>15. CASE InsertPageNotBuffered
  <2>1. cache' = FreeOne(next).cache /\ UNCHANGED pos /\ op # "none"
    BY <1>15 DEF InsertPageNotBuffered, AtMiss
  <2> QED
    BY <1>4, <1>5, <2>1 DEF Cached, In
<1>16. CASE InsertPageReadFails
  <2>1. PICK e \in FreeOne(next).free : pos' = [pos EXCEPT ![e.page] = -1]
    BY <1>16, ChosenIs DEF InsertPageReadFails
  <2>2. cache' = FreeOne(next).cache /\ op # "none"
    BY <1>16 DEF InsertPageReadFails, AtMiss
  <2> QED
    BY <1>2, <1>4, <1>5, <2>1, <2>2 DEF Cached, In
<1>17. CASE TakeCached
  BY <1>3, <1>17 DEF TakeCached
<1>18. CASE Return
  BY <1>3, <1>18 DEF Return
<1>19. CASE WaitReturn
  BY <1>3, <1>19 DEF WaitReturn
<1>20. CASE WaitCancelled
  <2>1. pos' = [pos EXCEPT ![owned] = -1] /\ UNCHANGED cache
    BY <1>20 DEF WaitCancelled
  <2> QED
    BY <1>1, <1>2, <2>1 DEF Cached
<1>21. CASE UNCHANGED vars
  BY <1>3, <1>21
<1> QED
  BY <1>6, <1>7, <1>8, <1>9, <1>10, <1>11, <1>12, <1>13, <1>14, <1>15, <1>16, <1>17, <1>18,
     <1>19, <1>20, <1>21 DEF Next, CallStep, Cached

(* A page that a stream has locked keeps what it holds and stays in the    *)
(* cache while the reader is connected, whatever the other streams and the *)
(* parser thread take (FreeOne and PurgeOne of MkvReader).                 *)
THEOREM LockedPagesStay == Spec => LockedPagesStable
<1>1. CacheInv /\ [Next]_vars =>
        [\A p \in AllPages :
           cRef[p] > 0 /\ pages' = pages =>
             pos'[p] = pos[p] /\ (\E i \in 1 .. Len(cache') : cache'[i] = p)]_vars
  BY LockedStay
<1> QED
  BY <1>1, CacheInvariance, PTL DEF Spec, LockedPagesStable

-----------------------------------------------------------------------------
(***************************************************************************)
(* Order, reference counts and what is resident, during the first          *)
(* connection: the cache keeps its pages when the reader is disconnected,  *)
(* and they hold nothing when it is connected again.                       *)
(***************************************************************************)
Live == connects <= 1 /\ pages # {}

(* Without a connection there is nothing in the cache, nothing is locked   *)
(* and no call in progress; the other values have their types.             *)
ValueInv ==
  /\ connects = 0 => cache = <<>> /\ \A p \in AllPages : cRef[p] = 0
  /\ connects <= 1 => pages \in {{}, Made}
  /\ pages = {} =>
       /\ freePages = {} /\ owned = NoPage /\ op = "none"
       /\ \A s \in Streams : locked[s] = NoBlock
  /\ locked \in [Streams -> [start : Nat, size : Nat]]
  /\ \A s \in Streams : locked[s] \in Blocks[s] \cup {NoBlock} /\ Stop(locked[s]) <= Total
  /\ \A p \in AllPages : pos[p] >= -1
  /\ cur \in Nat /\ len \in Nat /\ avail \in 0 .. Total /\ calls \in 0 .. MaxCalls
  /\ fault \in {"none", "busy", "underflow", "read"}

\* the pages c, which hold what ps says, are sorted
SortedIn(c, ps) ==
  /\ \A i \in 1 .. Len(c) : ps[c[i]] >= 0 /\ ps[c[i]] % PageSize = 0
  /\ \A i, j \in 1 .. Len(c) : i < j => ps[c[i]] < ps[c[j]]

\* those before n have been passed by a call that is at x with l bytes to go
PassedIn(c, ps, n, x, l) ==
  /\ \A i \in 1 .. Len(c) : i < n => ps[c[i]] < x /\ (l > 0 => ps[c[i]] + PageSize <= x)
  /\ \A i \in 1 .. Len(c) : i >= n => x <= ps[c[i]]

(* The streams t of T have locked their block up to x, the others all of   *)
(* it: who has locked a page, and what is resident.                        *)
LockedTo(lk, T, x, s) == IF s \in T THEN x ELSE Stop(lk[s])

LocksOf(ps, lk, T, x, p) ==
  {s \in Streams : lk[s] # NoBlock /\ ps[p] < LockedTo(lk, T, x, s)
                   /\ lk[s].start < ps[p] + PageSize}

ResidentIn(c, ps, y) == \E i \in 1 .. Len(c) : ps[c[i]] <= y /\ y < ps[c[i]] + PageSize

CountedIn(c, ps, rf, lk, T, x) ==
  /\ \A p \in Made :
       rf[p] = IF In(c, p) THEN Cardinality(LocksOf(ps, lk, T, x, p)) ELSE 0
  /\ \A s \in Streams : lk[s] # NoBlock =>
       \A y \in lk[s].start .. LockedTo(lk, T, x, s) - 1 : ResidentIn(c, ps, y)

OrderInv == Live => SortedIn(cache, pos) /\ (op # "none" => PassedIn(cache, pos, next, cur, len))

LockingBy(t) ==
  /\ locked[t] # NoBlock /\ locked[t].start <= cur /\ cur + len = Stop(locked[t])
  /\ CountedIn(cache, pos, cRef, locked, {t}, cur)

RefInv ==
  Live /\ fault = "none" =>
    IF op = "lock" THEN \E t \in Streams : LockingBy(t)
                   ELSE CountedIn(cache, pos, cRef, locked, {}, cur)

ReaderInv == CacheInv /\ ValueInv /\ OrderInv /\ RefInv

-----------------------------------------------------------------------------
(* Removing a page from a sorted cache.                                    *)
LEMMA SortedRemove ==
  ASSUME NEW S, NEW c \in Seq(S), NEW ps \in [S -> Int], NEW v \in 1 .. Len(c),
         SortedIn(c, ps)
  PROVE  SortedIn(RemoveAt(c, v), ps)
<1> DEFINE r == RemoveAt(c, v)
           up(i) == IF i < v THEN i ELSE i + 1
<1>1. Len(c) \in Nat /\ v \in Nat /\ Len(r) = Len(c) - 1
      /\ \A i \in 1 .. Len(r) : r[i] = IF i < v THEN c[i] ELSE c[i + 1]
  <2>1. Len(c) \in Nat
    BY LenProperties
  <2>2. Removed(r, c, v)
    BY RemoveAtIs
  <2> QED
    BY <2>1, <2>2 DEF Removed
<1> HIDE DEF r
<1>2. /\ \A i \in 1 .. Len(r) : up(i) \in 1 .. Len(c) /\ r[i] = c[up(i)]
      /\ \A i, j \in 1 .. Len(r) : i < j => up(i) < up(j)
  BY <1>1
<1> HIDE DEF up
<1>3. SortedIn(r, ps)
  BY <1>2 DEF SortedIn
<1> QED
  BY <1>3 DEF r

LEMMA PassedRemove ==
  ASSUME NEW S, NEW c \in Seq(S), NEW ps \in [S -> Int], NEW v \in 1 .. Len(c),
         NEW n \in 1 .. Len(c) + 1, v # n, NEW x, NEW l, PassedIn(c, ps, n, x, l)
  PROVE  PassedIn(RemoveAt(c, v), ps, IF v < n THEN n - 1 ELSE n, x, l)
<1> DEFINE r == RemoveAt(c, v)
           up(i) == IF i < v THEN i ELSE i + 1
           m == IF v < n THEN n - 1 ELSE n
<1>1. /\ Len(c) \in Nat /\ v \in Nat /\ Len(r) = Len(c) - 1
      /\ \A i \in 1 .. Len(r) : r[i] = IF i < v THEN c[i] ELSE c[i + 1]
  <2>1. Len(c) \in Nat
    BY LenProperties
  <2>2. Removed(r, c, v)
    BY RemoveAtIs
  <2> QED
    BY <2>1, <2>2 DEF Removed
<1> HIDE DEF r
<1>4. n \in Nat
  BY <1>1
<1>2. /\ \A i \in 1 .. Len(r) : up(i) \in 1 .. Len(c) /\ r[i] = c[up(i)]
      /\ \A i \in 1 .. Len(r) : i < m => up(i) < n
      /\ \A i \in 1 .. Len(r) : i >= m => up(i) >= n
  BY <1>1, <1>4
<1> HIDE DEF up, m
<1>3. PassedIn(r, ps, m, x, l)
  BY <1>2 DEF PassedIn
<1> QED
  BY <1>3 DEF r, m

(* Nothing that is cached changes when other pages do.                     *)
LEMMA SameInCache ==
  ASSUME NEW S, NEW c \in Seq(S), NEW ps, NEW qs, \A p : In(c, p) => ps[p] = qs[p],
         NEW n, NEW x, NEW l
  PROVE  /\ SortedIn(c, ps) => SortedIn(c, qs)
         /\ PassedIn(c, ps, n, x, l) => PassedIn(c, qs, n, x, l)
         /\ \A y : ResidentIn(c, ps, y) => ResidentIn(c, qs, y)
<1>1. \A i \in 1 .. Len(c) : ps[c[i]] = qs[c[i]]
  BY DEF In
<1> QED
  BY <1>1 DEF SortedIn, PassedIn, ResidentIn

(* Inserting one where a call has missed it.                               *)
LEMMA SortedInsert ==
  ASSUME NEW S, NEW c \in Seq(S), NEW ps \in [S -> Int], NEW n \in 1 .. Len(c) + 1,
         NEW e \in S, ps[e] >= 0, ps[e] % PageSize = 0, SortedIn(c, ps),
         \A i \in 1 .. Len(c) : i < n => ps[c[i]] < ps[e],
         \A i \in 1 .. Len(c) : i >= n => ps[e] < ps[c[i]]
  PROVE  SortedIn(InsertAt(c, n, e), ps)
<1> DEFINE r == InsertAt(c, n, e)
           dn(i) == IF i < n THEN i ELSE i - 1
<1>1. Len(c) \in Nat /\ n \in Nat /\ Len(r) = Len(c) + 1
      /\ \A i \in 1 .. Len(r) : r[i] = IF i < n THEN c[i] ELSE IF i = n THEN e ELSE c[i - 1]
  <2>1. Len(c) \in Nat
    BY LenProperties
  <2>2. Inserted(r, c, n, e)
    BY InsertAtIs
  <2> QED
    BY <2>1, <2>2 DEF Inserted
<1> HIDE DEF r
<1>2. /\ \A i \in 1 .. Len(r) : i # n => dn(i) \in 1 .. Len(c) /\ r[i] = c[dn(i)]
      /\ \A i, j \in 1 .. Len(r) : i # n /\ j # n /\ i < j => dn(i) < dn(j)
      /\ \A i \in 1 .. Len(r) : i < n => dn(i) < n
      /\ \A i \in 1 .. Len(r) : i > n => dn(i) >= n
      /\ n \in 1 .. Len(r) /\ r[n] = e
      /\ \A i \in 1 .. Len(r) : i < n \/ i = n \/ i > n
  BY <1>1
<1> HIDE DEF dn
<1>3. ASSUME NEW i \in 1 .. Len(r)
      PROVE  ps[r[i]] >= 0 /\ ps[r[i]] % PageSize = 0
  BY <1>2 DEF SortedIn
<1>4. ASSUME NEW i \in 1 .. Len(r), NEW j \in 1 .. Len(r), i < j
      PROVE  ps[r[i]] < ps[r[j]]
  <2>1. CASE i = n
    <3>1. j > n /\ j # n
      BY <1>1, <1>4, <2>1
    <3> QED
      BY <1>2, <2>1, <3>1
  <2>2. CASE j = n
    <3>1. i < n /\ i # n
      BY <1>1, <1>4, <2>2
    <3> QED
      BY <1>2, <2>2, <3>1
  <2>3. CASE i # n /\ j # n
    BY <1>2, <1>4, <2>3 DEF SortedIn
  <2> QED
    BY <2>1, <2>2, <2>3
<1>5. SortedIn(r, ps)
  BY <1>3, <1>4 DEF SortedIn
<1> QED
  BY <1>5 DEF r

(* ... and the iterator goes on behind it.                                 *)
LEMMA PassedInsert ==
  ASSUME NEW S, NEW c \in Seq(S), NEW ps \in [S -> Int], NEW n \in 1 .. Len(c) + 1,
         NEW e \in S, NEW y, NEW l,
         \A i \in 1 .. Len(c) : i < n => ps[c[i]] < y /\ ps[c[i]] + PageSize <= y,
         ps[e] < y, l > 0 => ps[e] + PageSize <= y,
         \A i \in 1 .. Len(c) : i >= n => y <= ps[c[i]]
  PROVE  PassedIn(InsertAt(c, n, e), ps, n + 1, y, l)
<1> DEFINE r == InsertAt(c, n, e)
           dn(i) == IF i < n THEN i ELSE i - 1
<1>0. Len(c) \in Nat /\ n \in Nat
  <2>1. Len(c) \in Nat
    BY LenProperties
  <2> QED
    BY <2>1
<1>1. /\ Len(r) = Len(c) + 1
      /\ \A i \in 1 .. Len(r) : r[i] = IF i < n THEN c[i] ELSE IF i = n THEN e ELSE c[i - 1]
  <2>1. Inserted(r, c, n, e)
    BY InsertAtIs
  <2> QED
    BY <1>0, <2>1 DEF Inserted
<1> HIDE DEF r
<1>2. /\ \A i \in 1 .. Len(r) : i # n => dn(i) \in 1 .. Len(c) /\ r[i] = c[dn(i)]
      /\ \A i \in 1 .. Len(r) : i < n => dn(i) < n
      /\ \A i \in 1 .. Len(r) : i >= n + 1 => dn(i) >= n /\ i # n
      /\ \A i \in 1 .. Len(r) : i < n + 1 => i < n \/ i = n
      /\ \A i \in 1 .. Len(r) : i < n => i # n
      /\ r[n] = e
  BY <1>0, <1>1
<1> HIDE DEF dn
<1>3. ASSUME NEW i \in 1 .. Len(r), i < n + 1
      PROVE  ps[r[i]] < y /\ (l > 0 => ps[r[i]] + PageSize <= y)
  <2>1. CASE i = n
    BY <1>2, <2>1
  <2>2. CASE i < n
    <3>1. dn(i) \in 1 .. Len(c) /\ dn(i) < n /\ r[i] = c[dn(i)]
      BY <1>2, <2>2
    <3> QED
      BY <3>1
  <2> QED
    BY <1>2, <1>3, <2>1, <2>2
<1>4. ASSUME NEW i \in 1 .. Len(r), i >= n + 1
      PROVE  y <= ps[r[i]]
  <2>1. dn(i) \in 1 .. Len(c) /\ dn(i) >= n /\ r[i] = c[dn(i)]
    BY <1>2, <1>4
  <2> QED
    BY <2>1
<1>5. PassedIn(r, ps, n + 1, y, l)
  BY <1>3, <1>4 DEF PassedIn
<1> QED
  BY <1>5 DEF r

-----------------------------------------------------------------------------
(* Two pages of a sorted cache lie apart, or are one.                      *)
LEMMA PagesApart ==
  ASSUME NEW S, NEW c \in Seq(S), NEW ps \in [S -> Int], SortedIn(c, ps),
         NEW p, NEW q, In(c, p), In(c, q)
  PROVE  /\ ps[p] \in Nat /\ ps[p] % PageSize = 0 /\ p \in S
         /\ p = q \/ ps[p] + PageSize <= ps[q] \/ ps[q] + PageSize <= ps[p]
<1>1. PICK i \in 1 .. Len(c) : c[i] = p
  BY DEF In
<1>2. PICK j \in 1 .. Len(c) : c[j] = q
  BY DEF In
<1>3. p \in S /\ q \in S
  BY <1>1, <1>2, ElementOfSeq
<1>4. /\ ps[p] \in Int /\ ps[p] >= 0 /\ ps[p] % PageSize = 0
      /\ ps[q] \in Int /\ ps[q] >= 0 /\ ps[q] % PageSize = 0
      /\ i < j => ps[p] < ps[q]
      /\ j < i => ps[q] < ps[p]
  BY <1>1, <1>2, <1>3 DEF SortedIn
<1>5. Len(c) \in Nat
  BY LenProperties
<1>6. i < j \/ i = j \/ j < i
  BY <1>5
<1>7. i < j => ps[p] + PageSize <= ps[q]
  BY <1>4, Apart
<1>8. j < i => ps[q] + PageSize <= ps[p]
  BY <1>4, Apart
<1> QED
  BY <1>1, <1>2, <1>3, <1>4, <1>6, <1>7, <1>8

(* The page a byte is on.                                                  *)
LEMMA ResidentOn ==
  ASSUME NEW c, NEW ps, NEW y
  PROVE  /\ ResidentIn(c, ps, y) => \E q : In(c, q) /\ ps[q] <= y /\ y < ps[q] + PageSize
         /\ \A q : In(c, q) /\ ps[q] <= y /\ y < ps[q] + PageSize => ResidentIn(c, ps, y)
BY DEF ResidentIn, In

(* The streams that have locked a page.                                    *)
LEMMA LocksFinite ==
  ASSUME NEW ps, NEW lk, NEW T, NEW x, NEW p
  PROVE  /\ LocksOf(ps, lk, T, x, p) \subseteq Streams
         /\ IsFiniteSet(LocksOf(ps, lk, T, x, p))
         /\ Cardinality(LocksOf(ps, lk, T, x, p)) \in Nat
         /\ Cardinality(LocksOf(ps, lk, T, x, p)) = 0 <=> LocksOf(ps, lk, T, x, p) = {}
<1>1. LocksOf(ps, lk, T, x, p) \subseteq Streams
  BY DEF LocksOf
<1> QED
  BY <1>1, FS_Subset, FS_CardinalityType, FS_EmptySet, BlocksAssumption

LocksTyped(lk) ==
  /\ lk \in [Streams -> [start : Nat, size : Nat]]
  /\ \A s \in Streams : lk[s] # NoBlock => lk[s].size > 0

LEMMA LockedToType ==
  ASSUME NEW lk, LocksTyped(lk), NEW T, NEW x \in Int, NEW s \in Streams
  PROVE  /\ lk[s].start \in Nat /\ lk[s].size \in Nat /\ Stop(lk[s]) \in Nat
         /\ LockedTo(lk, T, x, s) \in Int
<1>1. lk[s] \in [start : Nat, size : Nat]
  BY DEF LocksTyped
<1> QED
  BY <1>1 DEF Stop, LockedTo

(* Pages that are not locked may leave the cache, and what is not cached   *)
(* may hold anything.                                                      *)
LEMMA CountedRemove ==
  ASSUME NEW c, NEW d, NEW ps, NEW qs, NEW rf \in [AllPages -> Int],
         NEW lk, LocksTyped(lk), NEW T, NEW x \in Int, CountedIn(c, ps, rf, lk, T, x),
         ps \in [AllPages -> Int], \A p : In(c, p) => p \in Made, Made \subseteq AllPages,
         \A p : In(d, p) => In(c, p) /\ qs[p] = ps[p],
         \A p : In(c, p) => In(d, p) \/ rf[p] <= 0
  PROVE  CountedIn(d, qs, rf, lk, T, x)
<1>1. ASSUME NEW p, In(c, p), rf[p] <= 0 PROVE LocksOf(ps, lk, T, x, p) = {} /\ rf[p] = 0
  <2>1. p \in Made /\ rf[p] = Cardinality(LocksOf(ps, lk, T, x, p))
    BY <1>1 DEF CountedIn
  <2> QED
    BY <1>1, <2>1, LocksFinite
<1>2. ASSUME NEW p \in Made
      PROVE  rf[p] = IF In(d, p) THEN Cardinality(LocksOf(qs, lk, T, x, p)) ELSE 0
  <2>1. CASE In(d, p)
    <3>1. LocksOf(qs, lk, T, x, p) = LocksOf(ps, lk, T, x, p) /\ In(c, p)
      BY <2>1 DEF LocksOf
    <3> QED
      BY <2>1, <3>1 DEF CountedIn
  <2>2. CASE ~In(d, p) /\ In(c, p)
    BY <1>1, <2>2
  <2>3. CASE ~In(d, p) /\ ~In(c, p)
    BY <2>3 DEF CountedIn
  <2> QED
    BY <2>1, <2>2, <2>3
<1>3. ASSUME NEW s \in Streams, lk[s] # NoBlock, NEW y \in lk[s].start .. LockedTo(lk, T, x, s) - 1
      PROVE  ResidentIn(d, qs, y)
  <2>1. PICK p : In(c, p) /\ ps[p] <= y /\ y < ps[p] + PageSize
    BY <1>3, ResidentOn DEF CountedIn
  <2>2. /\ lk[s].start \in Int /\ LockedTo(lk, T, x, s) \in Int /\ ps[p] \in Int
        /\ PageSize \in Int
    BY <2>1, LockedToType, SizesAssumption
  <2>4. ps[p] < LockedTo(lk, T, x, s) /\ lk[s].start < ps[p] + PageSize
    BY <2>1, <2>2
  <2>5. s \in LocksOf(ps, lk, T, x, p)
    BY <1>3, <2>4 DEF LocksOf
  <2>3. In(d, p)
    BY <1>1, <2>1, <2>5
  <2> QED
    BY <2>1, <2>3, ResidentOn
<1> QED
  BY <1>2, <1>3 DEF CountedIn

(* A call of the streams T comes to page p, which it puts into the cache   *)
(* or finds there, and counts it for them.                                 *)
LEMMA CountedTouch ==
  ASSUME NEW c, NEW d, NEW ps \in [AllPages -> Int], NEW rf, NEW rfn,
         NEW lk, LocksTyped(lk), NEW T, NEW x \in Int, NEW y \in Int, NEW p \in Made,
         CountedIn(c, ps, rf, lk, T, x), \A q : In(c, q) => q \in Made,
         Made \subseteq AllPages,
         \A q : In(d, q) <=> In(c, q) \/ q = p,
         \A q : In(c, q) /\ q # p => ps[q] + PageSize <= ps[p] \/ ps[p] + PageSize <= ps[q],
         ps[p] <= x, x <= y, y <= ps[p] + PageSize,
         \A q \in Made : q # p => rfn[q] = rf[q],
         rfn[p] = Cardinality(LocksOf(ps, lk, T, y, p))
  PROVE  CountedIn(d, ps, rfn, lk, T, y)
<1>1. PageSize \in Nat /\ PageSize > 0 /\ ps[p] \in Int
  BY SizesAssumption
<1>2. ASSUME NEW q \in Made, In(c, q), q # p
      PROVE  LocksOf(ps, lk, T, y, q) = LocksOf(ps, lk, T, x, q)
  <2>1. ps[q] \in Int /\ (ps[q] + PageSize <= ps[p] \/ ps[p] + PageSize <= ps[q])
    BY <1>2
  <2>2. ps[q] < x <=> ps[q] < y
    BY <1>1, <2>1
  <2>3. \A s \in Streams : ps[q] < LockedTo(lk, T, x, s) <=> ps[q] < LockedTo(lk, T, y, s)
    BY <2>2 DEF LockedTo
  <2> QED
    BY <2>3 DEF LocksOf
<1>3. ASSUME NEW q \in Made
      PROVE  rfn[q] = IF In(d, q) THEN Cardinality(LocksOf(ps, lk, T, y, q)) ELSE 0
  <2>1. CASE q = p
    BY <2>1
  <2>2. CASE q # p /\ In(c, q)
    BY <1>2, <2>2 DEF CountedIn
  <2>3. CASE q # p /\ ~In(c, q)
    BY <2>3 DEF CountedIn
  <2> QED
    BY <2>1, <2>2, <2>3
<1>4. ASSUME NEW s \in Streams, lk[s] # NoBlock, NEW z \in lk[s].start .. LockedTo(lk, T, y, s) - 1
      PROVE  ResidentIn(d, ps, z)
  <2>1. lk[s].start \in Int /\ LockedTo(lk, T, x, s) \in Int /\ LockedTo(lk, T, y, s) \in Int
    BY LockedToType
  <2>2. CASE z < LockedTo(lk, T, x, s)
    <3>1. z \in lk[s].start .. LockedTo(lk, T, x, s) - 1
      BY <2>1, <2>2
    <3>2. PICK q : In(c, q) /\ ps[q] <= z /\ z < ps[q] + PageSize
      BY <1>4, <3>1, ResidentOn DEF CountedIn
    <3> QED
      BY <3>2, ResidentOn
  <2>3. CASE ~(z < LockedTo(lk, T, x, s))
    <3>1. s \in T /\ x <= z /\ z < y
      BY <2>1, <2>3 DEF LockedTo
    <3>2. In(d, p) /\ ps[p] <= z /\ z < ps[p] + PageSize
      BY <1>1, <3>1
    <3> QED
      BY <3>2, ResidentOn
  <2> QED
    BY <2>2, <2>3
<1> QED
  BY <1>3, <1>4 DEF CountedIn

(* A page that the cache lacks is not locked by a stream that has locked   *)
(* all of its block.                                                       *)
LEMMA NotLocked ==
  ASSUME NEW c, NEW ps \in [AllPages -> Int], NEW rf, NEW lk, LocksTyped(lk), NEW T,
         NEW x \in Int, NEW y \in Int, NEW p \in Made, Made \subseteq AllPages,
         CountedIn(c, ps, rf, lk, T, x), \A q : In(c, q) => q \in Made,
         \A q : In(c, q) => ps[q] + PageSize <= ps[p] \/ ps[p] + PageSize <= ps[q]
  PROVE  LocksOf(ps, lk, T, y, p) \subseteq T
<1> SUFFICES ASSUME NEW s \in LocksOf(ps, lk, T, y, p), s \notin T
             PROVE  FALSE
  OBVIOUS
<1>1. /\ s \in Streams /\ lk[s] # NoBlock
      /\ ps[p] < Stop(lk[s]) /\ lk[s].start < ps[p] + PageSize
  BY DEF LocksOf, LockedTo
<1>2. /\ PageSize \in Nat /\ PageSize > 0 /\ ps[p] \in Int
      /\ lk[s].start \in Nat /\ Stop(lk[s]) \in Nat /\ lk[s].start < Stop(lk[s])
  <2>1. lk[s].start \in Nat /\ lk[s].size \in Nat /\ lk[s].size > 0
    BY <1>1, LockedToType DEF LocksTyped
  <2> QED
    BY <2>1, SizesAssumption DEF Stop
<1>3. \E z \in Int : /\ lk[s].start <= z /\ z <= Stop(lk[s]) - 1
                     /\ ps[p] <= z /\ z < ps[p] + PageSize
  <2>1. CASE ps[p] <= lk[s].start
    BY <1>1, <1>2, <2>1
  <2>2. CASE ~(ps[p] <= lk[s].start)
    BY <1>1, <1>2, <2>2
  <2> QED
    BY <2>1, <2>2
<1>4. PICK z \in Int : /\ lk[s].start <= z /\ z <= Stop(lk[s]) - 1
                       /\ ps[p] <= z /\ z < ps[p] + PageSize
  BY <1>3
<1>5. z \in lk[s].start .. LockedTo(lk, T, x, s) - 1
  BY <1>2, <1>4 DEF LockedTo
<1>6. PICK q : In(c, q) /\ ps[q] <= z /\ z < ps[q] + PageSize
  BY <1>1, <1>5, ResidentOn DEF CountedIn
<1>7. ps[q] \in Int /\ (ps[q] + PageSize <= ps[p] \/ ps[p] + PageSize <= ps[q])
  BY <1>6
<1> QED
  BY ONLY <1>2, <1>4, <1>6, <1>7

(* How far the call of no stream has come does not matter.                 *)
LEMMA CountedRead ==
  ASSUME NEW c, NEW ps, NEW rf, NEW lk, NEW x, NEW y, CountedIn(c, ps, rf, lk, {}, x)
  PROVE  CountedIn(c, ps, rf, lk, {}, y)
<1>1. \A s : LockedTo(lk, {}, x, s) = LockedTo(lk, {}, y, s)
  BY DEF LockedTo
<1>2. \A p : LocksOf(ps, lk, {}, x, p) = LocksOf(ps, lk, {}, y, p)
  BY <1>1 DEF LocksOf
<1> QED
  BY <1>1, <1>2 DEF CountedIn

(* When a stream has locked its block to the end it has locked all of it.  *)
LEMMA CountedEnd ==
  ASSUME NEW c, NEW ps, NEW rf, NEW lk, NEW t, CountedIn(c, ps, rf, lk, {t}, Stop(lk[t]))
  PROVE  CountedIn(c, ps, rf, lk, {}, 0)
<1>1. \A s : LockedTo(lk, {t}, Stop(lk[t]), s) = LockedTo(lk, {}, 0, s)
  BY DEF LockedTo
<1>2. \A p : LocksOf(ps, lk, {t}, Stop(lk[t]), p) = LocksOf(ps, lk, {}, 0, p)
  BY <1>1 DEF LocksOf
<1> QED
  BY <1>1, <1>2 DEF CountedIn

-----------------------------------------------------------------------------
(* The binary search in a sorted cache.                                    *)
LEMMA IndexesApart ==
  ASSUME PageTypes, SortedIn(cache, pos), NEW i \in 1 .. Len(cache), NEW j \in 1 .. Len(cache)
  PROVE  /\ pos[cache[i]] \in Nat /\ pos[cache[i]] % PageSize = 0
         /\ i < j => pos[cache[i]] + PageSize <= pos[cache[j]]
<1>1. /\ pos[cache[i]] \in Int /\ pos[cache[i]] >= 0 /\ pos[cache[i]] % PageSize = 0
      /\ pos[cache[j]] \in Int /\ pos[cache[j]] >= 0 /\ pos[cache[j]] % PageSize = 0
      /\ i < j => pos[cache[i]] < pos[cache[j]]
  BY CacheTypes DEF SortedIn
<1> QED
  BY <1>1, Apart

LEMMA SearchIs ==
  ASSUME PageTypes, SortedIn(cache, pos), NEW x \in Int
  PROVE  /\ UpperBound(x) \in 1 .. Len(cache) + 1
         /\ \A i \in 1 .. Len(cache) : i < UpperBound(x) => pos[cache[i]] <= x
         /\ \A i \in 1 .. Len(cache) : i >= UpperBound(x) => pos[cache[i]] > x
         /\ \A i \in 1 .. Len(cache) : i < UpperBound(x) - 1 => pos[cache[i]] + PageSize <= x
         /\ Hit(x) => /\ UpperBound(x) - 1 \in 1 .. Len(cache)
                      /\ x < pos[cache[UpperBound(x) - 1]] + PageSize
         /\ ~Hit(x) => \A i \in 1 .. Len(cache) : i < UpperBound(x) => pos[cache[i]] + PageSize <= x
<1> DEFINE u == UpperBound(x)
<1>1. PageSize \in Nat /\ PageSize > 0 /\ Len(cache) \in Nat
  BY SizesAssumption, CacheTypes
<1>2. /\ u \in 1 .. Len(cache) + 1
      /\ \A i \in 1 .. u - 1 : pos[cache[i]] <= x
      /\ u <= Len(cache) => pos[cache[u]] > x
  BY UpperBoundIs
<1>3. Hit(x) <=> u > 1 /\ x < pos[cache[u - 1]] + PageSize
  BY DEF Hit, PageEnd
<1> HIDE DEF u
<1>4. u \in Nat /\ u >= 1 /\ u <= Len(cache) + 1
  BY <1>1, <1>2
<1>5. ASSUME NEW i \in 1 .. Len(cache), i < u PROVE pos[cache[i]] <= x
  BY <1>2, <1>4, <1>5
<1>6. ASSUME NEW i \in 1 .. Len(cache), i >= u PROVE pos[cache[i]] > x
  <2>1. u \in 1 .. Len(cache) /\ pos[cache[u]] > x
    BY <1>1, <1>2, <1>4, <1>6
  <2>2. pos[cache[i]] \in Int /\ pos[cache[u]] \in Int
    BY <2>1, IndexesApart
  <2>3. CASE i = u
    BY <2>1, <2>3
  <2>4. CASE i > u
    <3>1. pos[cache[u]] + PageSize <= pos[cache[i]]
      BY <2>1, <2>4, IndexesApart
    <3> QED
      BY <1>1, <2>1, <2>2, <3>1
  <2> QED
    BY <1>4, <1>6, <2>3, <2>4
<1>7. ASSUME NEW i \in 1 .. Len(cache), i < u - 1 PROVE pos[cache[i]] + PageSize <= x
  <2>1. u - 1 \in 1 .. Len(cache) /\ pos[cache[u - 1]] <= x
    BY <1>1, <1>2, <1>4, <1>7
  <2>2. pos[cache[i]] + PageSize <= pos[cache[u - 1]] /\ pos[cache[i]] \in Int /\ pos[cache[u - 1]] \in Int
    BY <1>7, <2>1, IndexesApart
  <2> QED
    BY <1>1, <2>1, <2>2
<1>8. ASSUME Hit(x) PROVE u - 1 \in 1 .. Len(cache) /\ x < pos[cache[u - 1]] + PageSize
  BY <1>1, <1>3, <1>4, <1>8
<1>9. ASSUME ~Hit(x), NEW i \in 1 .. Len(cache), i < u PROVE pos[cache[i]] + PageSize <= x
  <2>1. CASE i < u - 1
    BY <1>7, <2>1
  <2>2. CASE ~(i < u - 1)
    <3>1. i = u - 1 /\ u > 1
      BY <1>4, <1>9, <2>2
    <3>2. ~(x < pos[cache[i]] + PageSize) /\ pos[cache[i]] \in Int
      BY <1>3, <1>9, <3>1, IndexesApart
    <3> QED
      BY <1>1, <3>2
  <2> QED
    BY <2>1, <2>2
<1> QED
  BY <1>2, <1>5, <1>6, <1>7, <1>8, <1>9 DEF u

(* UnlockPages stays in the cache.                                         *)
LEMMA VisitedIn ==
  ASSUME PageTypes, NEW b \in [start : Nat, size : Nat]
  PROVE  Visited(b) \subseteq 1 .. Len(cache)
<1>1. b.start \in Int /\ Len(cache) \in Nat
  BY CacheTypes
<1>2. UpperBound(b.start) \in 1 .. Len(cache) + 1
  BY <1>1, UpperBoundIs
<1>3. UpperBound(b.start) \in Nat /\ UpperBound(b.start) >= 1
  BY <1>1, <1>2
<1>4. Hit(b.start) => UpperBound(b.start) > 1
  BY DEF Hit
<1>5. FirstOf(b) \in Int /\ FirstOf(b) >= 1
  BY <1>3, <1>4 DEF FirstOf
<1> QED
  BY <1>1, <1>5 DEF Visited

(* UnlockPages visits the pages that the block lies on, if all of them are *)
(* cached.                                                                 *)
LEMMA VisitedIs ==
  ASSUME PageTypes, SortedIn(cache, pos), NEW b \in [start : Nat, size : Nat], b.size > 0,
         \A y \in b.start .. Stop(b) - 1 : ResidentIn(cache, pos, y),
         NEW i \in 1 .. Len(cache)
  PROVE  i \in Visited(b) <=> pos[cache[i]] < Stop(b) /\ b.start < pos[cache[i]] + PageSize
<1> DEFINE k == UpperBound(b.start) - 1
<1>1. /\ PageSize \in Nat /\ PageSize > 0 /\ Len(cache) \in Nat
      /\ b.start \in Nat /\ Stop(b) \in Nat /\ b.start < Stop(b)
  BY SizesAssumption, CacheTypes DEF Stop
<1>8. /\ UpperBound(b.start) \in 1 .. Len(cache) + 1
      /\ \A m \in 1 .. Len(cache) : m < UpperBound(b.start) => pos[cache[m]] <= b.start
      /\ \A m \in 1 .. Len(cache) : m >= UpperBound(b.start) => pos[cache[m]] > b.start
      /\ Hit(b.start) =>
           k \in 1 .. Len(cache) /\ b.start < pos[cache[k]] + PageSize
      /\ ~Hit(b.start) =>
           \A m \in 1 .. Len(cache) : m < UpperBound(b.start) => pos[cache[m]] + PageSize <= b.start
  <2>1. b.start \in Int
    BY <1>1
  <2> QED
    BY <2>1, SearchIs
<1>2. Hit(b.start)
  <2>1. b.start \in b.start .. Stop(b) - 1
    BY <1>1
  <2>2. PICK m \in 1 .. Len(cache) : pos[cache[m]] <= b.start /\ b.start < pos[cache[m]] + PageSize
    BY <2>1 DEF ResidentIn
  <2>3. UpperBound(b.start) \in Nat /\ pos[cache[m]] \in Int
    BY <1>1, <1>8, IndexesApart
  <2>4. m < UpperBound(b.start)
    BY <1>1, <1>8, <2>2, <2>3
  <2> QED
    BY <1>1, <1>8, <2>2, <2>3, <2>4
<1>3. /\ k \in 1 .. Len(cache) /\ pos[cache[k]] <= b.start /\ b.start < pos[cache[k]] + PageSize
      /\ FirstOf(b) = k
  BY <1>1, <1>2, <1>8 DEF FirstOf
<1> HIDE DEF k
<1>4. /\ \A m \in 1 .. Len(cache) : pos[cache[m]] \in Int
      /\ \A m, n \in 1 .. Len(cache) : m < n => pos[cache[m]] + PageSize <= pos[cache[n]]
  BY IndexesApart
<1>5. Visited(b) = {m \in k .. Len(cache) : \A j \in k .. m - 1 : pos[cache[j]] + PageSize < Stop(b)}
  BY <1>3 DEF Visited, PageEnd
<1>6. ASSUME pos[cache[i]] < Stop(b), b.start < pos[cache[i]] + PageSize
      PROVE  i \in Visited(b)
  <2>1. i >= k
    <3>1. CASE i < k
      <4>1. pos[cache[i]] + PageSize <= pos[cache[k]]
        BY <1>3, <1>4, <3>1
      <4> QED
        BY <1>1, <1>3, <1>4, <1>6, <4>1
    <3> QED
      BY <1>1, <1>3, <3>1
  <2>2. ASSUME NEW j \in k .. i - 1 PROVE pos[cache[j]] + PageSize < Stop(b)
    <3>1. j \in 1 .. Len(cache) /\ j < i
      BY <1>1, <1>3
    <3>2. pos[cache[j]] + PageSize <= pos[cache[i]] /\ pos[cache[j]] \in Int /\ pos[cache[i]] \in Int
      BY <1>4, <3>1
    <3> QED
      BY <1>1, <1>6, <3>2
  <2>3. i \in k .. Len(cache)
    BY <1>1, <1>3, <2>1
  <2> QED
    BY <1>5, <2>2, <2>3
<1>7. ASSUME i \in Visited(b)
      PROVE  pos[cache[i]] < Stop(b) /\ b.start < pos[cache[i]] + PageSize
  <2>1. CASE i = k
    BY <1>1, <1>3, <1>4, <2>1
  <2>2. CASE i > k
    <3> DEFINE h == i - 1
               z == pos[cache[h]] + PageSize
    <3>1. h \in k .. i - 1 /\ h \in 1 .. Len(cache) /\ h < i
      BY <1>1, <1>3, <2>2
    <3>2. z < Stop(b) /\ z \in Int
      BY <1>1, <1>4, <1>5, <1>7, <3>1
    <3>3. pos[cache[k]] <= pos[cache[h]]
      <4>1. CASE h = k
        BY <1>3, <1>4, <4>1
      <4>2. CASE h > k
        <5>1. pos[cache[k]] + PageSize <= pos[cache[h]]
          BY <1>3, <1>4, <3>1, <4>2
        <5> QED
          BY <1>1, <1>3, <1>4, <3>1, <5>1, SMTT(30)
      <4> QED
        BY <1>1, <1>3, <3>1, <4>1, <4>2
    <3>4. b.start < z
      BY <1>1, <1>3, <1>4, <3>1, <3>3, SMTT(30)
    <3>5. z \in b.start .. Stop(b) - 1
      BY <1>1, <3>2, <3>4
    <3>6. PICK m \in 1 .. Len(cache) : pos[cache[m]] <= z /\ z < pos[cache[m]] + PageSize
      BY <3>5 DEF ResidentIn
    <3>7. m > h
      <4>1. CASE m < h
        <5>1. pos[cache[m]] + PageSize <= pos[cache[h]]
          BY <1>4, <3>1, <4>1
        <5> QED
          BY <1>1, <1>4, <3>1, <3>6, <5>1, SMTT(30)
      <4>2. CASE m = h
        BY <1>1, <1>4, <3>1, <3>6, <4>2
      <4> QED
        BY <1>1, <3>1, <4>1, <4>2
    <3>8. pos[cache[i]] <= pos[cache[m]]
      <4>1. CASE m = i
        BY <1>4, <4>1
      <4>2. CASE m > i
        <5>1. pos[cache[i]] + PageSize <= pos[cache[m]]
          BY <1>4, <4>2
        <5> QED
          BY <1>1, <1>4, <5>1
      <4> QED
        BY <1>1, <3>7, <4>1, <4>2
    <3>9. z <= pos[cache[i]]
      BY <1>4, <3>1
    <3> HIDE DEF z
    <3> QED
      BY <1>1, <1>4, <3>2, <3>4, <3>6, <3>8, <3>9
  <2> QED
    BY <1>1, <1>3, <1>5, <1>7, <2>1, <2>2
<1> QED
  BY <1>6, <1>7

(* A stream gives back the pages of its block.                             *)
LEMMA CountedUnlock ==
  ASSUME PageTypes, PlaceInv, SortedIn(cache, pos), LocksTyped(locked), NEW s \in Streams,
         CountedIn(cache, pos, cRef, locked, {}, 0)
  PROVE  CountedIn(cache, pos, UnlockPages(locked[s]), [locked EXCEPT ![s] = NoBlock], {}, 0)
<1> DEFINE b  == locked[s]
           lk == [locked EXCEPT ![s] = NoBlock]
           rf == UnlockPages(b)
<1>1. /\ b \in [start : Nat, size : Nat]
      /\ b # NoBlock => b.size > 0
      /\ lk[s] = NoBlock /\ \A t \in Streams : t # s => lk[t] = locked[t]
      /\ Made \subseteq AllPages
  BY CacheTypes DEF LocksTyped
<1>2. \A t \in Streams : LockedTo(lk, {}, 0, t) = Stop(lk[t]) /\ LockedTo(locked, {}, 0, t) = Stop(locked[t])
  BY DEF LockedTo
<1>3. \A p \in AllPages :
        rf[p] = IF b # NoBlock /\ (\E i \in Visited(b) : cache[i] = p) THEN cRef[p] - 1 ELSE cRef[p]
  BY DEF UnlockPages
<1> HIDE DEF lk, rf
<1>4. ASSUME NEW p \in Made
      PROVE  rf[p] = IF In(cache, p) THEN Cardinality(LocksOf(pos, lk, {}, 0, p)) ELSE 0
  <2>1. LocksOf(pos, lk, {}, 0, p) = LocksOf(pos, locked, {}, 0, p) \ {s}
    BY <1>1, <1>2 DEF LocksOf
  <2>2. CASE ~In(cache, p)
    <3>1. ~(\E i \in Visited(b) : cache[i] = p)
      <4>1. Visited(b) \subseteq 1 .. Len(cache)
        BY <1>1, VisitedIn
      <4> QED
        BY <2>2, <4>1 DEF In
    <3>2. rf[p] = cRef[p] /\ cRef[p] = 0
      BY <1>1, <1>3, <2>2, <3>1 DEF CountedIn
    <3> QED
      BY <2>2, <3>2
  <2>3. CASE In(cache, p)
    <3>1. PICK i \in 1 .. Len(cache) : cache[i] = p
      BY <2>3 DEF In
    <3>2. \A j : j \in 1 .. Len(cache) /\ cache[j] = p => j = i
      BY <3>1 DEF PlaceInv
    <3>3. cRef[p] = Cardinality(LocksOf(pos, locked, {}, 0, p))
      BY <2>3 DEF CountedIn
    <3>4. CASE b = NoBlock
      <4>1. s \notin LocksOf(pos, locked, {}, 0, p)
        BY <3>4 DEF LocksOf
      <4>2. LocksOf(pos, locked, {}, 0, p) \ {s} = LocksOf(pos, locked, {}, 0, p)
        BY <4>1
      <4> QED
        BY <1>1, <1>3, <2>1, <2>3, <3>3, <3>4, <4>2
    <3>5. CASE b # NoBlock
      <4>1. \A y \in b.start .. Stop(b) - 1 : ResidentIn(cache, pos, y)
        BY <1>2, <3>5 DEF CountedIn
      <4>2. \A j \in 1 .. Len(cache) :
              j \in Visited(b) <=> pos[cache[j]] < Stop(b) /\ b.start < pos[cache[j]] + PageSize
        BY <1>1, <3>5, <4>1, VisitedIs
      <4>3. i \in Visited(b) <=> s \in LocksOf(pos, locked, {}, 0, p)
        BY <1>2, <3>1, <3>5, <4>2 DEF LocksOf
      <4>4. (\E j \in Visited(b) : cache[j] = p) <=> i \in Visited(b)
        <5>1. \A j \in Visited(b) : cache[j] = p => j = i
          <6>1. Visited(b) \subseteq 1 .. Len(cache)
            BY <1>1, VisitedIn
          <6> QED
            BY <3>2, <6>1
        <5> QED
          BY <3>1, <5>1
      <4>5. Cardinality(LocksOf(pos, locked, {}, 0, p) \ {s}) =
              IF s \in LocksOf(pos, locked, {}, 0, p)
              THEN Cardinality(LocksOf(pos, locked, {}, 0, p)) - 1
              ELSE Cardinality(LocksOf(pos, locked, {}, 0, p))
        BY LocksFinite, FS_RemoveElement
      <4> QED
        BY <1>1, <1>3, <2>1, <2>3, <3>3, <3>5, <4>3, <4>4, <4>5
    <3> QED
      BY <3>4, <3>5
  <2> QED
    BY <2>2, <2>3
<1>5. ASSUME NEW t \in Streams, lk[t] # NoBlock, NEW y \in lk[t].start .. LockedTo(lk, {}, 0, t) - 1
      PROVE  ResidentIn(cache, pos, y)
  <2>1. lk[t] = locked[t] /\ LockedTo(locked, {}, 0, t) = LockedTo(lk, {}, 0, t)
    BY <1>1, <1>2, <1>5
  <2> QED
    BY <1>5, <2>1 DEF CountedIn
<1>6. CountedIn(cache, pos, rf, lk, {}, 0)
  BY <1>4, <1>5 DEF CountedIn
<1> QED
  BY <1>6 DEF lk, rf

(* It takes a block, of which it has locked nothing yet.                   *)
LEMMA CountedSet ==
  ASSUME NEW c, NEW ps, NEW rf, NEW lk, LocksTyped(lk), NEW s \in Streams, lk[s] = NoBlock,
         NEW b, NEW x \in Int, x <= b.start, b.start \in Nat,
         CountedIn(c, ps, rf, lk, {}, 0), \A q : In(c, q) => q \in Made,
         \A q : In(c, q) => ~(ps[q] < x /\ b.start < ps[q] + PageSize)
  PROVE  CountedIn(c, ps, rf, [lk EXCEPT ![s] = b], {s}, x)
<1> DEFINE l2 == [lk EXCEPT ![s] = b]
<1>1. l2[s] = b /\ \A t \in Streams : t # s => l2[t] = lk[t]
  BY DEF LocksTyped
<1> HIDE DEF l2
<1>2. /\ \A t \in Streams : t # s => LockedTo(l2, {s}, x, t) = LockedTo(lk, {}, 0, t)
      /\ LockedTo(l2, {s}, x, s) = x
  BY <1>1 DEF LockedTo
<1>3. ASSUME NEW p \in Made
      PROVE  rf[p] = IF In(c, p) THEN Cardinality(LocksOf(ps, l2, {s}, x, p)) ELSE 0
  <2>1. CASE In(c, p)
    <3>1. LocksOf(ps, l2, {s}, x, p) = LocksOf(ps, lk, {}, 0, p)
      <4>1. ASSUME NEW t \in Streams
            PROVE  t \in LocksOf(ps, l2, {s}, x, p) <=> t \in LocksOf(ps, lk, {}, 0, p)
        <5>1. CASE t = s
          BY <1>1, <1>2, <2>1, <5>1 DEF LocksOf
        <5>2. CASE t # s
          BY <1>1, <1>2, <5>2 DEF LocksOf
        <5> QED
          BY <5>1, <5>2
      <4> QED
        BY <4>1 DEF LocksOf
    <3> QED
      BY <2>1, <3>1 DEF CountedIn
  <2>2. CASE ~In(c, p)
    BY <2>2 DEF CountedIn
  <2> QED
    BY <2>1, <2>2
<1>4. ASSUME NEW t \in Streams, l2[t] # NoBlock, NEW y \in l2[t].start .. LockedTo(l2, {s}, x, t) - 1
      PROVE  ResidentIn(c, ps, y)
  <2>1. CASE t = s
    BY <1>1, <1>2, <2>1
  <2>2. CASE t # s
    BY <1>1, <1>2, <1>4, <2>2 DEF CountedIn
  <2> QED
    BY <2>1, <2>2
<1>5. CountedIn(c, ps, rf, l2, {s}, x)
  BY <1>3, <1>4 DEF CountedIn
<1> QED
  BY <1>5 DEF l2

-----------------------------------------------------------------------------
(* The cache as a sequence of pages of the reader.                         *)
LEMMA SeqWider ==
  ASSUME NEW S, NEW T, S \subseteq T, NEW c \in Seq(S)
  PROVE  c \in Seq(T)
<1>1. PICK n \in Nat : c \in [1 .. n -> S]
  BY SeqDef
<1>2. c \in [1 .. n -> T]
  BY <1>1
<1> QED
  BY <1>2, SeqDef

(* FreeOne leaves the cache sorted and the iterator where it was.          *)
LEMMA FreeOneSorted ==
  ASSUME PageTypes, SortedIn(cache, pos), NEW n \in 1 .. Len(cache) + 1
  PROVE  /\ SortedIn(FreeOne(n).cache, pos)
         /\ \A x, l : PassedIn(cache, pos, n, x, l) =>
                        PassedIn(FreeOne(n).cache, pos, FreeOne(n).next, x, l)
<1>1. cache \in Seq(AllPages) /\ pos \in [AllPages -> Int] /\ n \in Nat
  <2>1. Len(cache) \in Nat /\ Made \subseteq AllPages
    BY CacheTypes
  <2> QED
    BY <2>1, SeqWider DEF PageTypes
<1>2. CASE FreeOne(n) = [cache |-> cache, free |-> freePages, next |-> n]
  BY <1>2
<1>3. ASSUME NEW v \in 1 .. Len(cache), v # n,
             FreeOne(n) = [cache |-> RemoveAt(cache, v), free |-> {Entry(cache[v])},
                           next |-> IF v < n THEN n - 1 ELSE n]
      PROVE  /\ SortedIn(FreeOne(n).cache, pos)
             /\ \A x, l : PassedIn(cache, pos, n, x, l) =>
                            PassedIn(FreeOne(n).cache, pos, FreeOne(n).next, x, l)
  <2>1. SortedIn(RemoveAt(cache, v), pos)
    BY <1>1, SortedRemove
  <2>2. \A x, l : PassedIn(cache, pos, n, x, l) =>
                    PassedIn(RemoveAt(cache, v), pos, IF v < n THEN n - 1 ELSE n, x, l)
    BY <1>1, <1>3, PassedRemove
  <2>3. FreeOne(n).cache = RemoveAt(cache, v) /\ FreeOne(n).next = IF v < n THEN n - 1 ELSE n
    BY <1>3
  <2> QED
    BY <2>1, <2>2, <2>3
<1> QED
  BY <1>1, <1>2, <1>3, FreeOneIs

(* A stream whose call passes a page is one more that has locked it.       *)
LEMMA OneMoreLock ==
  ASSUME NEW ps, NEW lk, NEW t \in Streams, NEW x, NEW y, NEW p,
         lk[t] # NoBlock, ~(ps[p] < x), ps[p] < y, lk[t].start < ps[p] + PageSize
  PROVE  Cardinality(LocksOf(ps, lk, {t}, y, p)) = Cardinality(LocksOf(ps, lk, {t}, x, p)) + 1
<1>1. t \notin LocksOf(ps, lk, {t}, x, p)
  BY DEF LocksOf, LockedTo
<1>2. LocksOf(ps, lk, {t}, y, p) = LocksOf(ps, lk, {t}, x, p) \cup {t}
  BY DEF LocksOf, LockedTo
<1> QED
  BY <1>1, <1>2, LocksFinite, FS_AddElement

-----------------------------------------------------------------------------
(* A call of Read or LockPages begins between two pages.                   *)
LEMMA EnterPassed ==
  ASSUME PageTypes, SortedIn(cache, pos), NEW b \in [start : Nat, size : Nat], b.size > 0,
         NEW o, NEW refs, Enter(o, b, refs), UNCHANGED <<pos, cache>>
  PROVE  /\ PassedIn(cache, pos, next', cur', len')
         /\ cur' \in Nat /\ len' \in Nat /\ cur' + len' = Stop(b) /\ b.start <= cur'
         /\ Hit(b.start) => LET p == cache[UpperBound(b.start) - 1] IN
                              b.start < cur' /\ cur' <= pos[p] + PageSize
         /\ ~Hit(b.start) => cur' = b.start
<1> DEFINE u == UpperBound(b.start)
           p == cache[u - 1]
<1>1. /\ PageSize \in Nat /\ PageSize > 0 /\ Len(cache) \in Nat
      /\ b.start \in Nat /\ b.size \in Nat /\ b.start \in Int
  BY SizesAssumption, CacheTypes
<1>2. /\ u \in 1 .. Len(cache) + 1
      /\ \A i \in 1 .. Len(cache) : i < u => pos[cache[i]] <= b.start
      /\ \A i \in 1 .. Len(cache) : i >= u => pos[cache[i]] > b.start
      /\ \A i \in 1 .. Len(cache) : i < u - 1 => pos[cache[i]] + PageSize <= b.start
      /\ Hit(b.start) => u - 1 \in 1 .. Len(cache) /\ b.start < pos[p] + PageSize
      /\ ~Hit(b.start) => \A i \in 1 .. Len(cache) : i < u => pos[cache[i]] + PageSize <= b.start
  BY <1>1, SearchIs
<1>3. /\ next' = u
      /\ Hit(b.start) => Advance(b.start, b.size, pos[p] + PageSize)
      /\ ~Hit(b.start) => cur' = b.start /\ len' = b.size
  BY DEF Enter, PageEnd
<1> HIDE DEF u
<1>4. u \in Nat
  BY <1>1, <1>2
<1>5. CASE Hit(b.start)
  <2>1. u - 1 \in 1 .. Len(cache) /\ u - 1 < u /\ pos[p] \in Nat /\ pos[p] <= b.start
    BY <1>1, <1>2, <1>4, <1>5, IndexesApart
  <2>2. Advance(b.start, b.size, pos[p] + PageSize) /\ b.start < pos[p] + PageSize
    BY <1>2, <1>3, <1>5
  <2> HIDE DEF p
  <2>3. /\ cur' \in Nat /\ len' \in Nat /\ cur' + len' = b.start + b.size /\ b.start < cur'
        /\ cur' <= pos[p] + PageSize /\ (len' > 0 => cur' = pos[p] + PageSize)
    BY <1>1, <2>1, <2>2, SMTT(30) DEF Advance
  <2>4. ASSUME NEW i \in 1 .. Len(cache), i < u
        PROVE  pos[cache[i]] < cur' /\ (len' > 0 => pos[cache[i]] + PageSize <= cur')
    <3>1. pos[cache[i]] \in Int /\ pos[cache[i]] <= b.start
      BY <1>2, <2>4, IndexesApart
    <3>2. pos[cache[i]] <= pos[p]
      <4>1. CASE i = u - 1
        BY <3>1, <4>1 DEF p
      <4>2. CASE i < u - 1
        <5>1. pos[cache[i]] + PageSize <= pos[p]
          BY <2>1, <4>2, IndexesApart DEF p
        <5> QED
          BY <1>1, <2>1, <3>1, <5>1
      <4> QED
        BY <1>1, <1>4, <2>4, <4>1, <4>2
    <3> QED
      BY <1>1, <2>1, <2>3, <3>1, <3>2, SMTT(30)
  <2>5. ASSUME NEW i \in 1 .. Len(cache), i >= u PROVE cur' <= pos[cache[i]]
    <3>1. u - 1 < i
      BY <1>1, <1>4, <2>5
    <3>2. pos[p] + PageSize <= pos[cache[i]] /\ pos[cache[i]] \in Int
      BY <2>1, <3>1, IndexesApart DEF p
    <3> QED
      BY <1>1, <2>1, <2>3, <3>2, SMTT(30)
  <2>6. PassedIn(cache, pos, u, cur', len')
    BY <2>4, <2>5 DEF PassedIn
  <2>7. cur' + len' = Stop(b) /\ b.start <= cur'
    BY <1>1, <2>3 DEF Stop
  <2> QED
    BY <1>3, <1>5, <2>3, <2>6, <2>7 DEF u, p
<1>6. CASE ~Hit(b.start)
  <2>1. cur' = b.start /\ len' = b.size
    BY <1>3, <1>6
  <2>2. ASSUME NEW i \in 1 .. Len(cache), i < u
        PROVE  pos[cache[i]] < cur' /\ (len' > 0 => pos[cache[i]] + PageSize <= cur')
    <3>1. pos[cache[i]] \in Int /\ pos[cache[i]] + PageSize <= b.start
      BY <1>2, <1>6, <2>2, IndexesApart
    <3> QED
      BY <1>1, <2>1, <3>1
  <2>3. ASSUME NEW i \in 1 .. Len(cache), i >= u PROVE cur' <= pos[cache[i]]
    <3>1. pos[cache[i]] \in Int /\ pos[cache[i]] > b.start
      BY <1>2, <2>3, IndexesApart
    <3> QED
      BY <1>1, <2>1, <3>1
  <2>4. PassedIn(cache, pos, u, cur', len')
    BY <2>2, <2>3 DEF PassedIn
  <2> QED
    BY <1>1, <1>3, <1>6, <2>1, <2>4 DEF Stop
<1> QED
  BY <1>5, <1>6

(* LockPages counts the page its block begins on, if that is cached.       *)
LEMMA EnterCounts ==
  ASSUME PageTypes, SortedIn(cache, pos), NEW b \in [start : Nat, size : Nat], b.size > 0,
         NEW refs \in [AllPages -> Int], Enter("lock", b, refs), UNCHANGED <<pos, cache>>,
         NEW lk, LocksTyped(lk), NEW s \in Streams, lk[s] = NoBlock,
         CountedIn(cache, pos, refs, lk, {}, 0)
  PROVE  CountedIn(cache, pos, cRef', [lk EXCEPT ![s] = b], {s}, cur')
<1> DEFINE l2 == [lk EXCEPT ![s] = b]
           u  == UpperBound(b.start)
           p  == cache[u - 1]
<1>1. /\ PageSize \in Nat /\ PageSize > 0 /\ Len(cache) \in Nat /\ Made \subseteq AllPages
      /\ b.start \in Nat /\ b.start \in Int
      /\ pos \in [AllPages -> Int] /\ cache \in Seq(AllPages)
  <2>1. Len(cache) \in Nat /\ Made \subseteq AllPages
    BY CacheTypes
  <2> QED
    BY <2>1, SizesAssumption, SeqWider DEF PageTypes
<1>2. LocksTyped(l2) /\ l2[s] = b /\ b # NoBlock /\ \A q : In(cache, q) => q \in Made
  <2>1. b # NoBlock
    BY DEF NoBlock
  <2>2. \A q : In(cache, q) => q \in Made
    BY ElementOfSeq DEF PageTypes, In
  <2> QED
    BY <2>1, <2>2 DEF LocksTyped
<1>3. /\ cur' \in Nat
      /\ Hit(b.start) => b.start < cur' /\ cur' <= pos[p] + PageSize
      /\ ~Hit(b.start) => cur' = b.start
  BY EnterPassed
<1>4. /\ \A i \in 1 .. Len(cache) : i < u => pos[cache[i]] <= b.start
      /\ \A i \in 1 .. Len(cache) : i >= u => pos[cache[i]] > b.start
      /\ Hit(b.start) => u - 1 \in 1 .. Len(cache) /\ b.start < pos[p] + PageSize
      /\ ~Hit(b.start) => \A i \in 1 .. Len(cache) : i < u => pos[cache[i]] + PageSize <= b.start
      /\ u \in 1 .. Len(cache) + 1
  BY <1>1, SearchIs
<1>5. Hit(b.start) => cRef' = [refs EXCEPT ![p] = @ + 1]
  BY DEF Enter
<1>6. ~Hit(b.start) => cRef' = refs
  BY DEF Enter
<1> HIDE DEF u
<1>7. u \in Nat
  BY <1>1, <1>4
<1>8. CASE Hit(b.start)
  <2>1. /\ In(cache, p) /\ p \in Made /\ p \in AllPages /\ pos[p] \in Nat /\ pos[p] <= b.start
        /\ b.start < pos[p] + PageSize
    <3>1. u - 1 \in 1 .. Len(cache) /\ u - 1 < u
      BY <1>4, <1>7, <1>8
    <3>2. In(cache, p)
      BY <3>1 DEF In
    <3> QED
      BY <1>1, <1>2, <1>4, <1>8, <3>1, <3>2, IndexesApart
  <2> HIDE DEF p
  <2>2. \A q : In(cache, q) =>
          /\ pos[q] \in Int
          /\ q = p \/ pos[q] + PageSize <= pos[p] \/ pos[p] + PageSize <= pos[q]
    <3>1. ASSUME NEW q, In(cache, q)
          PROVE  /\ pos[q] \in Int
                 /\ q = p \/ pos[q] + PageSize <= pos[p] \/ pos[p] + PageSize <= pos[q]
      BY <1>1, <2>1, <3>1, PagesApart
    <3> QED
      BY <3>1
  <2>3. \A q : In(cache, q) => ~(pos[q] < pos[p] /\ b.start < pos[q] + PageSize)
    <3>1. ASSUME NEW q, In(cache, q), pos[q] < pos[p], b.start < pos[q] + PageSize PROVE FALSE
      <4>1. pos[q] \in Int /\ (q = p \/ pos[q] + PageSize <= pos[p] \/ pos[p] + PageSize <= pos[q])
        BY <2>2, <3>1
      <4> QED
        BY <1>1, <2>1, <3>1, <4>1
    <3> QED
      BY <3>1
  <2>4. CountedIn(cache, pos, refs, l2, {s}, pos[p])
    <3>1. pos[p] \in Int
      BY <2>1
    <3> QED
      BY <1>1, <1>2, <2>1, <2>3, <3>1, CountedSet
  <2>5. cRef'[p] = refs[p] + 1 /\ \A q \in Made : q # p => cRef'[q] = refs[q]
    BY <1>1, <1>5, <1>8, <2>1
  <2>6. refs[p] = Cardinality(LocksOf(pos, l2, {s}, pos[p], p))
    BY <2>1, <2>4 DEF CountedIn
  <2>7. b.start < cur' /\ cur' <= pos[p] + PageSize /\ cur' \in Int /\ pos[p] \in Int
        /\ pos[p] < cur' /\ pos[p] <= cur' /\ ~(pos[p] < pos[p])
    BY <1>1, <1>3, <1>8, <2>1 DEF p
  <2>8. cRef'[p] = Cardinality(LocksOf(pos, l2, {s}, cur', p))
    BY <1>2, <2>1, <2>5, <2>6, <2>7, OneMoreLock
  <2> HIDE DEF l2
  <2>9. \A q : In(cache, q) <=> In(cache, q) \/ q = p
    BY <2>1
  <2>10. \A q : In(cache, q) /\ q # p => pos[q] + PageSize <= pos[p] \/ pos[p] + PageSize <= pos[q]
    BY <2>2
  <2>11. /\ pos \in [AllPages -> Int] /\ LocksTyped(l2) /\ pos[p] \in Int /\ cur' \in Int /\ p \in Made
         /\ \A q : In(cache, q) => q \in Made
         /\ Made \subseteq AllPages /\ pos[p] <= pos[p] /\ pos[p] <= cur' /\ cur' <= pos[p] + PageSize
         /\ \A q \in Made : q # p => cRef'[q] = refs[q]
    BY <1>1, <1>2, <2>1, <2>5, <2>7
  <2>12. CountedIn(cache, pos, cRef', l2, {s}, cur')
    BY ONLY <2>4, <2>8, <2>9, <2>10, <2>11, CountedTouch, s \in Streams
  <2> QED
    BY <2>12 DEF l2
<1>9. CASE ~Hit(b.start)
  <2>1. \A q : In(cache, q) => ~(pos[q] < b.start /\ b.start < pos[q] + PageSize)
    <3>1. ASSUME NEW i \in 1 .. Len(cache), pos[cache[i]] < b.start, b.start < pos[cache[i]] + PageSize
          PROVE  FALSE
      <4>1. pos[cache[i]] \in Int
        BY IndexesApart
      <4>2. CASE i < u
        <5>1. pos[cache[i]] + PageSize <= b.start
          BY <1>4, <1>9, <4>2
        <5> QED
          BY <1>1, <3>1, <4>1, <5>1
      <4>3. CASE i >= u
        <5>1. pos[cache[i]] > b.start
          BY <1>4, <4>3
        <5> QED
          BY <1>1, <3>1, <4>1, <5>1
      <4> QED
        BY <1>7, <4>2, <4>3
    <3> QED
      BY <3>1 DEF In
  <2>2. b.start <= b.start
    BY <1>1
  <2>3. CountedIn(cache, pos, refs, l2, {s}, b.start)
    BY <1>1, <1>2, <2>1, <2>2, CountedSet
  <2> QED
    BY <1>3, <1>6, <1>9, <2>3
<1> QED
  BY <1>8, <1>9

-----------------------------------------------------------------------------
(* What the invariant says of the values.                                  *)
LEMMA Values ==
  ASSUME CacheInv, ValueInv
  PROVE  /\ PageSize \in Nat /\ PageSize > 0 /\ Len(cache) \in Nat /\ Made \subseteq AllPages
         /\ pos \in [AllPages -> Int] /\ cRef \in [AllPages -> Int]
         /\ cache \in Seq(AllPages) /\ \A q : In(cache, q) => q \in Made
         /\ cur \in Nat /\ len \in Nat /\ next \in Nat
         /\ LocksTyped(locked)
<1>1. PageTypes /\ Len(cache) \in Nat /\ Made \subseteq AllPages
  BY CacheTypes DEF CacheInv
<1>2. cache \in Seq(AllPages)
  BY <1>1, SeqWider DEF PageTypes
<1>3. \A q : In(cache, q) => q \in Made
  BY <1>1, ElementOfSeq DEF PageTypes, In
<1>4. LocksTyped(locked)
  <2>1. ASSUME NEW s \in Streams, locked[s] # NoBlock PROVE locked[s].size > 0
    BY <2>1, BlocksAssumption DEF ValueInv
  <2> QED
    BY <2>1 DEF LocksTyped, ValueInv
<1> QED
  BY <1>1, <1>2, <1>3, <1>4, SizesAssumption DEF PageTypes, ValueInv

(* The conjuncts of the invariant after a step.                            *)
LEMMA OrderAfter ==
  ASSUME Live' => /\ SortedIn(cache', pos')
                  /\ op' # "none" => PassedIn(cache', pos', next', cur', len')
  PROVE  OrderInv'
BY DEF OrderInv, SortedIn, PassedIn

LEMMA CountedAfter ==
  ASSUME connects' = connects, NEW T, CountedIn(cache', pos', cRef', locked', T, cur')
  PROVE  CountedIn(cache, pos, cRef, locked, T, cur)'
<1>1. Made' = Made
  BY DEF Made
<1> QED
  BY <1>1 DEF CountedIn

LEMMA RefAfter ==
  ASSUME connects' = connects,
         Live' /\ fault' = "none" =>
           IF op' = "lock"
           THEN \E t \in Streams :
                  /\ locked'[t] # NoBlock /\ locked'[t].start <= cur' /\ cur' + len' = Stop(locked'[t])
                  /\ CountedIn(cache', pos', cRef', locked', {t}, cur')
           ELSE CountedIn(cache', pos', cRef', locked', {}, cur')
  PROVE  RefInv'
<1> SUFFICES ASSUME Live', fault' = "none"
             PROVE  IF op' = "lock" THEN \E t \in Streams : LockingBy(t)'
                    ELSE CountedIn(cache, pos, cRef, locked, {}, cur)'
  BY DEF RefInv
<1>1. CASE op' = "lock"
  <2>1. PICK t \in Streams :
          /\ locked'[t] # NoBlock /\ locked'[t].start <= cur' /\ cur' + len' = Stop(locked'[t])
          /\ CountedIn(cache', pos', cRef', locked', {t}, cur')
    BY <1>1
  <2>2. CountedIn(cache, pos, cRef, locked, {t}, cur)'
    BY <2>1, CountedAfter
  <2>3. LockingBy(t)'
    BY <2>1, <2>2 DEF LockingBy, Stop
  <2> QED
    BY <1>1, <2>3
<1>2. CASE op' # "lock"
  BY <1>2, CountedAfter
<1> QED
  BY <1>1, <1>2

(* A call takes its bytes of the page at its position.                     *)
LEMMA AdvanceIs ==
  ASSUME NEW x \in Int, NEW n \in Int, NEW e \in Int, n > 0, x < e, Advance(x, n, e)
  PROVE  /\ cur' \in Int /\ len' \in Int /\ x < cur' /\ cur' <= e /\ cur' + len' = x + n /\ len' >= 0
         /\ len' > 0 => cur' = e
BY DEF Advance

(* The next page of a call is cached.                                      *)
LEMMA TakeKeeps ==
  ASSUME CacheInv, ValueInv, OrderInv, RefInv, Live, TakeCached
  PROVE  OrderInv' /\ RefInv'
<1> DEFINE p == cache[next]
<1>1. /\ PageSize \in Nat /\ PageSize > 0 /\ Len(cache) \in Nat /\ Made \subseteq AllPages
      /\ pos \in [AllPages -> Int] /\ cRef \in [AllPages -> Int]
      /\ cache \in Seq(AllPages) /\ \A q : In(cache, q) => q \in Made
      /\ cur \in Nat /\ len \in Nat /\ next \in Nat
      /\ LocksTyped(locked)
  BY Values
<1>2. /\ op \in {"read", "lock"} /\ op # "none" /\ len > 0 /\ next' = next + 1
      /\ Advance(cur, len, pos[p] + PageSize)
      /\ cRef' = IF op = "lock" THEN [cRef EXCEPT ![p] = @ + 1] ELSE cRef
      /\ UNCHANGED <<pages, pos, cache, locked, op, fault, connects>>
  BY DEF TakeCached, PageEnd, CacheInv, PageTypes
<1>3. next \in 1 .. Len(cache) /\ ~(pos[p] > cur)
  <2>1. ~(\A i \in 1 .. Len(cache) : i = next => pos[cache[i]] > cur)
    BY DEF TakeCached, AtMiss
  <2> QED
    BY <2>1
<1>4. SortedIn(cache, pos) /\ PassedIn(cache, pos, next, cur, len) /\ PageTypes
  BY <1>2 DEF OrderInv, CacheInv
<1>5. /\ \A i \in 1 .. Len(cache) : i < next => pos[cache[i]] < cur /\ pos[cache[i]] + PageSize <= cur
      /\ cur <= pos[p]
  BY <1>1, <1>2, <1>3, <1>4 DEF PassedIn
<1>6. pos[p] \in Int /\ In(cache, p) /\ p \in Made
  <2>1. In(cache, p)
    BY <1>3 DEF In
  <2> QED
    BY <1>1, <2>1
<1> HIDE DEF p
<1>7. pos[p] = cur
  BY <1>1, <1>3, <1>5, <1>6
<1>8. /\ cur' \in Int /\ len' \in Int /\ cur < cur' /\ cur' <= pos[p] + PageSize
      /\ cur' + len' = cur + len /\ (len' > 0 => cur' = pos[p] + PageSize)
  <2>1. cur \in Int /\ len \in Int /\ pos[p] + PageSize \in Int /\ cur < pos[p] + PageSize
    BY <1>1, <1>6, <1>7
  <2> QED
    BY <1>2, <2>1, AdvanceIs
<1>9. PassedIn(cache, pos, next + 1, cur', len')
  <2>1. ASSUME NEW i \in 1 .. Len(cache), i < next + 1
        PROVE  pos[cache[i]] < cur' /\ (len' > 0 => pos[cache[i]] + PageSize <= cur')
    <3>1. CASE i = next
      BY <1>1, <1>6, <1>7, <1>8, <3>1 DEF p
    <3>2. CASE i < next
      <4>1. pos[cache[i]] \in Int
        BY <1>4, IndexesApart
      <4> QED
        BY <1>1, <1>5, <1>8, <3>2, <4>1
    <3> QED
      BY <1>1, <2>1, <3>1, <3>2
  <2>2. ASSUME NEW i \in 1 .. Len(cache), i >= next + 1 PROVE cur' <= pos[cache[i]]
    <3>1. next < i
      BY <1>1, <2>2
    <3>2. pos[cache[i]] \in Int /\ pos[p] + PageSize <= pos[cache[i]]
      BY <1>3, <1>4, <3>1, IndexesApart DEF p
    <3> QED
      BY <1>1, <1>6, <1>8, <3>2
  <2> QED
    BY <2>1, <2>2 DEF PassedIn
<1>10. OrderInv'
  BY <1>2, <1>4, <1>9, OrderAfter
<1>11. CASE op = "lock" /\ fault = "none"
  <2>1. PICK t \in Streams : LockingBy(t)
    BY <1>11 DEF RefInv
  <2>2. /\ locked[t] # NoBlock /\ locked[t].start <= cur /\ cur + len = Stop(locked[t])
        /\ CountedIn(cache, pos, cRef, locked, {t}, cur)
        /\ locked[t].start \in Nat
    BY <1>1, <2>1, LockedToType DEF LockingBy, LocksTyped
  <2>3. cRef[p] = Cardinality(LocksOf(pos, locked, {t}, cur, p))
    BY <1>6, <2>2 DEF CountedIn
  <2>4. cRef'[p] = cRef[p] + 1 /\ \A q \in Made : q # p => cRef'[q] = cRef[q]
    BY <1>1, <1>2, <1>6, <1>11
  <2>5. ~(pos[p] < cur) /\ pos[p] < cur' /\ locked[t].start < pos[p] + PageSize
    BY <1>1, <1>6, <1>7, <1>8, <2>2
  <2>13. /\ locked[t] # NoBlock /\ ~(pos[p] < cur) /\ pos[p] < cur'
         /\ locked[t].start < pos[p] + PageSize
    BY <2>2, <2>5
  <2>11. Cardinality(LocksOf(pos, locked, {t}, cur', p)) =
           Cardinality(LocksOf(pos, locked, {t}, cur, p)) + 1
    BY ONLY <2>13, OneMoreLock, t \in Streams
  <2>6. cRef'[p] = Cardinality(LocksOf(pos, locked, {t}, cur', p))
    BY <2>3, <2>4, <2>11
  <2>7. \A q : In(cache, q) /\ q # p => pos[q] + PageSize <= pos[p] \/ pos[p] + PageSize <= pos[q]
    <3>1. ASSUME NEW q, In(cache, q), q # p
          PROVE  pos[q] + PageSize <= pos[p] \/ pos[p] + PageSize <= pos[q]
      BY <1>1, <1>4, <1>6, <3>1, PagesApart
    <3> QED
      BY <3>1
  <2>8. /\ pos \in [AllPages -> Int] /\ LocksTyped(locked) /\ cur \in Int /\ cur' \in Int /\ p \in Made
        /\ \A q : In(cache, q) => q \in Made
        /\ Made \subseteq AllPages /\ pos[p] <= cur /\ cur <= cur' /\ cur' <= pos[p] + PageSize
        /\ \A q \in Made : q # p => cRef'[q] = cRef[q]
        /\ \A q : In(cache, q) <=> In(cache, q) \/ q = p
    BY <1>1, <1>6, <1>7, <1>8, <2>4
  <2>9. CountedIn(cache, pos, cRef', locked, {t}, cur')
    BY ONLY <2>2, <2>6, <2>7, <2>8, CountedTouch, t \in Streams
  <2>12. cur \in Nat /\ len \in Nat
    BY <1>1
  <2>10. locked[t].start <= cur' /\ cur' + len' = Stop(locked[t])
    BY ONLY <1>8, <2>2, <2>12
  <2> QED
    BY <1>2, <1>10, <1>11, <2>2, <2>9, <2>10, RefAfter
<1>12. CASE op # "lock" \/ fault # "none"
  <2>1. fault = "none" => CountedIn(cache, pos, cRef, locked, {}, cur')
    BY <1>2, <1>12, CountedRead DEF RefInv
  <2>2. op # "lock" => cRef' = cRef
    BY <1>2
  <2> QED
    BY <1>2, <1>10, <1>12, <2>1, <2>2, RefAfter
<1> QED
  BY <1>11, <1>12

(* InsertPage puts the page of a byte that no cached page holds where the  *)
(* call missed it, also when it has purged another for it.                 *)
LEMMA InsertKeepsOrder ==
  ASSUME CacheInv, ValueInv, OrderInv, RefInv, Live, InsertPage
  PROVE  OrderInv' /\ RefInv'
<1> DEFINE f == FreeOne(next)
           x == PagePos(cur)
<1>1. /\ PageSize \in Nat /\ PageSize > 0 /\ Len(cache) \in Nat /\ Made \subseteq AllPages
      /\ pos \in [AllPages -> Int] /\ cRef \in [AllPages -> Int]
      /\ cache \in Seq(AllPages) /\ \A q : In(cache, q) => q \in Made
      /\ cur \in Nat /\ len \in Nat /\ next \in Nat
      /\ LocksTyped(locked)
  BY Values
<1>2. /\ op \in {"read", "lock"} /\ op # "none" /\ len > 0 /\ next \in 1 .. Len(cache) + 1
      /\ \A i \in 1 .. Len(cache) : i = next => pos[cache[i]] > cur
      /\ PageTypes /\ Distinct(cache)
  BY <1>1 DEF InsertPage, AtMiss, CacheInv, PageTypes, NextInv, PlaceInv, Distinct
<1>3. PICK e \in f.free :
        /\ cache' = InsertAt(f.cache, f.next, e.page)
        /\ pos' = [pos EXCEPT ![e.page] = x]
        /\ cRef' = IF op = "lock" THEN [cRef EXCEPT ![e.page] = @ + 1] ELSE cRef
  BY ChosenIs DEF InsertPage
<1>4. /\ next' = f.next + 1 /\ Advance(cur, len, x + PageSize)
      /\ UNCHANGED <<pages, locked, op, fault, connects>>
  BY DEF InsertPage
<1>5. /\ f.cache \in Seq(Made) /\ f.next \in 1 .. Len(f.cache) + 1
      /\ f.free \subseteq [key : Int, page : Made]
      /\ \A d \in f.free : ~In(f.cache, d.page)
      /\ \A p : In(f.cache, p) => In(cache, p)
      /\ \A p : In(cache, p) => In(f.cache, p) \/ cRef[p] <= 0
  BY <1>2, FreeOneKeeps DEF CacheInv, Cached, In
<1>6. SortedIn(cache, pos) /\ PassedIn(cache, pos, next, cur, len)
  BY <1>2 DEF OrderInv
<1>7. PassedIn(cache, pos, next, cur + 1, 0)
  <2>1. ASSUME NEW i \in 1 .. Len(cache), i < next PROVE pos[cache[i]] < cur + 1
    <3>1. pos[cache[i]] \in Int
      BY <1>2, <1>6, IndexesApart
    <3> QED
      BY <1>1, <1>6, <2>1, <3>1 DEF PassedIn
  <2>2. ASSUME NEW i \in 1 .. Len(cache), i >= next PROVE cur + 1 <= pos[cache[i]]
    <3>1. pos[cache[i]] \in Int
      BY <1>2, <1>6, IndexesApart
    <3>2. CASE i = next
      BY <1>1, <1>2, <3>1, <3>2
    <3>3. CASE next < i
      <4>1. next \in 1 .. Len(cache)
        BY <1>1, <1>2, <3>3
      <4>2. pos[cache[next]] \in Int /\ pos[cache[next]] + PageSize <= pos[cache[i]]
        BY <1>2, <1>6, <3>3, <4>1, IndexesApart
      <4>3. pos[cache[next]] > cur
        BY <1>2, <4>1
      <4> QED
        BY <1>1, <3>1, <4>2, <4>3, SMTT(30)
    <3> QED
      BY <1>1, <2>2, <3>2, <3>3
  <2> QED
    BY <2>1, <2>2 DEF PassedIn
<1>8. /\ SortedIn(f.cache, pos) /\ PassedIn(f.cache, pos, f.next, cur, len)
      /\ PassedIn(f.cache, pos, f.next, cur + 1, 0)
  BY <1>2, <1>6, <1>7, FreeOneSorted
<1>9. x \in Nat /\ x <= cur /\ cur < x + PageSize /\ x % PageSize = 0
  <2>1. cur \div PageSize \in Nat
    BY <1>1
  <2>2. x \in Nat
    BY <1>1, <2>1 DEF PagePos
  <2> QED
    BY <1>1, <2>2, PagePosIs
<1> HIDE DEF f, x
<1> DEFINE ep == e.page
<1>10. ep \in Made /\ ep \in AllPages /\ ~In(f.cache, ep)
  BY <1>1, <1>5
<1>11. /\ cache' = InsertAt(f.cache, f.next, ep) /\ pos' = [pos EXCEPT ![ep] = x]
       /\ cRef' = IF op = "lock" THEN [cRef EXCEPT ![ep] = @ + 1] ELSE cRef
  BY <1>3
<1> HIDE DEF ep
<1>12. /\ pos' \in [AllPages -> Int] /\ pos'[ep] = x
       /\ \A q : In(f.cache, q) => pos'[q] = pos[q]
  BY <1>1, <1>5, <1>9, <1>10, <1>11
<1>13. /\ f.cache \in Seq(AllPages) /\ Len(f.cache) \in Nat /\ f.next \in Nat
       /\ \A i \in 1 .. Len(f.cache) : In(f.cache, f.cache[i]) /\ f.cache[i] \in AllPages
  <2>1. f.cache \in Seq(AllPages)
    BY <1>1, <1>5, SeqWider
  <2> QED
    BY <1>5, <2>1, LenProperties, ElementOfSeq DEF In
<1>14. ASSUME NEW i \in 1 .. Len(f.cache)
       PROVE  /\ pos'[f.cache[i]] \in Int
              /\ i < f.next => pos'[f.cache[i]] + PageSize <= x
              /\ i >= f.next => x + PageSize <= pos'[f.cache[i]]
  <2>1. pos'[f.cache[i]] = pos[f.cache[i]] /\ pos[f.cache[i]] \in Int /\ pos[f.cache[i]] % PageSize = 0
    BY <1>1, <1>8, <1>12, <1>13 DEF SortedIn
  <2>4. i \in Nat /\ f.next \in Nat
    BY <1>13
  <2>2. CASE i < f.next
    <3>1. pos[f.cache[i]] + PageSize <= cur
      BY <1>2, <1>8, <2>2 DEF PassedIn
    <3>2. pos[f.cache[i]] < x
      BY <1>1, <1>9, <2>1, <3>1
    <3>3. pos[f.cache[i]] + PageSize <= x
      BY <1>9, <2>1, <3>2, Apart
    <3>4. ~(i >= f.next)
      BY ONLY <2>2, <2>4
    <3> QED
      BY <2>1, <3>3, <3>4
  <2>3. CASE i >= f.next
    <3>1. cur + 1 <= pos[f.cache[i]]
      BY <1>8, <2>3 DEF PassedIn
    <3>5. pos[f.cache[i]] \in Int
      BY <2>1
    <3>6. cur \in Nat
      BY <1>1
    <3>2. x < pos[f.cache[i]]
      BY ONLY <1>9, <3>1, <3>5, <3>6
    <3>3. x + PageSize <= pos[f.cache[i]]
      BY <1>9, <2>1, <3>2, Apart
    <3>4. ~(i < f.next)
      BY ONLY <2>3, <2>4
    <3> QED
      BY <2>1, <3>3, <3>4
  <2> QED
    BY <2>1, <2>2, <2>3, <2>4
<1>15. SortedIn(cache', pos')
  <2>1. SortedIn(f.cache, pos')
    BY <1>8, <1>12, <1>13, SameInCache
  <2>2. \A i \in 1 .. Len(f.cache) : i < f.next => pos'[f.cache[i]] < pos'[ep]
    BY <1>1, <1>9, <1>12, <1>14
  <2>3. \A i \in 1 .. Len(f.cache) : i >= f.next => pos'[ep] < pos'[f.cache[i]]
    BY <1>1, <1>9, <1>12, <1>14
  <2>4. pos'[ep] >= 0 /\ pos'[ep] % PageSize = 0
    BY <1>9, <1>12
  <2> QED
    BY <1>5, <1>10, <1>11, <1>12, <1>13, <2>1, <2>2, <2>3, <2>4, SortedInsert
<1>16. /\ cur' \in Int /\ len' \in Int /\ cur < cur' /\ cur' <= x + PageSize
       /\ cur' + len' = cur + len /\ (len' > 0 => cur' = x + PageSize)
  <2>1. cur \in Int /\ len \in Int /\ x + PageSize \in Int /\ cur < x + PageSize
    BY <1>1, <1>9
  <2> QED
    BY <1>2, <1>4, <2>1, AdvanceIs
<1>17. PassedIn(cache', pos', next', cur', len')
  <2>1. \A i \in 1 .. Len(f.cache) : i < f.next =>
          pos'[f.cache[i]] < cur' /\ pos'[f.cache[i]] + PageSize <= cur'
    <3>1. ASSUME NEW i \in 1 .. Len(f.cache), i < f.next
          PROVE  pos'[f.cache[i]] < cur' /\ pos'[f.cache[i]] + PageSize <= cur'
      <4>1. pos'[f.cache[i]] \in Int /\ pos'[f.cache[i]] + PageSize <= x
        BY <1>14, <3>1
      <4> QED
        BY <1>1, <1>9, <1>16, <4>1, SMTT(30)
    <3> QED
      BY <3>1
  <2>2. \A i \in 1 .. Len(f.cache) : i >= f.next => cur' <= pos'[f.cache[i]]
    BY <1>1, <1>9, <1>14, <1>16
  <2>3. pos'[ep] < cur' /\ (len' > 0 => pos'[ep] + PageSize <= cur')
    BY <1>1, <1>9, <1>12, <1>16
  <2> QED
    BY <1>4, <1>5, <1>10, <1>11, <1>12, <1>13, <2>1, <2>2, <2>3, PassedInsert
<1>18. OrderInv'
  BY <1>15, <1>17, OrderAfter
<1>19. \A q : In(cache', q) <=> In(f.cache, q) \/ q = ep
  BY <1>5, <1>10, <1>11, InsertAtIn
<1>20. \A q : In(f.cache, q) => pos'[q] + PageSize <= pos'[ep] \/ pos'[ep] + PageSize <= pos'[q]
  <2>1. ASSUME NEW i \in 1 .. Len(f.cache)
        PROVE  pos'[f.cache[i]] + PageSize <= x \/ x + PageSize <= pos'[f.cache[i]]
    BY <1>13, <1>14
  <2> QED
    BY <1>12, <2>1 DEF In
<1>21. ASSUME NEW T, CountedIn(cache, pos, cRef, locked, T, cur),
              \/ T = {} /\ op # "lock"
              \/ \E t \in Streams : T = {t} /\ locked[t] # NoBlock /\ locked[t].start <= cur /\ op = "lock"
       PROVE  CountedIn(cache', pos', cRef', locked, T, cur')
  <2>1. /\ cRef \in [AllPages -> Int] /\ LocksTyped(locked) /\ cur \in Int /\ cur' \in Int
        /\ pos \in [AllPages -> Int] /\ pos' \in [AllPages -> Int] /\ Made \subseteq AllPages
        /\ \A p : In(cache, p) => p \in Made
        /\ \A p : In(f.cache, p) => In(cache, p) /\ pos'[p] = pos[p]
        /\ \A p : In(cache, p) => In(f.cache, p) \/ cRef[p] <= 0
        /\ \A p : In(f.cache, p) => p \in Made
        /\ ep \in Made /\ cur <= cur'
    BY <1>1, <1>5, <1>10, <1>12, <1>16, SMTT(30)
  <2>2. CountedIn(f.cache, pos', cRef, locked, T, cur)
    BY ONLY <1>21, <2>1, CountedRemove
  <2>3. LocksOf(pos', locked, T, cur', ep) \subseteq T
    BY ONLY <1>20, <2>1, <2>2, NotLocked
  <2>4. cRef[ep] = 0
    BY <1>10, <2>2 DEF CountedIn
  <2>5. cRef'[ep] = Cardinality(LocksOf(pos', locked, T, cur', ep))
    <3>1. CASE T = {} /\ op # "lock"
      <4>1. LocksOf(pos', locked, T, cur', ep) = {}
        BY <2>3, <3>1
      <4> QED
        BY <1>11, <2>4, <3>1, <4>1, FS_EmptySet
    <3>2. ASSUME NEW t \in Streams, T = {t}, locked[t] # NoBlock, locked[t].start <= cur, op = "lock"
          PROVE  cRef'[ep] = Cardinality(LocksOf(pos', locked, T, cur', ep))
      <4>1. locked[t].start \in Nat
        BY <1>1, <3>2 DEF LocksTyped
      <4>2. locked[t].start < pos'[ep] + PageSize /\ pos'[ep] < cur'
        BY <1>1, <1>9, <1>12, <1>16, <3>2, <4>1
      <4>3. t \in LocksOf(pos', locked, T, cur', ep)
        BY <3>2, <4>2 DEF LocksOf, LockedTo
      <4>4. LocksOf(pos', locked, T, cur', ep) = {t}
        BY <2>3, <3>2, <4>3
      <4>5. Cardinality({t}) = 1
        BY FS_Singleton
      <4>6. cRef'[ep] = 1
        BY <1>1, <1>10, <1>11, <2>4, <3>2
      <4> QED
        BY <4>4, <4>5, <4>6
    <3> QED
      BY <1>21, <3>1, <3>2
  <2>6. /\ \A q \in Made : q # ep => cRef'[q] = cRef[q]
        /\ pos'[ep] <= cur /\ cur' <= pos'[ep] + PageSize
    BY <1>1, <1>9, <1>11, <1>12, <1>16
  <2>7. \A q : In(f.cache, q) /\ q # ep => pos'[q] + PageSize <= pos'[ep] \/ pos'[ep] + PageSize <= pos'[q]
    BY <1>20
  <2> QED
    BY ONLY <1>19, <2>1, <2>2, <2>5, <2>6, <2>7, CountedTouch
<1>22. CASE op = "lock" /\ fault = "none"
  <2>1. PICK t \in Streams : LockingBy(t)
    BY <1>22 DEF RefInv
  <2>2. /\ locked[t] # NoBlock /\ locked[t].start <= cur /\ cur + len = Stop(locked[t])
        /\ CountedIn(cache, pos, cRef, locked, {t}, cur)
        /\ locked[t].start \in Nat
    BY <1>1, <2>1, LockedToType DEF LockingBy, LocksTyped
  <2>3. CountedIn(cache', pos', cRef', locked, {t}, cur')
    BY <1>21, <1>22, <2>2
  <2>5. cur \in Nat /\ len \in Nat
    BY <1>1
  <2>4. locked[t].start <= cur' /\ cur' + len' = Stop(locked[t])
    <3>1. cur' \in Int /\ len' \in Int /\ cur < cur' /\ cur' + len' = cur + len
      BY <1>16
    <3>2. cur' + len' = Stop(locked[t])
      BY <2>2, <3>1
    <3>3. locked[t].start \in Nat /\ locked[t].start <= cur
      BY <2>2
    <3>4. locked[t].start <= cur'
      BY ONLY <2>5, <3>1, <3>3
    <3> QED
      BY <3>2, <3>4
  <2> QED
    BY <1>4, <1>18, <1>22, <2>2, <2>3, <2>4, RefAfter
<1>23. CASE op # "lock" \/ fault # "none"
  <2>1. op # "lock" /\ fault = "none" => CountedIn(cache', pos', cRef', locked, {}, cur')
    BY <1>21 DEF RefInv
  <2> QED
    BY <1>4, <1>18, <1>23, <2>1, RefAfter
<1> QED
  BY <1>22, <1>23

(* Steps that take pages from the cache that are not locked, or none, and  *)
(* after which no call is in progress.                                     *)
LEMMA IdleKeeps ==
  ASSUME CacheInv, ValueInv, OrderInv, RefInv, UNCHANGED <<pages, cRef, locked, connects>>,
         cache' \in Seq(AllPages), SortedIn(cache, pos) => SortedIn(cache', pos),
         \A p : In(cache', p) => In(cache, p) /\ pos'[p] = pos[p],
         \A p : In(cache, p) => In(cache', p) \/ cRef[p] <= 0,
         op' = "none", fault' = "none" => op # "lock" /\ fault = "none"
  PROVE  OrderInv' /\ RefInv'
<1>1. Live' <=> Live
  BY DEF Live
<1>2. Live => SortedIn(cache', pos')
  <2>1. \A p : In(cache', p) => pos[p] = pos'[p]
    OBVIOUS
  <2> QED
    BY <2>1, SameInCache DEF OrderInv
<1>3. OrderInv'
  BY <1>1, <1>2, OrderAfter
<1>4. ASSUME Live, fault' = "none"
      PROVE  CountedIn(cache', pos', cRef', locked', {}, cur')
  <2>1. /\ pos \in [AllPages -> Int] /\ cRef \in [AllPages -> Int] /\ LocksTyped(locked)
        /\ Made \subseteq AllPages /\ \A q : In(cache, q) => q \in Made
    BY Values
  <2>2. CountedIn(cache, pos, cRef, locked, {}, 0)
    BY <1>4, CountedRead DEF RefInv
  <2>3. 0 \in Int
    OBVIOUS
  <2>4. CountedIn(cache', pos', cRef, locked, {}, 0)
    BY <2>1, <2>2, <2>3, CountedRemove
  <2> QED
    BY <2>4, CountedRead
<1> QED
  BY <1>1, <1>3, <1>4, RefAfter

(* ... FreeOne among them.                                                 *)
LEMMA FreeOneIdle ==
  ASSUME CacheInv, ValueInv, OrderInv, RefInv, UNCHANGED <<pages, cRef, locked, connects>>,
         NEW n \in 1 .. Len(cache) + 1, cache' = FreeOne(n).cache,
         \/ pos' = pos
         \/ \E e \in FreeOne(n).free : \E y : pos' = [pos EXCEPT ![e.page] = y],
         op' = "none", fault' = "none" => op # "lock" /\ fault = "none"
  PROVE  OrderInv' /\ RefInv'
<1> DEFINE f == FreeOne(n)
<1>1. PageTypes /\ PlaceInv /\ CountInv
  BY DEF CacheInv
<1>2. /\ f.cache \in Seq(Made)
      /\ \A d \in f.free : ~In(f.cache, d.page)
      /\ \A p : In(f.cache, p) => In(cache, p)
      /\ \A p : In(cache, p) => In(f.cache, p) \/ cRef[p] <= 0
  BY <1>1, FreeOneKeeps DEF Cached, In
<1>3. SortedIn(cache, pos) => SortedIn(f.cache, pos)
  BY <1>1, FreeOneSorted
<1> HIDE DEF f
<1>4. cache' = f.cache /\ (pos' = pos \/ \E e \in f.free : \E y : pos' = [pos EXCEPT ![e.page] = y])
  BY DEF f
<1>5. \A p : In(f.cache, p) => pos'[p] = pos[p]
  <2>1. ASSUME NEW p, In(f.cache, p) PROVE pos'[p] = pos[p]
    <3>1. p \in AllPages /\ pos \in [AllPages -> Int]
      BY <1>2, <2>1, Values
    <3> QED
      BY <1>2, <1>4, <2>1, <3>1
  <2> QED
    BY <2>1
<1>6. cache' \in Seq(AllPages)
  <2>1. Made \subseteq AllPages
    BY Values
  <2> QED
    BY <1>2, <1>4, <2>1, SeqWider
<1> QED
  BY <1>2, <1>3, <1>4, <1>5, <1>6, IdleKeeps

(* A stream moves to another block.                                        *)
LEMMA SetCurrKeeps ==
  ASSUME CacheInv, ValueInv, OrderInv, RefInv,
         NEW s \in Streams, NEW b \in Blocks[s], SetCurr(s, b)
  PROVE  OrderInv' /\ RefInv'
<1> DEFINE refs == UnlockPages(locked[s])
           lk   == [locked EXCEPT ![s] = NoBlock]
<1>1. /\ op = "none" /\ pages # {} /\ fault = "none" /\ locked' = [locked EXCEPT ![s] = b]
      /\ Enter("lock", b, refs) /\ op' = "lock"
      /\ UNCHANGED <<pages, pos, cache, fault, connects>>
  BY DEF SetCurr, Call, Enter
<1>2. b \in [start : Nat, size : Nat] /\ b.size > 0 /\ b # NoBlock /\ PageTypes /\ PlaceInv
      /\ b.start \in Nat
  <2>1. b \in [start : Nat, size : Nat \ {0}]
    BY BlocksAssumption
  <2> QED
    BY <2>1 DEF NoBlock, CacheInv
<1>3. CASE ~Live'
  BY <1>1, <1>3, OrderAfter, RefAfter
<1>4. CASE Live'
  <2>1. SortedIn(cache, pos) /\ LocksTyped(locked)
    BY <1>1, <1>4, Values DEF Live, OrderInv
  <2>2. CountedIn(cache, pos, cRef, locked, {}, 0)
    BY <1>1, <1>4, CountedRead DEF Live, RefInv
  <2>3. CountedIn(cache, pos, refs, lk, {}, 0)
    BY <1>2, <2>1, <2>2, CountedUnlock
  <2>4. refs \in [AllPages -> Int]
    BY <1>2, UnlockPagesIs
  <2>5. LocksTyped(lk) /\ lk[s] = NoBlock
    BY <2>1 DEF LocksTyped, NoBlock
  <2>6. [lk EXCEPT ![s] = b] = locked' /\ locked'[s] = b
    BY <1>1, <2>1 DEF LocksTyped
  <2> HIDE DEF refs, lk
  <2>7. /\ PassedIn(cache, pos, next', cur', len')
        /\ cur' + len' = Stop(b) /\ b.start <= cur'
    BY <1>1, <1>2, <2>1, EnterPassed
  <2>8. CountedIn(cache, pos, cRef', locked', {s}, cur')
    BY <1>1, <1>2, <2>1, <2>3, <2>4, <2>5, <2>6, EnterCounts
  <2>9. OrderInv'
    BY <1>1, <2>1, <2>7, OrderAfter
  <2>10. RefInv'
    BY <1>1, <1>2, <2>6, <2>7, <2>8, RefAfter
  <2> QED
    BY <2>9, <2>10
<1> QED
  BY <1>3, <1>4

-----------------------------------------------------------------------------
(* The values.                                                             *)
LEMMA AdvanceNat ==
  ASSUME NEW x \in Nat, NEW n \in Nat, NEW e \in Nat, Advance(x, n, e)
  PROVE  cur' \in Nat /\ len' \in Nat
BY DEF Advance

LEMMA EnterNat ==
  ASSUME CacheInv, ValueInv, NEW b \in [start : Nat, size : Nat], NEW o, NEW refs, Enter(o, b, refs)
  PROVE  cur' \in Nat /\ len' \in Nat
<1>1. /\ PageSize \in Nat /\ PageSize > 0 /\ Len(cache) \in Nat /\ pos \in [AllPages -> Int]
      /\ b.start \in Nat /\ b.size \in Nat /\ b.start \in Int /\ PageTypes
  BY Values DEF CacheInv
<1>2. CASE Hit(b.start)
  <2> DEFINE u == UpperBound(b.start)
             p == cache[u - 1]
  <2>1. u \in 1 .. Len(cache) + 1
    BY <1>1, UpperBoundIs
  <2>2. u > 1 /\ b.start < pos[p] + PageSize /\ Advance(b.start, b.size, pos[p] + PageSize)
    BY <1>2 DEF Hit, Enter, PageEnd
  <2> HIDE DEF u
  <2>3. u - 1 \in 1 .. Len(cache)
    BY <1>1, <2>1, <2>2
  <2>4. pos[p] \in Int
    BY <1>1, <2>3, CacheTypes
  <2> HIDE DEF p
  <2>5. pos[p] + PageSize \in Nat
    BY <1>1, <2>2, <2>4
  <2> QED
    BY <1>1, <2>2, <2>5, AdvanceNat
<1>3. CASE ~Hit(b.start)
  BY <1>1, <1>3 DEF Enter
<1> QED
  BY <1>2, <1>3

LEMMA ValueAfter ==
  ASSUME CacheInv, ValueInv, pages # {}, UNCHANGED <<pages, connects>>,
         locked' \in [Streams -> [start : Nat, size : Nat]],
         \A s \in Streams : locked'[s] \in Blocks[s] \cup {NoBlock} /\ Stop(locked'[s]) <= Total,
         \A p \in AllPages : pos'[p] >= -1,
         cur' \in Nat, len' \in Nat, avail' \in 0 .. Total, calls' \in 0 .. MaxCalls,
         fault' \in {"none", "busy", "underflow", "read"}
  PROVE  ValueInv'
<1>1. connects # 0
  <2>1. ASSUME connects = 0 PROVE FALSE
    <3>1. NPages * connects = 0
      BY <2>1, SizesAssumption
    <3>2. Made = {}
      BY <3>1 DEF Made
    <3> QED
      BY <2>1, <3>2 DEF ValueInv
  <2> QED
    BY <2>1
<1>2. Made' = Made
  BY DEF Made
<1> QED
  BY <1>1, <1>2 DEF ValueInv, Stop

LEMMA ValueStep ==
  ASSUME CacheInv, ValueInv, [Next]_vars
  PROVE  ValueInv'
<1>1. /\ PageSize \in Nat /\ PageSize > 0 /\ Len(cache) \in Nat /\ Made \subseteq AllPages
      /\ pos \in [AllPages -> Int] /\ cur \in Nat /\ len \in Nat
  BY Values
<1>2. /\ locked \in [Streams -> [start : Nat, size : Nat]]
      /\ \A s \in Streams : locked[s] \in Blocks[s] \cup {NoBlock} /\ Stop(locked[s]) <= Total
      /\ \A p \in AllPages : pos[p] >= -1
      /\ avail \in 0 .. Total /\ calls \in 0 .. MaxCalls
      /\ fault \in {"none", "busy", "underflow", "read"}
      /\ Total \in Nat /\ MaxCalls \in Nat
  BY SizesAssumption DEF ValueInv
<1>3. ASSUME Call PROVE pages # {} /\ calls' \in 0 .. MaxCalls
  BY <1>2, <1>3 DEF Call
<1>4. ASSUME op # "none" PROVE pages # {}
  BY <1>4 DEF CacheInv, NextInv
<1>5. \A b \in AllBlocks : b \in [start : Nat, size : Nat] /\ b.size > 0
  BY BlocksAssumption DEF AllBlocks
<1>6. \A x \in Nat : PagePos(x) \in Nat
  <2>1. ASSUME NEW x \in Nat PROVE PagePos(x) \in Nat
    <3>1. x \div PageSize \in Nat
      BY <1>1
    <3> QED
      BY <1>1, <3>1 DEF PagePos
  <2> QED
    BY <2>1
<1>7. ASSUME NEW n \in 1 .. Len(cache) + 1, NEW e \in FreeOne(n).free, NEW y \in Int, y >= -1,
             pos' = [pos EXCEPT ![e.page] = y]
      PROVE  \A p \in AllPages : pos'[p] >= -1
  BY <1>1, <1>2, <1>7
<1>8. op # "none" => next \in 1 .. Len(cache) + 1
  BY <1>1 DEF CacheInv, PageTypes, NextInv
<1>9. CASE Commit
  <2>1. /\ connects' = connects + 1 /\ pages' = NPages * connects + 1 .. NPages * connects + NPages
        /\ avail' = 0 /\ UNCHANGED <<pos, cRef, cache, locked, cur, len, fault, calls>>
    BY <1>9 DEF Commit
  <2>2. connects \in Nat /\ NPages \in Nat /\ NPages > 0
    BY SizesAssumption DEF CacheInv, PageTypes
  <2>3. NPages * connects \in Nat /\ NPages * (connects + 1) = NPages * connects + NPages
    BY <2>2
  <2>4. pages' # {}
    <3>1. NPages * connects + 1 \in pages'
      BY <2>1, <2>2, <2>3
    <3> QED
      BY <3>1
  <2>5. connects' <= 1 => pages' = Made'
    <3>1. ASSUME connects' <= 1 PROVE connects = 0
      BY <2>1, <2>2, <3>1
    <3>2. ASSUME connects = 0 PROVE pages' = Made'
      <4>1. NPages * connects = 0 /\ NPages * connects' = NPages
        BY <2>1, <2>2, <3>2
      <4> QED
        BY <2>1, <2>2, <4>1 DEF Made
    <3> QED
      BY <3>1, <3>2
  <2>6. connects' # 0
    BY <2>1, <2>2
  <2> QED
    BY <1>1, <1>2, <2>1, <2>4, <2>5, <2>6 DEF ValueInv, Stop
<1>10. CASE Decommit
  <2>1. /\ pages' = {} /\ freePages' = {} /\ pos' = [p \in AllPages |-> -1]
        /\ owned = NoPage /\ op = "none" /\ \A s \in Streams : locked[s] = NoBlock
        /\ UNCHANGED <<cRef, cache, owned, avail, locked, op, cur, len, fault, connects, calls>>
    BY <1>10 DEF Decommit, Quiet
  <2> QED
    BY <1>1, <1>2, <2>1 DEF ValueInv, Stop
<1>11. CASE Download
  BY <1>1, <1>2, <1>11, ValueAfter DEF Download
<1>12. ASSUME NEW b \in AllBlocks, Read(b)
       PROVE  ValueInv'
  <2>1. cur' \in Nat /\ len' \in Nat /\ pages # {} /\ calls' \in 0 .. MaxCalls
    BY <1>3, <1>5, <1>12, EnterNat DEF Read
  <2> QED
    BY <1>2, <1>12, <2>1, ValueAfter DEF Read
<1>13. ASSUME NEW b \in AllBlocks, Wait(b)
       PROVE  ValueInv'
  <2>1. Len(cache) + 1 \in 1 .. Len(cache) + 1
    BY <1>1
  <2>2. PICK e \in FreeOne(Len(cache) + 1).free : pos' = [pos EXCEPT ![e.page] = PagePos(Stop(b) - 1)]
    BY <1>13, ChosenIs DEF Wait
  <2>3. Stop(b) - 1 \in Nat
    BY <1>5 DEF Stop
  <2>4. PagePos(Stop(b) - 1) \in Int /\ PagePos(Stop(b) - 1) >= -1
    BY <1>6, <2>3
  <2>5. \A p \in AllPages : pos'[p] >= -1
    BY <1>7, <2>1, <2>2, <2>4
  <2>6. /\ pages # {} /\ calls' \in 0 .. MaxCalls
        /\ UNCHANGED <<pages, connects, locked, cur, len, avail, fault>>
    BY <1>3, <1>13 DEF Wait
  <2> QED
    BY <1>1, <1>2, <2>5, <2>6, ValueAfter
<1>14. ASSUME NEW s \in Streams, NEW b \in Blocks[s], SetCurr(s, b)
       PROVE  ValueInv'
  <2>1. b \in AllBlocks
    BY DEF AllBlocks
  <2>2. cur' \in Nat /\ len' \in Nat /\ pages # {} /\ calls' \in 0 .. MaxCalls
    BY <1>3, <1>5, <1>14, <2>1, EnterNat DEF SetCurr
  <2>3. locked' = [locked EXCEPT ![s] = b] /\ Stop(b) <= avail
    BY <1>14 DEF SetCurr
  <2>4. Stop(b) <= Total
    BY <1>2, <1>5, <2>1, <2>3 DEF Stop
  <2>5. /\ locked' \in [Streams -> [start : Nat, size : Nat]]
        /\ \A t \in Streams : locked'[t] \in Blocks[t] \cup {NoBlock} /\ Stop(locked'[t]) <= Total
    BY <1>2, <1>5, <2>1, <2>3, <2>4
  <2> QED
    BY <1>2, <1>14, <2>2, <2>5, ValueAfter DEF SetCurr
<1>15. ASSUME NEW s \in Streams, StreamStop(s)
       PROVE  ValueInv'
  <2>1. locked' = [locked EXCEPT ![s] = NoBlock] /\ locked[s] # NoBlock
        /\ UNCHANGED <<pages, connects, pos, cur, len, avail, calls, fault>>
    BY <1>15 DEF StreamStop
  <2>2. pages # {}
    BY <2>1 DEF ValueInv
  <2>3. NoBlock \in [start : Nat, size : Nat] /\ Stop(NoBlock) <= Total
    BY <1>2 DEF NoBlock, Stop
  <2>4. /\ locked' \in [Streams -> [start : Nat, size : Nat]]
        /\ \A t \in Streams : locked'[t] \in Blocks[t] \cup {NoBlock} /\ Stop(locked'[t]) <= Total
    BY <1>2, <2>1, <2>3
  <2> QED
    BY <1>1, <1>2, <2>1, <2>2, <2>4, ValueAfter
<1>16. CASE InsertPage
  <2>1. op # "none" /\ Advance(cur, len, PagePos(cur) + PageSize)
        /\ UNCHANGED <<pages, connects, locked, avail, calls, fault>>
    BY <1>16 DEF InsertPage, AtMiss
  <2>2. PICK e \in FreeOne(next).free : pos' = [pos EXCEPT ![e.page] = PagePos(cur)]
    BY <1>16, ChosenIs DEF InsertPage
  <2>3. PagePos(cur) \in Nat /\ PagePos(cur) \in Int /\ PagePos(cur) >= -1
    BY <1>1, <1>6
  <2>6. next \in 1 .. Len(cache) + 1
    BY <1>8, <2>1
  <2>4. \A p \in AllPages : pos'[p] >= -1
    BY <1>7, <2>2, <2>3, <2>6
  <2>5. cur' \in Nat /\ len' \in Nat
    BY <1>1, <2>1, <2>3, AdvanceNat
  <2> QED
    BY <1>2, <1>4, <2>1, <2>4, <2>5, ValueAfter
<1>17. ASSUME NEW why \in {"busy", "underflow", "read"}, Fail(why), op # "none",
              \A p \in AllPages : pos'[p] >= -1
       PROVE  ValueInv'
  <2>1. /\ fault' \in {"none", "busy", "underflow", "read"}
        /\ UNCHANGED <<pages, connects, locked, avail, cur, len, calls>>
    BY <1>2, <1>17 DEF Fail
  <2> QED
    BY <1>1, <1>2, <1>4, <1>17, <2>1, ValueAfter
<1>18. CASE InsertPageBusy
  BY <1>2, <1>17, <1>18 DEF InsertPageBusy, AtMiss
<1>19. CASE InsertPageNotBuffered
  BY <1>2, <1>17, <1>19 DEF InsertPageNotBuffered, AtMiss
<1>20. CASE InsertPageReadFails
  <2>1. PICK e \in FreeOne(next).free : pos' = [pos EXCEPT ![e.page] = -1]
    BY <1>20, ChosenIs DEF InsertPageReadFails
  <2>2. Fail("read") /\ op # "none"
    BY <1>20 DEF InsertPageReadFails, AtMiss
  <2>3. -1 \in Int /\ -1 >= -1
    OBVIOUS
  <2>5. next \in 1 .. Len(cache) + 1
    BY <1>8, <2>2
  <2>4. \A p \in AllPages : pos'[p] >= -1
    BY <1>7, <2>1, <2>3, <2>5
  <2> QED
    BY <1>17, <2>2, <2>4
<1>21. CASE TakeCached
  <2>1. /\ op # "none" /\ Advance(cur, len, pos[cache[next]] + PageSize)
        /\ UNCHANGED <<pages, connects, pos, locked, avail, calls, fault>>
    BY <1>21 DEF TakeCached, PageEnd
  <2>2. next \in 1 .. Len(cache)
    <3>1. ~(\A i \in 1 .. Len(cache) : i = next => pos[cache[i]] > cur)
      BY <1>21 DEF TakeCached, AtMiss
    <3> QED
      BY <3>1
  <2>3. cache[next] \in AllPages
    BY <2>2, CacheTypes DEF CacheInv
  <2>4. pos[cache[next]] \in Int /\ pos[cache[next]] >= -1
    BY <1>1, <1>2, <2>3
  <2>5. pos[cache[next]] + PageSize \in Nat
    BY <1>1, <2>4
  <2>6. cur' \in Nat /\ len' \in Nat
    BY <1>1, <2>1, <2>5, AdvanceNat
  <2> QED
    BY <1>2, <1>4, <2>1, <2>6, ValueAfter
<1>22. CASE Return
  <2>1. op # "none" /\ UNCHANGED <<pages, connects, pos, locked, avail, cur, len, calls, fault>>
    BY <1>22 DEF Return
  <2> QED
    BY <1>1, <1>2, <1>4, <2>1, ValueAfter
<1>23. ASSUME owned # NoPage PROVE pages # {}
  BY <1>23 DEF ValueInv
<1>24. CASE WaitReturn
  <2>1. owned # NoPage /\ UNCHANGED <<pages, connects, pos, locked, avail, cur, len, calls, fault>>
    BY <1>24 DEF WaitReturn
  <2> QED
    BY <1>1, <1>2, <1>23, <2>1, ValueAfter
<1>25. CASE WaitCancelled
  <2>1. owned # NoPage /\ pos' = [pos EXCEPT ![owned] = -1]
        /\ UNCHANGED <<pages, connects, locked, avail, cur, len, calls, fault>>
    BY <1>25 DEF WaitCancelled
  <2>2. \A p \in AllPages : pos'[p] >= -1
    BY <1>1, <1>2, <2>1
  <2> QED
    BY <1>1, <1>2, <1>23, <2>1, <2>2, ValueAfter
<1>26. CASE UNCHANGED vars
  BY <1>26 DEF ValueInv, Made, Stop
<1> QED
  BY <1>9, <1>10, <1>11, <1>12, <1>13, <1>14, <1>15, <1>16, <1>18, <1>19, <1>20, <1>21, <1>22,
     <1>24, <1>25, <1>26 DEF Next, CallStep

-----------------------------------------------------------------------------
(* The order and the counts, step by step.                                 *)
LEMMA OrderStep ==
  ASSUME ReaderInv, [Next]_vars
  PROVE  OrderInv' /\ RefInv'
<1>1. CacheInv /\ ValueInv /\ OrderInv /\ RefInv
  BY DEF ReaderInv
<1>2. /\ PageTypes /\ Len(cache) \in Nat /\ cache \in Seq(AllPages)
      /\ op \in {"none", "read", "lock"}
  BY <1>1, Values DEF CacheInv, PageTypes
<1>3. ASSUME op # "none" PROVE next \in 1 .. Len(cache) + 1 /\ pages # {}
  BY <1>2, <1>3, <1>1 DEF CacheInv, PageTypes, NextInv
<1>4. ASSUME ~Live', connects' = connects
      PROVE  OrderInv' /\ RefInv'
  BY <1>4, OrderAfter, RefAfter
<1>5. ASSUME UNCHANGED <<pages, cRef, locked, connects, pos, cache>>,
             op' = "none", fault' = "none" => op # "lock" /\ fault = "none"
      PROVE  OrderInv' /\ RefInv'
  BY <1>1, <1>2, <1>5, IdleKeeps
<1>6. CASE Commit
  <2>1. /\ op = "none" /\ pages = {} /\ connects' = connects + 1
        /\ UNCHANGED <<pos, cRef, cache, locked, op, fault, cur>>
    BY <1>6 DEF Commit, Quiet
  <2>2. connects \in Nat
    BY <1>2, SizesAssumption DEF PageTypes
  <2>3. CASE Live'
    <3>1. connects = 0
      BY <2>1, <2>2, <2>3 DEF Live
    <3>2. cache = <<>> /\ (\A p \in AllPages : cRef[p] = 0) /\ \A s \in Streams : locked[s] = NoBlock
      BY <1>1, <2>1, <3>1 DEF ValueInv
    <3>3. Len(cache') = 0 /\ \A p : ~In(cache', p)
      BY <2>1, <3>2 DEF In
    <3>4. SortedIn(cache', pos')
      BY <3>3 DEF SortedIn
    <3>5. Made' \subseteq AllPages
      <4>1. CacheInv'
        BY <1>1, CacheInvStep
      <4>2. connects' = 1 /\ MaxConnects \in Nat /\ 1 <= MaxConnects /\ NPages \in Nat
        BY <2>1, <3>1, <4>1, SizesAssumption DEF CacheInv, PageTypes
      <4>3. NPages * MaxConnects \in Nat /\ NPages * 1 = NPages /\ NPages <= NPages * MaxConnects
        BY ONLY <4>2
      <4>4. Made' = 1 .. NPages
        BY <4>2, <4>3 DEF Made
      <4> QED
        BY <4>2, <4>3, <4>4 DEF AllPages
    <3>6. \A p \in Made' : cRef'[p] = IF In(cache', p)
                                      THEN Cardinality(LocksOf(pos', locked', {}, cur', p)) ELSE 0
      BY <2>1, <3>2, <3>3, <3>5
    <3>7. \A s \in Streams : locked'[s] = NoBlock
      BY <2>1, <3>2
    <3>8. CountedIn(cache, pos, cRef, locked, {}, cur)'
      BY <3>6, <3>7 DEF CountedIn
    <3>9. OrderInv'
      BY <2>1, <3>4, OrderAfter
    <3> QED
      BY <2>1, <3>8, <3>9 DEF RefInv
  <2>4. CASE ~Live'
    BY <2>4 DEF OrderInv, RefInv
  <2> QED
    BY <2>3, <2>4
<1>7. CASE Decommit
  <2>1. ~Live' /\ connects' = connects
    BY <1>7 DEF Decommit, Live
  <2> QED
    BY <1>4, <2>1
<1>8. ASSUME UNCHANGED <<pageVars, callVars, locked, fault, connects>>
      PROVE  OrderInv' /\ RefInv'
  <2>1. (Live' <=> Live) /\ Made' = Made
    BY <1>8 DEF Live, Made
  <2>2. OrderInv'
    BY <1>1, <1>8, <2>1, OrderAfter DEF OrderInv
  <2>3. RefInv'
    <3>1. ASSUME Live, fault = "none", op = "lock"
          PROVE  \E t \in Streams : LockingBy(t)'
      <4>1. PICK t \in Streams : LockingBy(t)
        BY <1>1, <3>1 DEF RefInv
      <4>2. CountedIn(cache', pos', cRef', locked', {t}, cur')
        BY <1>8, <4>1 DEF LockingBy
      <4>3. CountedIn(cache, pos, cRef, locked, {t}, cur)'
        BY <1>8, <4>2, CountedAfter
      <4> QED
        BY <1>8, <4>1, <4>3 DEF LockingBy, Stop
    <3>2. ASSUME Live, fault = "none", op # "lock"
          PROVE  CountedIn(cache, pos, cRef, locked, {}, cur)'
      <4>1. CountedIn(cache', pos', cRef', locked', {}, cur')
        BY <1>1, <1>8, <3>2 DEF RefInv
      <4> QED
        BY <1>8, <4>1, CountedAfter
    <3> QED
      BY <1>8, <2>1, <3>1, <3>2 DEF RefInv
  <2> QED
    BY <2>2, <2>3
<1>9. CASE Download
  BY <1>8, <1>9 DEF Download
<1>10. ASSUME NEW b \in AllBlocks, Read(b)
       PROVE  OrderInv' /\ RefInv'
  <2>1. /\ op = "none" /\ pages # {} /\ fault = "none" /\ Enter("read", b, cRef)
        /\ UNCHANGED <<pages, pos, cache, locked, fault, connects>>
    BY <1>10 DEF Read, Call
  <2>2. op' = "read" /\ cRef' = cRef
    BY <2>1 DEF Enter
  <2>3. b \in [start : Nat, size : Nat] /\ b.size > 0
    BY BlocksAssumption DEF AllBlocks
  <2>4. CASE Live
    <3>1. SortedIn(cache, pos)
      BY <1>1, <2>4 DEF OrderInv
    <3>2. PassedIn(cache, pos, next', cur', len')
      BY <1>2, <2>1, <2>3, <3>1, EnterPassed
    <3>3. CountedIn(cache, pos, cRef, locked, {}, cur')
      BY <1>1, <2>1, <2>4, CountedRead DEF RefInv
    <3>4. OrderInv'
      BY <2>1, <3>1, <3>2, OrderAfter
    <3> QED
      BY <2>1, <2>2, <3>3, <3>4, RefAfter
  <2>5. CASE ~Live
    BY <1>4, <2>1, <2>5 DEF Live
  <2> QED
    BY <2>4, <2>5
<1>11. ASSUME NEW b \in AllBlocks, Wait(b)
       PROVE  OrderInv' /\ RefInv'
  <2>1. Len(cache) + 1 \in 1 .. Len(cache) + 1
    BY <1>2
  <2>2. PICK e \in FreeOne(Len(cache) + 1).free : pos' = [pos EXCEPT ![e.page] = PagePos(Stop(b) - 1)]
    BY <1>11, ChosenIs DEF Wait
  <2>3. /\ UNCHANGED <<pages, cRef, locked, connects>> /\ cache' = FreeOne(Len(cache) + 1).cache
        /\ op = "none" /\ op' = "none" /\ fault' = fault
    BY <1>11 DEF Wait, Call
  <2> QED
    BY <1>1, <2>1, <2>2, <2>3, FreeOneIdle
<1>12. ASSUME NEW s \in Streams, NEW b \in Blocks[s], SetCurr(s, b)
       PROVE  OrderInv' /\ RefInv'
  BY <1>1, <1>12, SetCurrKeeps
<1>13. ASSUME NEW s \in Streams, StreamStop(s)
       PROVE  OrderInv' /\ RefInv'
  <2>1. /\ op = "none" /\ fault = "none" /\ cRef' = UnlockPages(locked[s])
        /\ locked' = [locked EXCEPT ![s] = NoBlock]
        /\ UNCHANGED <<pages, pos, cache, op, cur, fault, connects>>
    BY <1>13 DEF StreamStop
  <2>2. CASE Live
    <3>1. SortedIn(cache, pos) /\ PlaceInv /\ LocksTyped(locked)
      BY <1>1, <2>2, Values DEF OrderInv, CacheInv
    <3>2. CountedIn(cache, pos, cRef, locked, {}, 0)
      BY <1>1, <2>1, <2>2, CountedRead DEF RefInv
    <3>3. CountedIn(cache, pos, cRef', locked', {}, 0)
      BY <1>2, <2>1, <3>1, <3>2, CountedUnlock
    <3>4. CountedIn(cache', pos', cRef', locked', {}, cur')
      BY <2>1, <3>3, CountedRead
    <3>5. OrderInv'
      BY <2>1, <3>1, OrderAfter
    <3> QED
      BY <2>1, <3>4, <3>5, RefAfter
  <2>3. CASE ~Live
    BY <1>4, <2>1, <2>3 DEF Live
  <2> QED
    BY <2>2, <2>3
<1>14. ASSUME op # "none", connects' = connects, pages' = pages, ~Live
       PROVE  OrderInv' /\ RefInv'
  BY <1>4, <1>14 DEF Live
<1>15. CASE InsertPage
  <2>1. op # "none" /\ connects' = connects /\ pages' = pages
    BY <1>15 DEF InsertPage, AtMiss
  <2> QED
    BY <1>1, <1>14, <1>15, <2>1, InsertKeepsOrder
<1>16. ASSUME NEW why \in {"busy", "underflow", "read"}, Fail(why)
       PROVE  /\ UNCHANGED <<pages, cRef, locked, connects>> /\ op' = "none"
              /\ fault' = "none" => op # "lock" /\ fault = "none"
  BY <1>16 DEF Fail
<1>17. CASE InsertPageBusy
  BY <1>5, <1>16, <1>17 DEF InsertPageBusy
<1>18. CASE InsertPageNotBuffered
  <2>1. next \in 1 .. Len(cache) + 1
    BY <1>3, <1>18 DEF InsertPageNotBuffered, AtMiss
  <2>2. cache' = FreeOne(next).cache /\ pos' = pos
    BY <1>18 DEF InsertPageNotBuffered
  <2>3. /\ UNCHANGED <<pages, cRef, locked, connects>> /\ op' = "none"
        /\ fault' = "none" => op # "lock" /\ fault = "none"
    BY <1>16, <1>18 DEF InsertPageNotBuffered
  <2> QED
    BY <1>1, <2>1, <2>2, <2>3, FreeOneIdle
<1>19. CASE InsertPageReadFails
  <2>1. next \in 1 .. Len(cache) + 1
    BY <1>3, <1>19 DEF InsertPageReadFails, AtMiss
  <2>2. cache' = FreeOne(next).cache
        /\ \E e \in FreeOne(next).free : \E y : pos' = [pos EXCEPT ![e.page] = y]
    BY <1>19, ChosenIs DEF InsertPageReadFails
  <2>3. /\ UNCHANGED <<pages, cRef, locked, connects>> /\ op' = "none"
        /\ fault' = "none" => op # "lock" /\ fault = "none"
    BY <1>16, <1>19 DEF InsertPageReadFails
  <2> QED
    BY <1>1, <2>1, <2>2, <2>3, FreeOneIdle
<1>20. CASE TakeCached
  <2>1. op # "none" /\ connects' = connects /\ pages' = pages
    BY <1>20 DEF TakeCached
  <2> QED
    BY <1>1, <1>14, <1>20, <2>1, TakeKeeps
<1>21. CASE Return
  <2>1. /\ op # "none" /\ len = 0 /\ op' = "none"
        /\ UNCHANGED <<pages, pos, cRef, cache, locked, cur, fault, connects>>
    BY <1>21 DEF Return
  <2>2. CASE op = "lock" /\ Live
    <3>1. SortedIn(cache, pos)
      BY <1>1, <2>2 DEF OrderInv
    <3>2. fault = "none" => CountedIn(cache, pos, cRef, locked, {}, cur)
      <4>1. SUFFICES ASSUME fault = "none" PROVE CountedIn(cache, pos, cRef, locked, {}, cur)
        OBVIOUS
      <4>2. PICK t \in Streams : LockingBy(t)
        BY <1>1, <2>2, <4>1 DEF RefInv
      <4>3. cur = Stop(locked[t]) /\ CountedIn(cache, pos, cRef, locked, {t}, cur)
        BY <1>1, <2>1, <4>2 DEF LockingBy, ValueInv
      <4> QED
        BY <4>3, CountedEnd, CountedRead
    <3>3. OrderInv'
      BY <2>1, <3>1, OrderAfter
    <3> QED
      BY <2>1, <3>2, <3>3, RefAfter
  <2>3. CASE op # "lock"
    BY <1>5, <2>1, <2>3
  <2> QED
    BY <1>14, <2>1, <2>2, <2>3
<1>22. CASE WaitReturn
  BY <1>8, <1>22, <1>5 DEF WaitReturn
<1>23. CASE WaitCancelled
  <2>1. /\ owned # NoPage /\ pos' = [pos EXCEPT ![owned] = -1] /\ op = "none"
        /\ UNCHANGED <<pages, cRef, cache, op, locked, fault, connects>>
    BY <1>23 DEF WaitCancelled
  <2>2. \A p : In(cache, p) => p \in AllPages /\ p # owned
    <3>1. ~Cached(owned) /\ \A p : In(cache, p) => p \in AllPages
      BY <1>1, <1>2, ElementOfSeq DEF CacheInv, PlaceInv, In
    <3> QED
      BY <3>1 DEF Cached, In
  <2>3. \A p : In(cache', p) => In(cache, p) /\ pos'[p] = pos[p]
    BY <1>2, <2>1, <2>2 DEF PageTypes
  <2> QED
    BY <1>1, <1>2, <2>1, <2>3, IdleKeeps
<1>24. CASE UNCHANGED vars
  BY <1>8, <1>24
<1> QED
  BY <1>6, <1>7, <1>9, <1>10, <1>11, <1>12, <1>13, <1>15, <1>17, <1>18, <1>19, <1>20, <1>21,
     <1>22, <1>23, <1>24 DEF Next, CallStep

LEMMA ReaderInvInit == Init => ReaderInv
<1> SUFFICES ASSUME Init PROVE ReaderInv
  OBVIOUS
<1>1. CacheInv
  BY CacheInvInit
<1>2. /\ pages = {} /\ freePages = {} /\ cache = <<>> /\ connects = 0 /\ owned = NoPage
      /\ pos = [p \in AllPages |-> -1] /\ cRef = [p \in AllPages |-> 0]
      /\ locked = [s \in Streams |-> NoBlock] /\ op = "none" /\ fault = "none"
      /\ cur = 0 /\ len = 0 /\ avail = 0 /\ calls = 0
  BY DEF Init
<1>3. NoBlock \in [start : Nat, size : Nat] /\ Stop(NoBlock) = 0
  BY DEF NoBlock, Stop
<1>4. ValueInv
  BY <1>2, <1>3, SizesAssumption DEF ValueInv
<1>5. OrderInv /\ RefInv
  BY <1>2 DEF OrderInv, RefInv, Live
<1> QED
  BY <1>1, <1>4, <1>5 DEF ReaderInv

(* All of it is an invariant of the reader.                                *)
THEOREM ReaderInvariance == Spec => []ReaderInv
<1>1. ReaderInv /\ [Next]_vars => ReaderInv'
  BY CacheInvStep, ValueStep, OrderStep DEF ReaderInv
<1> QED
  BY <1>1, ReaderInvInit, PTL DEF Spec

-----------------------------------------------------------------------------
(* What the invariant means for the properties of the reader, during its   *)
(* first connection.                                                       *)
LEMMA TypesHold ==
  ASSUME ReaderInv, connects <= 1
  PROVE  TypeOK
<1>1. /\ PageTypes /\ Made \subseteq AllPages /\ cache \in Seq(AllPages)
      /\ pages \in {{}, Made} /\ (pages = {} => freePages = {} /\ owned = NoPage)
  BY Values DEF ReaderInv, CacheInv, ValueInv
<1>2. /\ freePages \subseteq [key : Int, page : pages] /\ owned \in pages \cup {NoPage}
  BY <1>1 DEF PageTypes
<1> QED
  BY <1>1, <1>2 DEF TypeOK, PageTypes, ReaderInv, ValueInv

LEMMA OrderHolds ==
  ASSUME ReaderInv, connects <= 1
  PROVE  CacheSorted /\ IteratorValid
<1>1. /\ PageSize \in Nat /\ PageSize > 0 /\ Len(cache) \in Nat /\ cur \in Nat /\ PageTypes
  BY Values DEF ReaderInv, CacheInv
<1>2. CacheSorted
  BY DEF CacheSorted, ReaderInv, OrderInv, Live, SortedIn
<1>3. ASSUME op # "none", len > 0
      PROVE  /\ \A i \in 1 .. Len(cache) : i < next => PageEnd(cache[i]) <= cur
             /\ \A i \in 1 .. Len(cache) : i >= next => cur < PageEnd(cache[i])
  <2>1. SortedIn(cache, pos) /\ PassedIn(cache, pos, next, cur, len)
    BY <1>3 DEF ReaderInv, CacheInv, NextInv, OrderInv, Live
  <2>2. ASSUME NEW i \in 1 .. Len(cache), i >= next PROVE cur < PageEnd(cache[i])
    <3>1. pos[cache[i]] \in Int /\ cur <= pos[cache[i]]
      BY <1>1, <2>1, <2>2, IndexesApart DEF PassedIn
    <3> QED
      BY <1>1, <3>1 DEF PageEnd
  <2> QED
    BY <1>3, <2>1, <2>2 DEF PassedIn, PageEnd
<1> QED
  BY <1>2, <1>3 DEF IteratorValid

LEMMA CountsHold ==
  ASSUME ReaderInv, connects <= 1
  PROVE  RefsMatchLocks /\ LockedResident
<1>1. ASSUME op = "none", fault = "none", pages # {}
      PROVE  CountedIn(cache, pos, cRef, locked, {}, cur)
  BY <1>1 DEF ReaderInv, RefInv, Live
<1>2. ASSUME op = "none", fault = "none", NEW p \in pages
      PROVE  cRef[p] = IF Cached(p) THEN Cardinality({s \in Streams : Covers(p, locked[s])}) ELSE 0
  <2>1. CountedIn(cache, pos, cRef, locked, {}, cur) /\ p \in Made
    BY <1>1, <1>2 DEF ReaderInv, CacheInv, PageTypes
  <2>2. LocksOf(pos, locked, {}, cur, p) = {s \in Streams : Covers(p, locked[s])}
    BY DEF LocksOf, LockedTo, Covers, PageEnd
  <2> QED
    BY <2>1, <2>2 DEF CountedIn, Cached, In
<1>3. ASSUME op = "none", fault = "none", NEW s \in Streams,
             NEW x \in locked[s].start .. Stop(locked[s]) - 1
      PROVE  \E i \in 1 .. Len(cache) : pos[cache[i]] <= x /\ x < PageEnd(cache[i])
  <2>1. locked[s] # NoBlock
    BY <1>3 DEF NoBlock, Stop
  <2>2. CountedIn(cache, pos, cRef, locked, {}, cur)
    BY <1>1, <1>3, <2>1 DEF ReaderInv, ValueInv
  <2>3. ResidentIn(cache, pos, x)
    BY <1>3, <2>1, <2>2 DEF CountedIn, LockedTo
  <2> QED
    BY <2>3 DEF ResidentIn, PageEnd
<1> QED
  BY <1>2, <1>3 DEF RefsMatchLocks, LockedResident

(* While the reader is connected for the first time its cache is sorted,   *)
(* a call's iterator stands where the call is, each page is counted once   *)
(* for every stream whose block lies on it, and every byte of those blocks *)
(* is cached (InsertPage, LockPages, UnlockPages and Stream::SetCurr).     *)
THEOREM CacheIsConsistent ==
  Spec => [](connects <= 1 => /\ TypeOK /\ PagesInOnePlace /\ CacheSorted /\ IteratorValid
                              /\ RefsMatchLocks /\ LockedResident)
<1>1. CacheInv => PagesInOnePlace
  BY DEF CacheInv, PlaceInv, PagesInOnePlace, Free
<1>2. ReaderInv => (connects <= 1 => /\ TypeOK /\ PagesInOnePlace /\ CacheSorted /\ IteratorValid
                                     /\ RefsMatchLocks /\ LockedResident)
  BY <1>1, TypesHold, OrderHolds, CountsHold DEF ReaderInv
<1> QED
  BY <1>2, ReaderInvariance, PTL

-----------------------------------------------------------------------------
(* With room for the blocks of the streams a lock finds a page: a page     *)
(* that is not free is the waiting thread's or cached, and a cached one    *)
(* that cannot be purged is under the iterator or under a block.           *)
LEMMA RoomLeft ==
  ASSUME ReaderInv, Live, RoomForBlocks, op = "lock", fault = "none", AtMiss,
         FreeOne(next).free = {}
  PROVE  FALSE
<1> DEFINE x == PagePos(cur)
           W == TouchedPages(locked)
           T == W \ {x}
           q == IF next \in 1 .. Len(cache) THEN cache[next] ELSE NoPage
           S == (Made \ {owned}) \ {q}
<1>1. /\ PageSize \in Nat /\ PageSize > 0 /\ Len(cache) \in Nat /\ Made \subseteq AllPages
      /\ pos \in [AllPages -> Int] /\ cRef \in [AllPages -> Int]
      /\ cache \in Seq(AllPages) /\ \A p : In(cache, p) => p \in Made
      /\ cur \in Nat /\ len \in Nat /\ len > 0 /\ next \in Nat
      /\ LocksTyped(locked) /\ PageTypes /\ PlaceInv /\ Total \in Nat /\ NPages \in Nat
  BY Values, SizesAssumption DEF ReaderInv, CacheInv, AtMiss
<1>2. SortedIn(cache, pos) /\ PassedIn(cache, pos, next, cur, len)
  BY DEF ReaderInv, OrderInv
<1>3. PICK t \in Streams : LockingBy(t)
  BY DEF ReaderInv, RefInv
<1>4. /\ locked[t] # NoBlock /\ locked[t].start <= cur /\ cur + len = Stop(locked[t])
      /\ CountedIn(cache, pos, cRef, locked, {t}, cur)
      /\ \A s \in Streams : /\ locked[s].start \in Nat /\ Stop(locked[s]) \in Nat
                            /\ Stop(locked[s]) <= Total
  <2>1. ASSUME NEW s \in Streams
        PROVE  locked[s].start \in Nat /\ Stop(locked[s]) \in Nat
    BY <1>1 DEF LocksTyped, Stop
  <2>2. \A s \in Streams : Stop(locked[s]) <= Total
    BY DEF ReaderInv, ValueInv
  <2> QED
    BY <1>3, <2>1, <2>2 DEF LockingBy
<1>5. x \in Nat /\ x <= cur /\ cur < x + PageSize /\ x % PageSize = 0
  <2>1. cur \div PageSize \in Nat
    BY <1>1
  <2>2. x \in Nat
    BY <1>1, <2>1 DEF PagePos
  <2> QED
    BY <1>1, <2>2, PagePosIs
<1> HIDE DEF x
<1>6. freePages = {} /\ Purgeable(next) = {}
  <2>1. ASSUME NEW v \in 1 .. Len(cache), NEW m,
               FreeOne(next) = [cache |-> RemoveAt(cache, v), free |-> {Entry(cache[v])}, next |-> m]
        PROVE  FALSE
    <3>1. FreeOne(next).free = {Entry(cache[v])}
      BY <2>1
    <3> QED
      BY <3>1
  <2>2. FreeOne(next) = [cache |-> cache, free |-> freePages, next |-> next] /\ ~MustPurge(next)
    BY <1>1, <2>1, FreeOneIs
  <2>3. FreeOne(next).free = freePages
    BY <2>2
  <2> QED
    BY <2>2, <2>3 DEF MustPurge
<1>7. ASSUME NEW i \in 1 .. Len(cache)
      PROVE  /\ i # next => cRef[cache[i]] # 0
             /\ pos[cache[i]] \in Nat /\ pos[cache[i]] % PageSize = 0 /\ pos[cache[i]] # x
  <2>1. pos[cache[i]] \in Nat /\ pos[cache[i]] % PageSize = 0
    BY <1>1, <1>2, IndexesApart
  <2>2. i # next => cRef[cache[i]] # 0
    BY <1>6 DEF Purgeable, Idle
  <2>3. CASE i < next
    <3>1. pos[cache[i]] + PageSize <= cur
      BY <1>1, <1>2, <2>3 DEF PassedIn
    <3> QED
      BY <1>1, <1>5, <2>1, <2>2, <3>1
  <2>4. CASE i >= next
    <3>1. pos[cache[i]] > cur
      <4>1. next \in 1 .. Len(cache)
        BY <1>1, <2>4 DEF PageTypes
      <4>2. pos[cache[next]] > cur /\ pos[cache[next]] \in Nat
        BY <1>1, <1>2, <4>1, IndexesApart DEF AtMiss
      <4>3. next < i => pos[cache[next]] + PageSize <= pos[cache[i]]
        BY <1>1, <1>2, <4>1, IndexesApart
      <4> QED
        BY <1>1, <2>1, <2>4, <4>2, <4>3, SMTT(30)
    <3> QED
      BY <1>1, <1>5, <2>1, <2>2, <3>1
  <2> QED
    BY <1>1, <2>1, <2>2, <2>3, <2>4
<1>8. x \in W
  <2>1. x < Stop(locked[t]) /\ locked[t].start < x + PageSize /\ x \in 0 .. Total
    BY <1>1, <1>4, <1>5
  <2> QED
    BY <1>4, <1>5, <2>1 DEF TouchedPages
<1>9. ASSUME NEW p \in S
      PROVE  In(cache, p) /\ pos[p] \in T
  <2>1. p \in Made /\ p # owned /\ p # q
    OBVIOUS
  <2>2. In(cache, p)
    <3>1. pages = Made
      BY DEF Live, ReaderInv, ValueInv
    <3> QED
      BY <1>1, <1>6, <2>1, <3>1 DEF PlaceInv, Free, Cached, In
  <2>3. PICK i \in 1 .. Len(cache) : cache[i] = p
    BY <2>2 DEF In
  <2>4. i # next
    BY <2>1, <2>3
  <2>5. cRef[p] # 0 /\ pos[p] \in Nat /\ pos[p] % PageSize = 0 /\ pos[p] # x
    BY <1>7, <2>3, <2>4
  <2>6. cRef[p] = Cardinality(LocksOf(pos, locked, {t}, cur, p))
    BY <1>4, <2>1, <2>2 DEF CountedIn
  <2>7. PICK s \in Streams : s \in LocksOf(pos, locked, {t}, cur, p)
    BY <2>5, <2>6, LocksFinite
  <2>8. /\ locked[s] # NoBlock /\ locked[s].start < pos[p] + PageSize
        /\ pos[p] < IF s \in {t} THEN cur ELSE Stop(locked[s])
    BY <2>7 DEF LocksOf, LockedTo
  <2>9. pos[p] < Stop(locked[s])
    BY <1>1, <1>4, <2>5, <2>8, SMTT(30)
  <2>10. pos[p] \in 0 .. Total
    BY <1>1, <1>4, <2>5, <2>9
  <2> QED
    BY <2>2, <2>5, <2>8, <2>9, <2>10 DEF TouchedPages
<1>10. IsFiniteSet(W) /\ Cardinality(W) \in Nat /\ Cardinality(W) + 2 <= NPages
  <2>1. W \in SUBSET (0 .. Total) /\ IsFiniteSet(0 .. Total)
    BY <1>1, FS_Interval DEF TouchedPages
  <2>2. IsFiniteSet(W)
    BY <2>1, FS_Subset
  <2>3. locked \in [Streams -> AllBlocks \cup {NoBlock}]
    BY DEF ReaderInv, ValueInv, AllBlocks
  <2>4. Cardinality(W) + 2 <= NPages
    BY <2>3 DEF RoomForBlocks, ReaderInv, ValueInv
  <2> QED
    BY <2>2, <2>4, FS_CardinalityType
<1>11. IsFiniteSet(T) /\ Cardinality(T) = Cardinality(W) - 1
  BY <1>8, <1>10, FS_RemoveElement
<1>12. IsFiniteSet(S) /\ Cardinality(S) >= NPages - 2 /\ Cardinality(S) \in Nat
  <2>1. connects = 1
    <3>1. connects \in Nat /\ connects <= 1 /\ Made # {}
      BY <1>1, SizesAssumption DEF Live, PageTypes, ReaderInv, ValueInv
    <3>2. ASSUME connects = 0 PROVE FALSE
      <4>1. NPages * connects = 0
        BY <1>1, <3>2
      <4> QED
        BY <3>1, <4>1 DEF Made
    <3> QED
      BY <3>1, <3>2
  <2>2. Made = 1 .. NPages
    BY <1>1, <2>1 DEF Made
  <2>3. IsFiniteSet(Made) /\ Cardinality(Made) = NPages
    BY <1>1, <2>2, FS_Interval
  <2>4. /\ IsFiniteSet(Made \ {owned})
        /\ Cardinality(Made \ {owned}) = IF owned \in Made THEN NPages - 1 ELSE NPages
    BY <2>3, FS_RemoveElement
  <2>5. /\ IsFiniteSet(S)
        /\ Cardinality(S) = IF q \in Made \ {owned} THEN Cardinality(Made \ {owned}) - 1
                            ELSE Cardinality(Made \ {owned})
    BY <2>4, FS_RemoveElement
  <2>6. Cardinality(S) \in Nat
    BY <2>5, FS_CardinalityType
  <2> HIDE DEF S, q
  <2> QED
    BY <1>1, <2>4, <2>5, <2>6
<1> HIDE DEF S, T, W, q
<1> DEFINE g == [p \in S |-> pos[p]]
<1>13. g \in [S -> T] /\ Cardinality(T) < Cardinality(S)
  BY <1>1, <1>9, <1>10, <1>11, <1>12
<1>14. PICK p \in S, r \in S : p # r /\ pos[p] = pos[r]
  <2>1. \E p, r \in S : p # r /\ g[p] = g[r]
    <3> HIDE DEF g
    <3> QED
      BY <1>11, <1>12, <1>13, FS_PigeonHole
  <2> QED
    BY <2>1
<1>15. In(cache, p) /\ In(cache, r)
  BY <1>9
<1>16. pos[p] \in Nat /\ (p = r \/ pos[p] + PageSize <= pos[r] \/ pos[r] + PageSize <= pos[p])
  BY <1>1, <1>2, <1>15, PagesApart
<1> QED
  BY <1>1, <1>14, <1>16

LEMMA BusyStep ==
  ASSUME MaxConnects = 1, RoomForBlocks, ReaderInv, NeverShortOfPages, [Next]_vars
  PROVE  NeverShortOfPages'
<1>1. CASE InsertPageBusy
  <2>1. AtMiss /\ FreeOne(next).free = {} /\ fault' = IF op = "lock" /\ fault = "none" THEN "busy" ELSE fault
    BY <1>1 DEF InsertPageBusy, Fail
  <2>2. connects <= 1
    BY DEF ReaderInv, CacheInv, PageTypes
  <2>3. pages # {}
    BY <2>1 DEF AtMiss, ReaderInv, CacheInv, NextInv
  <2>4. Live
    BY <2>2, <2>3 DEF Live
  <2>5. ~(op = "lock" /\ fault = "none")
    BY <2>1, <2>4, RoomLeft
  <2> QED
    BY <2>1, <2>5 DEF NeverShortOfPages
<1>2. CASE ~InsertPageBusy
  BY <1>2 DEF NeverShortOfPages, Next, CallStep, Commit, Decommit, Download, Read, Wait, SetCurr,
              StreamStop, InsertPage, InsertPageNotBuffered, InsertPageReadFails, Fail, TakeCached,
              Return, WaitReturn, WaitCancelled
<1> QED
  BY <1>1, <1>2

(* With room for the blocks of the streams the whole of PagesConsistent    *)
(* holds while the reader is connected: no lock of a stream fails for want *)
(* of a page, however the pages were taken, purged and given back          *)
(* (FreeOne, InsertPage, LockPages and UnlockPages of MkvReader).          *)
THEOREM PagesAreConsistent ==
  ASSUME MaxConnects = 1, RoomForBlocks
  PROVE  Spec => []PagesConsistent
<1>1. Init => NeverShortOfPages
  BY DEF Init, NeverShortOfPages
<1>2. ReaderInv /\ NeverShortOfPages /\ [Next]_vars => NeverShortOfPages'
  BY BusyStep
<1>3. ReaderInv => connects <= 1
  BY DEF ReaderInv, CacheInv, PageTypes
<1>4. /\ NeverShortOfPages
      /\ connects <= 1
      /\ connects <= 1 => /\ TypeOK /\ PagesInOnePlace /\ CacheSorted /\ IteratorValid
                          /\ RefsMatchLocks /\ LockedResident
      => PagesConsistent
  BY DEF PagesConsistent
<1> QED
  BY <1>1, <1>2, <1>3, <1>4, ReaderInvariance, CacheIsConsistent, PTL DEF Spec

=============================================================================
