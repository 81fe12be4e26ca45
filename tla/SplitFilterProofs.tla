------------------------- MODULE SplitFilterProofs ---------------------------
(***************************************************************************)
(* Proofs about the splitter at work, for every file, every number of      *)
(* clusters, every seek and every interleaving of the parser thread, the   *)
(* output pins' threads and the application.                               *)
(***************************************************************************)
EXTENDS WebmSource, WellFoundedInduction, TLAPS

(***************************************************************************)
(* Types.  A stream's position is lazy, at the end, or at a block of its   *)
(* track, and at a block while its thread collects buffers for it.         *)
(***************************************************************************)
Threads == {"none", "count", "wait", "buffers", "populate", "deliver", "eos", "end"}
Parsers == {"none", "run", "read", "end", "failed"}
Calling == [op : {"idle", "final", "joinPin", "joinSeek", "getState"},
            pin : Tracks \cup {"none"}, t : Int, timed : BOOLEAN]

FileType ==
  /\ blocks \in [1 .. Clusters -> SUBSET Tracks] /\ inCache \in BOOLEAN
  /\ connected \subseteq Tracks /\ connected # {}
  /\ loaded \in 0 .. Clusters /\ done \in BOOLEAN /\ (done => loaded = Clusters)

CallType ==
  /\ state \in {"stopped", "active"} /\ app \in Calling /\ parser \in Parsers
  /\ starvation \in -1 .. Clusters
  /\ seekBase \in Null .. EOS /\ seekBaseNs \in Int

PinType ==
  /\ th \in [Tracks -> Threads]
  /\ hStop \in [Tracks -> BOOLEAN] /\ hNewCluster \in [Tracks -> BOOLEAN]
  /\ committed \in [Tracks -> BOOLEAN]
  /\ curr \in [Tracks -> Int] /\ base \in [Tracks -> Int]
  /\ sample \in [Tracks -> Int] /\ sent \in [Tracks -> Int]

PlaceType ==
  \A p \in Tracks :
    /\ curr[p] \in BlocksOf(p) \cup {Null, EOS}
    /\ th[p] \in {"buffers", "populate"} => curr[p] \in BlocksOf(p)

SplitType == FileType /\ CallType /\ PinType /\ PlaceType

(***************************************************************************)
(* CallInv: what the application thread is doing says which threads there  *)
(* are and which allocators are committed.                                 *)
(***************************************************************************)
NoThreads == parser = "none" /\ \A p \in Tracks : th[p] = "none"

CallInv ==
  /\ app.op = "idle" => app = Idle
  /\ app.op \in {"joinPin", "joinSeek"} => app.pin \in connected
  /\ app.op = "joinPin" => app.t = NoSeek /\ app.timed = FALSE
  /\ app.op \in {"final", "joinPin"} => state = "stopped"
  /\ app.op = "joinSeek" => state = "active"
  /\ state = "stopped" /\ app.op \in {"idle", "getState"} => NoThreads
  /\ app.op = "joinPin" => parser = "none" /\ (app.pin = "audio" => th["video"] = "none")
  /\ state = "active" \/ app.op = "final" => \A p \in connected : committed[p]
  /\ app.op = "joinPin" /\ app.pin = "video" /\ "audio" \in connected => committed["audio"]
  /\ \A p \in Tracks : th[p] # "none" => p \in connected

(***************************************************************************)
(* ToldInv: the parser thread has gone only when there is nothing left to  *)
(* load, and whoever sleeps is told.                                       *)
(***************************************************************************)
ToldInv ==
  /\ state = "active" /\ parser \in {"none", "end"} => done
  /\ StarvingPinIsTold
  /\ app.op = "getState" /\ Fed => hNew

(***************************************************************************)
(* OrderInv: what a pin's thread delivers next is the block after the last *)
(* one it has delivered.                                                   *)
(***************************************************************************)
Follows(p, c, e) == c \in Nat /\ c < e /\ NoneBetween(p, c, e)

PinOrder(p) ==
  /\ th[p] \in {"count", "wait", "buffers", "populate", "eos"} /\ sent[p] # Null =>
       Follows(p, sent[p], curr[p]) /\ Time(p, sent[p]) >= base[p]
  /\ th[p] = "deliver" =>
       /\ Follows(p, sample[p], curr[p]) /\ Time(p, sample[p]) >= base[p]
       /\ sent[p] # Null => Follows(p, sent[p], sample[p])
  /\ th[p] = "eos" => curr[p] = EOS

OrderInv == \A p \in Tracks : PinOrder(p)

SplitInv == SplitType /\ CallInv /\ ToldInv /\ OrderInv

(***************************************************************************)
(* SeekInv: pins sought to the same time have the base that was found for  *)
(* the first of them, or the start of the file, which is what they find    *)
(* when nothing was loaded at the time.                                    *)
(***************************************************************************)
AlwaysVideo == \A S \in BlockSets : "video" \in S

HasBase(p) ==
  IF seekBase = Null THEN curr[p] = Null \/ base[p] = FirstTime(1)
  ELSE curr[p] # Null /\ base[p] = seekBaseNs

BaseInv ==
  /\ group.t = currTime /\ group.pins \subseteq connected
  /\ "video" \in connected => \A p \in group.pins : HasBase(p)

AllVideo == \A c \in 1 .. Clusters : "video" \in blocks[c]

SeekInv == AllVideo /\ BaseInv

-----------------------------------------------------------------------------
(***************************************************************************)
(* What the parser library returns.                                        *)
(***************************************************************************)

(* A set of numbers that is not empty has a least element.                 *)
LEMMA MinOf ==
  ASSUME NEW S \in SUBSET Nat, S # {}
  PROVE  Min(S) \in S /\ \A y \in S : Min(S) <= y
<1>1. PICK x \in S : \A y \in S : ~(<<y, x>> \in OpToRel(<, Nat))
  BY NatLessThanWellFounded, WFMin
<1>2. ASSUME NEW y \in S PROVE x <= y
  <2>1. <<y, x>> \in Nat \X Nat /\ <<y, x>>[1] = y /\ <<y, x>>[2] = x /\ x \in Nat /\ y \in Nat
    OBVIOUS
  <2>2. <<y, x>> \notin OpToRel(<, Nat)
    BY <1>1
  <2>3. ~(y < x)
    BY <2>1, <2>2 DEF OpToRel
  <2> QED
    BY <2>1, <2>3
<1> QED
  BY <1>1, <1>2 DEF Min

(* One whose elements have a bound has a greatest.                         *)
LEMMA MaxOf ==
  ASSUME NEW n \in Nat, NEW S \in SUBSET (0 .. n), S # {}
  PROVE  Max(S) \in S /\ \A y \in S : y <= Max(S)
<1> DEFINE D == {n - y : y \in S}
<1>0. \A y \in S : y \in Nat /\ n - y \in Nat
  OBVIOUS
<1>1. D \in SUBSET Nat /\ D # {}
  BY <1>0
<1>2. Min(D) \in D /\ \A d \in D : Min(D) <= d
  BY <1>1, MinOf
<1>3. PICK x \in S : Min(D) = n - x
  BY <1>2
<1>4. ASSUME NEW y \in S PROVE y <= x
  <2>1. n - x <= n - y
    BY <1>2, <1>3
  <2> QED
    BY <1>0, <2>1
<1> QED
  BY <1>3, <1>4 DEF Max

(* FirstIn finds the first block, and says why if there is none.           *)
LEMMA FirstInIs ==
  ASSUME NEW S \in SUBSET Nat, NEW d
  PROVE  /\ S # {} => FirstIn(S, d) \in S /\ \A y \in S : FirstIn(S, d) <= y
         /\ S = {} => FirstIn(S, d) = IF d THEN EOS ELSE NotFull
  BY MinOf DEF FirstIn

(* Blocks are clusters of the file, none of them a special value.          *)
LEMMA BlocksAre ==
  ASSUME NEW p
  PROVE  /\ Clusters \in Nat /\ BlocksOf(p) \subseteq 1 .. Clusters
         /\ \A c \in BlocksOf(p) : c \in Nat /\ c > 0 /\ c \notin {Null, EOS, NotFull}
  BY SplitAssumption DEF BlocksOf, Null, EOS, NotFull

(* The next block follows this one, and the stream ends after the last.    *)
LEMMA NextOfIs ==
  ASSUME NEW p \in Tracks, NEW c \in Nat, NEW n \in 0 .. Clusters, NEW d \in BOOLEAN,
         d => n = Clusters, c <= Clusters
  PROVE  /\ NextOf(p, c, n, d) \in BlocksOf(p) \cup {EOS, NotFull}
         /\ NextOf(p, c, n, d) # NotFull => Follows(p, c, NextOf(p, c, n, d))
<1> DEFINE next == NextOf(p, c, n, d)
<1>0. /\ n \in Nat /\ EOS = Clusters + 1 /\ NotFull = -1 /\ Clusters \in Nat
      /\ \A b \in BlocksOf(p) : b \in Nat /\ b > 0 /\ b <= Clusters
  BY BlocksAre DEF EOS, NotFull
<1> HIDE DEF next
<1> SUFFICES /\ next \in BlocksOf(p) \cup {EOS, NotFull}
             /\ next # NotFull => c < next /\ \A b \in BlocksOf(p) : ~(c < b /\ b < next)
  BY DEF next, Follows, NoneBetween
<1>1. CASE c > n
  <2> DEFINE S == {e \in BlocksOf(p) : e > c}
  <2>1. next = FirstIn(S, TRUE) /\ S \in SUBSET Nat
    BY <1>0, <1>1 DEF next, NextOf
  <2>2. CASE S # {}
    <3>1. next \in S /\ \A e \in S : next <= e
      BY <2>1, <2>2, FirstInIs
    <3> QED
      BY <1>0, <3>1
  <2>3. CASE S = {}
    <3>1. next = EOS
      BY <2>1, <2>3, FirstInIs
    <3> QED
      BY <1>0, <2>3, <3>1
  <2> QED
    BY <2>2, <2>3
<1>2. CASE ~(c > n)
  <2> DEFINE S == {e \in BlocksOf(p) : c < e /\ e <= n}
  <2>1. next = FirstIn(S, d) /\ S \in SUBSET Nat
    BY <1>0, <1>2 DEF next, NextOf
  <2>2. CASE S # {}
    <3>1. next \in S /\ \A e \in S : next <= e
      BY <2>1, <2>2, FirstInIs
    <3> QED
      BY <1>0, <3>1
  <2>3. CASE S = {}
    <3>1. next = IF d THEN EOS ELSE NotFull
      BY <2>1, <2>3, FirstInIs
    <3> QED
      BY <1>0, <2>3, <3>1
  <2> QED
    BY <2>2, <2>3
<1> QED
  BY <1>1, <1>2

(* The first block, or why there is none.                                  *)
LEMMA FirstOfIs ==
  ASSUME NEW p \in Tracks, NEW n \in 0 .. Clusters, NEW d \in BOOLEAN
  PROVE  /\ FirstOf(p, n, d) \in BlocksOf(p) \cup {EOS, NotFull}
         /\ d => FirstOf(p, n, d) # NotFull
         /\ (\E c \in BlocksOf(p) : c <= n) => FirstOf(p, n, d) \in BlocksOf(p)
<1> DEFINE S == {c \in BlocksOf(p) : c <= n}
<1>1. FirstOf(p, n, d) = FirstIn(S, d) /\ S \in SUBSET Nat
  BY BlocksAre DEF FirstOf
<1>2. EOS # NotFull
  BY BlocksAre DEF EOS, NotFull
<1>3. CASE S # {}
  <2>1. FirstIn(S, d) \in S
    BY <1>1, <1>3, FirstInIs
  <2> QED
    BY <1>1, <2>1, BlocksAre
<1>4. CASE S = {}
  <2>1. FirstIn(S, d) = IF d THEN EOS ELSE NotFull
    BY <1>1, <1>4, FirstInIs
  <2> QED
    BY <1>1, <1>2, <1>4, <2>1
<1> QED
  BY <1>3, <1>4

(* A search finds a block, or says why there is none.                      *)
LEMMA SeekOfIs ==
  ASSUME NEW p \in Tracks, NEW ns, NEW n \in 0 .. Clusters, NEW d \in BOOLEAN
  PROVE  /\ SeekOf(p, ns, n, d) \in BlocksOf(p) \cup {EOS, NotFull}
         /\ (\E c \in BlocksOf(p) : c <= n) => SeekOf(p, ns, n, d) \in BlocksOf(p)
<1> DEFINE S == {c \in BlocksOf(p) : c <= n /\ Time(p, c) <= ns}
<1>1. S \in SUBSET (0 .. Clusters) /\ Clusters \in Nat
  BY BlocksAre
<1>2. CASE S # {}
  <2>1. Max(S) \in S
    BY <1>1, <1>2, MaxOf
  <2> QED
    BY <1>2, <2>1 DEF SeekOf
<1>3. CASE S = {}
  BY <1>3, FirstOfIs DEF SeekOf
<1> QED
  BY <1>2, <1>3

-----------------------------------------------------------------------------
(***************************************************************************)
(* What a seek does.                                                       *)
(***************************************************************************)

(* A state of the parser with n clusters loaded or more.                   *)
From(n, s) == s[1] \in n .. Clusters /\ s[2] \in BOOLEAN /\ (s[2] => s[1] = Clusters)

LEMMA LoadClusterIs ==
  ASSUME NEW n \in 0 .. Clusters, NEW s \in LoadCluster(n)
  PROVE  From(n, s) /\ (n = Clusters => s = <<Clusters, TRUE>>)
<1>0. Clusters \in Nat
  BY SplitAssumption
<1>1. CASE n < Clusters
  <2>1. PICK d \in {FALSE, n + 1 = Clusters} : s = <<n + 1, d>>
    BY <1>1 DEF LoadCluster
  <2>2. s[1] = n + 1 /\ s[2] = d /\ n + 1 \in n .. Clusters /\ n # Clusters
    BY <1>0, <1>1, <2>1
  <2>3. d \in BOOLEAN /\ (d => n + 1 = Clusters)
    BY <2>1
  <2> QED
    BY <2>2, <2>3 DEF From
<1>2. CASE ~(n < Clusters)
  <2>1. n = Clusters /\ s = <<n, TRUE>>
    <3>1. LoadCluster(n) = {<<n, TRUE>>}
      BY <1>2, Zenon DEF LoadCluster
    <3>2. s = <<n, TRUE>>
      BY <3>1, Zenon
    <3> QED
      BY <1>0, <1>2, <3>2
  <2>2. s[1] = n /\ s[2] = TRUE /\ n \in n .. Clusters
    BY <1>0, <2>1
  <2> QED
    BY <2>1, <2>2 DEF From
<1> QED
  BY <1>1, <1>2

(* The search loads clusters on, or none once all are.                     *)
LEMMA SearchLoadsIs ==
  ASSUME NEW n \in 0 .. Clusters, NEW d \in BOOLEAN, d => n = Clusters, inCache \in BOOLEAN,
         NEW r \in SearchLoads(n, d)
  PROVE  From(n, r) /\ (d => r = <<n, d>>)
<1> DEFINE later == {c \in BlocksOf("video") : c > n}
           last  == IF later = {} THEN Clusters ELSE Min(later) - 1
<1>0. Clusters \in Nat /\ n \in Nat /\ \A b \in BlocksOf("video") : b \in Nat /\ b <= Clusters
  BY BlocksAre
<1>1. later \in SUBSET Nat
  BY <1>0
<1>2. last \in n .. Clusters
  <2>1. CASE later = {}
    BY <1>0, <2>1
  <2>2. CASE later # {}
    <3>1. Min(later) \in later
      BY <1>1, <2>2, MinOf
    <3> QED
      BY <1>0, <2>2, <3>1
  <2> QED
    BY <2>1, <2>2
<1>3. "video" \in Tracks
  BY DEF Tracks
<1>4. CASE r = <<n, d>>
  BY <1>0, <1>4 DEF From
<1>5. CASE r # <<n, d>>
  <2>1. /\ FirstOf("video", n, d) = NotFull
        /\ r \in (IF later = {} THEN {<<Clusters, TRUE>>} ELSE LoadCluster(last))
                   \cup {<<k, FALSE>> : k \in IF ParseFails THEN n .. last ELSE {}}
    BY <1>5 DEF SearchLoads
  <2>2. ~d
    BY <1>3, <2>1, FirstOfIs
  <2>3. CASE r = <<Clusters, TRUE>>
    <3>1. r[1] = Clusters /\ r[2] = TRUE /\ Clusters \in n .. Clusters
      BY <1>0, <2>3
    <3> QED
      BY <2>2, <3>1 DEF From
  <2>4. CASE r \in LoadCluster(last)
    <3>1. last \in 0 .. Clusters
      BY <1>0, <1>2
    <3>2. From(last, r)
      BY <2>4, <3>1, LoadClusterIs
    <3> QED
      BY <1>0, <1>2, <2>2, <3>2 DEF From
  <2>5. CASE r \in {<<k, FALSE>> : k \in n .. last}
    <3>1. PICK k \in n .. last : r = <<k, FALSE>>
      BY <2>5
    <3>2. r[1] = k /\ r[2] = FALSE /\ k \in n .. Clusters
      BY <1>0, <1>2, <3>1
    <3> QED
      BY <2>2, <3>2 DEF From
  <2> QED
    BY <2>1, <2>3, <2>4, <2>5
<1> QED
  BY <1>4, <1>5

(* A seek moves one stream to a block of its track, to the end or to its   *)
(* lazy start, and notes the base for the other one.                       *)
Placed(p, c, ns) == c \in BlocksOf(p) \cup {Null, EOS} /\ ns \in Int /\ SetStream(p, ns, c)

LEMMA TimesAre ==
  ASSUME NEW c \in Nat
  PROVE  FirstTime(c) \in Int /\ \A p : Time(p, c) \in Int
  BY DEF FirstTime, Time

LEMMA EntryOfIs ==
  ASSUME NEW p, NEW c \in 1 .. Clusters, NEW ns
  PROVE  EntryOf(p, c, ns) \in BlocksOf(p) \cup {EOS} /\ EntryOf(p, c, ns) # Null
  BY SplitAssumption DEF EntryOf, BlocksOf, EOS, Null

(* What SeekVideo leaves when it has found the block v.                    *)
LEMMA SeekVideoFound ==
  ASSUME NEW p \in Tracks, NEW v \in BlocksOf("video"), SeekVideo(p, v)
  PROVE  /\ seekBase' = v /\ seekBaseNs' \in Int
         /\ \E c \in BlocksOf(p) \cup {EOS} : c # Null /\ Placed(p, c, seekBaseNs')
<1> DEFINE entry == EntryOf(p, v, Time("video", v))
           ns == IF entry = EOS THEN Time("video", v) ELSE Time(p, entry)
<1>1. v \notin {Null, EOS, NotFull} /\ v \in 1 .. Clusters /\ v \in Nat
  BY BlocksAre
<1>2. SetBase(v, ns, Time("video", v)) /\ SetStream(p, ns, entry)
  BY <1>1 DEF SeekVideo
<1>3. entry \in BlocksOf(p) \cup {EOS} /\ entry # Null
  BY <1>1, EntryOfIs
<1>4. ns \in Int
  <2>1. CASE entry = EOS
    BY <1>1, <2>1, TimesAre
  <2>2. CASE entry # EOS
    <3>1. entry \in Nat
      BY <1>3, <2>2, BlocksAre
    <3> QED
      BY <2>2, <3>1, TimesAre
  <2> QED
    BY <2>1, <2>2
<1>5. seekBase' = v /\ seekBaseNs' = ns
  BY <1>2 DEF SetBase
<1> HIDE DEF entry, ns
<1> QED
  BY <1>2, <1>3, <1>4, <1>5 DEF Placed

LEMMA SeekVideoIs ==
  ASSUME NEW p \in Tracks, NEW v \in BlocksOf("video") \cup {Null, EOS, NotFull}, SeekVideo(p, v)
  PROVE  /\ seekBase' \in Null .. EOS /\ seekBaseNs' \in Int
         /\ \E c \in BlocksOf(p) \cup {Null, EOS} : \E ns \in Int : Placed(p, c, ns)
<1>0. Clusters \in Nat /\ EOS = Clusters + 1 /\ Null = 0
  BY BlocksAre DEF EOS, Null
<1>1. CASE v \in BlocksOf("video")
  <2>1. v \in Null .. EOS
    BY <1>0, <1>1, BlocksAre
  <2> QED
    BY <1>1, <2>1, SeekVideoFound
<1>2. CASE v \in {Null, EOS, NotFull}
  <2> DEFINE c == IF p = "audio" \/ v = EOS THEN EOS ELSE Null
  <2>1. SetBase(EOS, -1, -1) /\ SetStream(p, -1, c)
    BY <1>2 DEF SeekVideo
  <2>2. c \in BlocksOf(p) \cup {Null, EOS} /\ -1 \in Int /\ EOS \in Null .. EOS
    BY <1>0
  <2> HIDE DEF c
  <2>3. Placed(p, c, -1)
    BY <2>1, <2>2 DEF Placed
  <2>4. seekBase' = EOS /\ seekBaseNs' = -1
    BY <2>1 DEF SetBase
  <2> QED
    BY <2>2, <2>3, <2>4
<1> QED
  BY <1>1, <1>2

LEMMA SeekAudioOnlyIs ==
  ASSUME NEW c \in BlocksOf("audio") \cup {EOS, NotFull}, NEW ns \in Int, SeekAudioOnly(c, ns)
  PROVE  /\ seekBase' \in Null .. EOS /\ seekBaseNs' \in Int
         /\ \E e \in BlocksOf("audio") \cup {Null, EOS} : \E m \in Int : Placed("audio", e, m)
<1>0. Clusters \in Nat /\ EOS = Clusters + 1 /\ Null = 0
  BY BlocksAre DEF EOS, Null
<1>1. CASE c \notin {EOS, NotFull}
  <2>1. SetBase(c, FirstTime(c), ns) /\ SetStream("audio", FirstTime(c), c)
    BY <1>1 DEF SeekAudioOnly
  <2>2. c \in BlocksOf("audio") /\ c \in Null .. EOS /\ FirstTime(c) \in Int
    BY <1>0, <1>1, BlocksAre, TimesAre
  <2>3. Placed("audio", c, FirstTime(c))
    BY <2>1, <2>2 DEF Placed
  <2>4. seekBase' = c /\ seekBaseNs' = FirstTime(c)
    BY <2>1 DEF SetBase
  <2> QED
    BY <2>2, <2>3, <2>4
<1>2. CASE c \in {EOS, NotFull}
  <2> DEFINE e == IF c = EOS THEN EOS ELSE Null
  <2>1. SetBase(EOS, -1, -1) /\ SetStream("audio", -1, e)
    BY <1>2 DEF SeekAudioOnly
  <2>2. e \in BlocksOf("audio") \cup {Null, EOS} /\ -1 \in Int /\ EOS \in Null .. EOS
    BY <1>0
  <2> HIDE DEF e
  <2>3. Placed("audio", e, -1)
    BY <2>1, <2>2 DEF Placed
  <2>4. seekBase' = EOS /\ seekBaseNs' = -1
    BY <2>1 DEF SetBase
  <2> QED
    BY <2>2, <2>3, <2>4
<1> QED
  BY <1>1, <1>2

(* What a seek finds: a position that goes with the base it has noted.     *)
Found(p) ==
  IF seekBase' = Null THEN \E ns \in Int : Placed(p, Null, ns)
  ELSE \E c \in BlocksOf(p) \cup {EOS} : c # Null /\ Placed(p, c, seekBaseNs')

LEMMA SameTimeIs ==
  ASSUME CallType, NEW p \in Tracks, SetCurrPositionUsingSameTime(p)
  PROVE  /\ UNCHANGED <<parseVars, currTime, seekBase, seekBaseNs>> /\ Found(p)
         /\ \E c \in BlocksOf(p) \cup {Null, EOS} : Placed(p, c, seekBaseNs)
<1> DEFINE c == IF seekBase = Null THEN Null ELSE IF seekBase = EOS THEN EOS
                ELSE EntryOf(p, seekBase, seekTimeNs)
<1>0. Clusters \in Nat /\ EOS = Clusters + 1 /\ Null = 0
  BY BlocksAre DEF EOS, Null
<1>1. /\ SetStream(p, seekBaseNs, c)
      /\ UNCHANGED <<parseVars, currTime, seekBase, seekBaseNs>>
  BY DEF SetCurrPositionUsingSameTime
<1>2. /\ seekBase = Null => c = Null
      /\ seekBase # Null => c \in BlocksOf(p) \cup {EOS} /\ c # Null
  <2>1. seekBase \in Null .. EOS
    BY DEF CallType
  <2>2. seekBase \notin {Null, EOS} => seekBase \in 1 .. Clusters
    BY <1>0, <2>1
  <2> QED
    BY <1>0, <2>2, EntryOfIs
<1>3. seekBaseNs \in Int /\ seekBaseNs' = seekBaseNs /\ seekBase' = seekBase
  BY <1>1 DEF CallType
<1> HIDE DEF c
<1>4. Placed(p, c, seekBaseNs)
  BY <1>1, <1>2, <1>3 DEF Placed
<1> QED
  BY <1>1, <1>2, <1>3, <1>4 DEF Found

(* What any seek leaves, of the splitter or of the file source.            *)
SeekDone(p, t) ==
  /\ loaded' \in loaded .. Clusters /\ done' \in BOOLEAN /\ (done' => loaded' = Clusters)
  /\ currTime' = t /\ seekBase' \in Null .. EOS /\ seekBaseNs' \in Int
  /\ \E c \in BlocksOf(p) \cup {Null, EOS} : \E ns \in Int : Placed(p, c, ns)
  /\ currTime = t => Found(p) /\ UNCHANGED <<seekBase, seekBaseNs>>

LEMMA SeekEffect ==
  ASSUME FileType, CallType, NEW p \in Tracks, NEW t \in Int, SetCurrPosition(p, t)
  PROVE  /\ SeekDone(p, t) /\ (done => UNCHANGED parseVars)
         /\ "video" \in connected /\ AllVideo => Found(p)
<1> USE DEF SeekDone, AllVideo
<1>0. /\ Clusters \in Nat /\ EOS = Clusters + 1 /\ Null = 0 /\ loaded \in 0 .. Clusters
      /\ done \in BOOLEAN /\ (done => loaded = Clusters) /\ inCache \in BOOLEAN
  BY BlocksAre DEF EOS, Null, FileType
<1>1. CASE currTime = t
  <2>1. SetCurrPositionUsingSameTime(p)
    BY <1>1 DEF SetCurrPosition
  <2>2. /\ UNCHANGED <<parseVars, currTime, seekBase, seekBaseNs>> /\ Found(p)
        /\ \E c \in BlocksOf(p) \cup {Null, EOS} : Placed(p, c, seekBaseNs)
    BY <2>1, SameTimeIs
  <2>3. seekBase \in Null .. EOS /\ seekBaseNs \in Int
    BY DEF CallType
  <2> QED
    BY <1>0, <1>1, <2>2, <2>3 DEF parseVars
<1>2. CASE currTime # t
  <2> DEFINE S == (IF inCache THEN LoadCluster(loaded) ELSE {}) \cup
                  (IF inCache /\ ~ParseFails THEN {} ELSE {<<loaded, done>>})
  <2>1. currTime' = t
    BY <1>2 DEF SetCurrPosition
  <2>2. PICK s \in S :
         IF s[1] = 0
         THEN /\ Parsed(s)
              /\ SetBase(Null, -1, -1) /\ SetStream(p, -1, Null)
         ELSE IF p = "audio" /\ "video" \notin connected
         THEN /\ Parsed(s)
              /\ SeekAudioOnly(SeekOf("audio", t, s[1], s[2]), t)
         ELSE \/ /\ inCache /\ Parsed(s)
                 /\ \E c \in BlocksOf("video") : SeekVideo(p, c)
              \/ \E r \in SearchLoads(s[1], s[2]) :
                   /\ Parsed(r)
                   /\ SeekVideo(p, SeekOf("video", t, r[1], r[2]))
    BY <1>2 DEF SetCurrPosition
  <2>3. From(loaded, s) /\ (done => s[1] = loaded /\ s[2] = done)
    <3>1. CASE s \in LoadCluster(loaded)
      <4>1. From(loaded, s) /\ (loaded = Clusters => s = <<Clusters, TRUE>>)
        BY <1>0, <3>1, LoadClusterIs
      <4>2. ASSUME done PROVE s[1] = loaded /\ s[2] = done
        <5>1. loaded = Clusters /\ done = TRUE
          BY <1>0, <4>2
        <5>2. s = <<Clusters, TRUE>>
          BY <4>1, <5>1, Zenon
        <5>3. s[1] = Clusters /\ s[2] = TRUE
          BY <5>2
        <5> QED
          BY <5>1, <5>3
      <4> QED
        BY <4>1, <4>2
    <3>2. CASE s = <<loaded, done>>
      <4>1. s[1] = loaded /\ s[2] = done /\ loaded \in loaded .. Clusters
        BY <1>0, <3>2
      <4> QED
        BY <1>0, <4>1 DEF From
    <3> QED
      BY <3>1, <3>2
  <2>4. ASSUME NEW r, From(loaded, r), done => r[1] = loaded /\ r[2] = done, Parsed(r)
        PROVE  /\ loaded' \in loaded .. Clusters /\ done' \in BOOLEAN /\ (done' => loaded' = Clusters)
               /\ done => UNCHANGED parseVars
    BY <2>4 DEF From, Parsed, parseVars
  <2>5. CASE s[1] = 0
    <3>1. Parsed(s) /\ SetBase(Null, -1, -1) /\ SetStream(p, -1, Null)
      BY <2>2, <2>5
    <3>2. seekBase' = Null /\ seekBaseNs' = -1 /\ -1 \in Int /\ Null \in Null .. EOS
      BY <1>0, <3>1 DEF SetBase
    <3>3. Placed(p, Null, -1)
      BY <3>1, <3>2 DEF Placed
    <3>4. Found(p)
      BY <3>2, <3>3 DEF Found
    <3> QED
      BY <1>2, <2>1, <2>3, <2>4, <3>1, <3>2, <3>3, <3>4
  <2>6. CASE s[1] # 0 /\ p = "audio" /\ "video" \notin connected
    <3>1. Parsed(s) /\ SeekAudioOnly(SeekOf("audio", t, s[1], s[2]), t)
      BY <2>2, <2>6
    <3>2. s[1] \in 0 .. Clusters /\ s[2] \in BOOLEAN /\ "audio" \in Tracks
      BY <1>0, <2>3 DEF From, Tracks
    <3>3. SeekOf("audio", t, s[1], s[2]) \in BlocksOf("audio") \cup {EOS, NotFull}
      BY <3>2, SeekOfIs
    <3>4. /\ seekBase' \in Null .. EOS /\ seekBaseNs' \in Int
          /\ \E e \in BlocksOf("audio") \cup {Null, EOS} : \E m \in Int : Placed("audio", e, m)
      BY <3>1, <3>3, SeekAudioOnlyIs
    <3> QED
      BY <1>2, <2>1, <2>3, <2>4, <2>6, <3>1, <3>4
  <2>7. CASE s[1] # 0 /\ ~(p = "audio" /\ "video" \notin connected)
    <3>1. "video" \in Tracks
      BY DEF Tracks
    <3>2. CASE Parsed(s) /\ \E c \in BlocksOf("video") : SeekVideo(p, c)
      <4>1. PICK v \in BlocksOf("video") : SeekVideo(p, v)
        BY <3>2
      <4>2. /\ seekBase' = v /\ seekBaseNs' \in Int
            /\ \E c \in BlocksOf(p) \cup {EOS} : c # Null /\ Placed(p, c, seekBaseNs')
        BY <4>1, SeekVideoFound
      <4>3. v \in Null .. EOS /\ v # Null
        BY <1>0, BlocksAre
      <4>4. Found(p)
        BY <4>2, <4>3 DEF Found
      <4> QED
        BY <1>2, <2>1, <2>3, <2>4, <3>2, <4>2, <4>3, <4>4
    <3>3. CASE \E r \in SearchLoads(s[1], s[2]) :
                 Parsed(r) /\ SeekVideo(p, SeekOf("video", t, r[1], r[2]))
      <4>1. PICK r \in SearchLoads(s[1], s[2]) :
              Parsed(r) /\ SeekVideo(p, SeekOf("video", t, r[1], r[2]))
        BY <3>3
      <4>2. s[1] \in 0 .. Clusters /\ s[1] \in loaded .. Clusters /\ s[2] \in BOOLEAN /\ (s[2] => s[1] = Clusters)
        BY <1>0, <2>3 DEF From
      <4>3. From(s[1], r) /\ (s[2] => r = <<s[1], s[2]>>)
        BY <1>0, <4>2, SearchLoadsIs
      <4>4. r[1] \in 1 .. Clusters /\ r[1] \in loaded .. Clusters /\ r[2] \in BOOLEAN /\ (r[2] => r[1] = Clusters)
        BY <1>0, <2>7, <4>2, <4>3 DEF From
      <4>5. From(loaded, r) /\ (done => r[1] = loaded /\ r[2] = done)
        <5>1. ASSUME done PROVE r[1] = loaded /\ r[2] = done
          <6>1. s[1] = loaded /\ s[2] = done
            BY <2>3, <5>1
          <6>2. r = <<loaded, done>>
            BY <4>3, <5>1, <6>1
          <6> QED
            BY <6>2
        <5> QED
          BY <4>4, <5>1 DEF From
      <4> DEFINE v == SeekOf("video", t, r[1], r[2])
      <4>6. r[1] \in 0 .. Clusters
        BY <1>0, <4>4
      <4>7. /\ v \in BlocksOf("video") \cup {EOS, NotFull}
            /\ (\E c \in BlocksOf("video") : c <= r[1]) => v \in BlocksOf("video")
        BY <3>1, <4>4, <4>6, SeekOfIs
      <4>8. SeekVideo(p, v)
        BY <4>1
      <4> HIDE DEF v
      <4>9. /\ seekBase' \in Null .. EOS /\ seekBaseNs' \in Int
            /\ \E c \in BlocksOf(p) \cup {Null, EOS} : \E ns \in Int : Placed(p, c, ns)
        BY <4>7, <4>8, SeekVideoIs
      <4>10. ASSUME \A c \in 1 .. Clusters : "video" \in blocks[c] PROVE Found(p)
        <5>1. 1 \in BlocksOf("video") /\ 1 <= r[1]
          BY <1>0, <4>4, <4>10 DEF BlocksOf
        <5>2. v \in BlocksOf("video")
          BY <4>7, <5>1
        <5>3. /\ seekBase' = v /\ seekBaseNs' \in Int
              /\ \E c \in BlocksOf(p) \cup {EOS} : c # Null /\ Placed(p, c, seekBaseNs')
          BY <4>8, <5>2, SeekVideoFound
        <5>4. v # Null
          BY <5>2, BlocksAre
        <5> QED
          BY <5>3, <5>4 DEF Found
      <4> QED
        BY <1>2, <2>1, <2>4, <4>1, <4>5, <4>9, <4>10
    <3> QED
      BY <2>2, <2>7, <3>2, <3>3
  <2> QED
    BY <2>5, <2>6, <2>7
<1> QED
  BY <1>1, <1>2

-----------------------------------------------------------------------------
(***************************************************************************)
(* The first state.                                                        *)
(***************************************************************************)
LEMMA SplitInvInit == SplitInit => SplitInv
<1> SUFFICES ASSUME SplitInit PROVE SplitInv
  OBVIOUS
<1> USE DEF SplitInit, NoPins, Null
<1>0. Clusters \in Nat /\ BlockSets \subseteq SUBSET Tracks /\ Cached \subseteq BOOLEAN
  BY SplitAssumption
<1>1. FileType
  <2>1. blocks \in [1 .. Clusters -> SUBSET Tracks]
    BY <1>0
  <2>2. inCache \in BOOLEAN /\ connected \subseteq Tracks /\ connected # {}
    BY <1>0
  <2>3. loaded \in 0 .. Clusters /\ done \in BOOLEAN /\ (done => loaded = Clusters)
    <3>1. loaded = 0 /\ done = FALSE
      OBVIOUS
    <3>2. loaded \in 0 .. Clusters
      BY ONLY <1>0, <3>1
    <3> QED
      BY ONLY <3>1, <3>2, Zenon
  <2> QED
    BY ONLY <2>1, <2>2, <2>3 DEF FileType
<1>2. CallType
  BY <1>0 DEF CallType, Calling, Parsers, Idle, NoSeek, EOS
<1>3. PinType /\ PlaceType
  BY DEF PinType, PlaceType, Threads
<1>4. CallInv
  BY DEF CallInv, NoThreads, Idle
<1>5. ToldInv
  BY DEF ToldInv, StarvingPinIsTold, Idle
<1>6. OrderInv
  BY DEF OrderInv, PinOrder
<1> QED
  BY <1>1, <1>2, <1>3, <1>4, <1>5, <1>6 DEF SplitInv, SplitType

(***************************************************************************)
(* What a step that leaves a pin alone keeps.                              *)
(***************************************************************************)
SameFile == blocks' = blocks
SamePin(p) == th'[p] = th[p] /\ curr'[p] = curr[p] /\ base'[p] = base[p]
              /\ sample'[p] = sample[p] /\ sent'[p] = sent[p]

LEMMA SameBlocks ==
  ASSUME SameFile
  PROVE  \A p : BlocksOf(p)' = BlocksOf(p)
  BY DEF SameFile, BlocksOf

LEMMA OrderStays ==
  ASSUME SameFile, NEW p \in Tracks, SamePin(p), PinOrder(p)
  PROVE  PinOrder(p)'
<1>1. BlocksOf(p)' = BlocksOf(p)
  BY SameBlocks
<1> QED
  BY <1>1 DEF SamePin, PinOrder, Follows, NoneBetween, Time

(* A pin goes on looking where it was.                                     *)
LEMMA OrderMovesOn ==
  ASSUME SameFile, NEW p \in Tracks, PinOrder(p),
         th[p] \in {"count", "wait", "buffers", "populate"},
         th'[p] \in {"count", "wait", "buffers", "populate", "end"},
         curr'[p] = curr[p], base'[p] = base[p], sent'[p] = sent[p]
  PROVE  PinOrder(p)'
<1>1. BlocksOf(p)' = BlocksOf(p)
  BY SameBlocks
<1> QED
  BY <1>1 DEF PinOrder, Follows, NoneBetween, Time

(* A pin without a thread promises nothing, nor does a new thread.         *)
LEMMA OrderEnds ==
  ASSUME NEW p \in Tracks,
         th'[p] \in {"none", "end"} \/ (th'[p] = "count" /\ sent'[p] = Null)
  PROVE  PinOrder(p)'
  BY DEF PinOrder

LEMMA SameLook ==
  ASSUME SameFile, UNCHANGED parseVars, NEW p, curr'[p] = curr[p]
  PROVE  InitCurr(p)' = InitCurr(p)
<1>1. BlocksOf(p)' = BlocksOf(p)
  BY SameBlocks
<1> QED
  BY <1>1 DEF parseVars, InitCurr, FirstOf

(***************************************************************************)
(* The parser thread.                                                      *)
(***************************************************************************)
LEMMA ParserKeeps ==
  ASSUME SplitInv, Parser
  PROVE  SplitInv'
<1> USE DEF SplitInv, fileVars, seekVars, streamVars, pinEvents, pinVars
<1>0. Clusters \in Nat
  BY SplitAssumption
<1>1. SameFile /\ \A p \in Tracks : SamePin(p)
  BY DEF Parser, ParserLoads, ParserWaits, DataArrives, WaitCancelled, ParserFails,
         SameFile, SamePin
<1>2. \A p : BlocksOf(p)' = BlocksOf(p)
  BY <1>1, SameBlocks
<1>3. OrderInv'
  BY <1>1, OrderStays DEF OrderInv
<1>4. CASE ParserLoads
  <2> USE <1>4 DEF ParserLoads
  <2>1. loaded' \in 0 .. Clusters /\ done' \in BOOLEAN /\ (done' => loaded' = Clusters)
    <3>1. PICK s \in LoadCluster(loaded) : Parsed(s)
      OBVIOUS
    <3>2. loaded \in 0 .. Clusters
      BY DEF SplitType, FileType
    <3>3. From(loaded, s)
      BY <3>1, <3>2, LoadClusterIs
    <3> QED
      BY <1>0, <3>1, <3>2, <3>3 DEF From, Parsed
  <2>2. FileType'
    BY <2>1 DEF SplitType, FileType
  <2>3. CallType' /\ PinType' /\ PlaceType'
    BY <1>2 DEF SplitType, CallType, PinType, PlaceType, OnNewCluster, Parsers
  <2>4. CallInv'
    BY DEF CallInv, NoThreads
  <2>5. ToldInv'
    <3>1. hNew' /\ \A p \in Tracks : th[p] # "none" => hNewCluster'[p]
      BY DEF OnNewCluster
    <3>2. parser' \in {"none", "end"} => done' \/ state' = "stopped"
      OBVIOUS
    <3> QED
      BY <3>1, <3>2 DEF ToldInv, StarvingPinIsTold, SplitType, CallType
  <2> QED
    BY <1>3, <2>2, <2>3, <2>4, <2>5 DEF SplitType
<1>5. CASE ~ParserLoads
  <2>1. /\ parser \in {"run", "read"} /\ parser' \in {"run", "read", "failed"}
        /\ UNCHANGED <<fileVars, parseVars, state, app, starvation, hNew, seekVars, pinVars>>
    BY <1>5 DEF Parser, ParserWaits, DataArrives, WaitCancelled, ParserFails
  <2> USE <2>1 DEF parseVars
  <2>2. SplitType'
    BY <1>2 DEF SplitType, FileType, CallType, PinType, PlaceType, Parsers
  <2>3. CallInv'
    BY DEF CallInv, NoThreads
  <2>4. ToldInv'
    BY DEF ToldInv, StarvingPinIsTold, Fed
  <2> QED
    BY <1>3, <2>2, <2>3, <2>4
<1> QED
  BY <1>4, <1>5

(***************************************************************************)
(* A pin's thread.  Whatever it does leaves the other pin alone, keeps the *)
(* thread, and goes to sleep only with nothing to deliver.                 *)
(***************************************************************************)
LEMMA PinSteps ==
  ASSUME SplitType, OrderInv, NEW p \in Tracks, PinThread(p)
  PROVE  /\ UNCHANGED <<fileVars, parseVars, state, app, parser, hNew, seekVars, committed>>
         /\ th[p] # "none" /\ th'[p] \in Threads \ {"none"}
         /\ th' = [th EXCEPT ![p] = th'[p]]
         /\ (Starve(p) \/ starvation' = starvation)
         /\ \A q \in Tracks \ {p} : SamePin(q) /\ hStop'[q] = hStop[q] /\ hNewCluster'[q] = hNewCluster[q]
         /\ curr' \in [Tracks -> Int] /\ base' \in [Tracks -> Int]
         /\ sample' \in [Tracks -> Int] /\ sent' \in [Tracks -> Int]
         /\ hStop' \in [Tracks -> BOOLEAN] /\ hNewCluster' \in [Tracks -> BOOLEAN]
         /\ curr'[p] \in BlocksOf(p) \cup {Null, EOS}
         /\ th'[p] \in {"buffers", "populate"} => curr'[p] \in BlocksOf(p)
         /\ th'[p] = "wait" => Starve(p)
         /\ PinOrder(p)'
<1> USE DEF SplitType, PinType, pinVars, streamVars, pinEvents, SamePin, Threads, fileVars
<1>0. /\ Clusters \in Nat /\ EOS = Clusters + 1 /\ Null = 0 /\ NotFull = -1
      /\ curr[p] \in BlocksOf(p) \cup {Null, EOS} /\ PinOrder(p)
      /\ \A c \in BlocksOf(p) : c \in Nat /\ c > 0 /\ c \in 1 .. Clusters
      /\ loaded \in 0 .. Clusters /\ done \in BOOLEAN /\ (done => loaded = Clusters)
      /\ th[p] \in {"buffers", "populate"} => curr[p] \in BlocksOf(p)
  BY BlocksAre DEF EOS, Null, NotFull, PlaceType, OrderInv, FileType
<1>1. CASE CountSamples(p)
  <2> USE <1>1 DEF CountSamples
  <2>1. InitCurr(p) \in BlocksOf(p) \cup {EOS}
    <3>1. FirstOf(p, loaded, done) \in BlocksOf(p) \cup {EOS, NotFull}
      BY <1>0, FirstOfIs
    <3> QED
      BY <1>0, <3>1 DEF InitCurr
  <2>2. InitCurr(p) \in Int /\ InitBase(p) \in Int
    <3>1. FirstTime(1) \in Int
      BY TimesAre
    <3> QED
      BY <1>0, <2>1, <3>1 DEF InitBase
  <2>3. PinOrder(p)'
    <3>1. SameFile
      BY DEF SameFile
    <3>2. \A q : BlocksOf(q)' = BlocksOf(q)
      BY <3>1, SameBlocks
    <3>3. /\ curr'[p] = InitCurr(p) /\ base'[p] = InitBase(p) /\ sent'[p] = sent[p]
          /\ th'[p] = IF InitCurr(p) = EOS THEN "eos" ELSE "buffers"
      BY <2>2
    <3>4. sent[p] # Null => curr[p] # Null /\ curr'[p] = curr[p] /\ base'[p] = base[p]
      BY <1>0, <3>3 DEF PinOrder, Follows, InitCurr, InitBase
    <3> QED
      BY <1>0, <3>2, <3>3, <3>4 DEF PinOrder, Follows, NoneBetween, Time
  <2> QED
    BY <2>1, <2>2, <2>3
<1>2. CASE Starve(p) \/ WakeNewCluster(p) \/ GetBuffers(p)
  <2>1. /\ UNCHANGED <<fileVars, parseVars, state, app, parser, hNew, seekVars, committed, streamVars>>
        /\ th[p] \in {"count", "wait", "buffers"} /\ th'[p] \in {"wait", "count", "populate", "end"}
        /\ th' = [th EXCEPT ![p] = th'[p]]
        /\ (Starve(p) \/ starvation' = starvation)
        /\ th'[p] = "wait" => Starve(p)
        /\ th'[p] = "populate" => th[p] = "buffers"
    BY <1>2 DEF Starve, WakeNewCluster, GetBuffers
  <2>2. hStop' = hStop /\ (hNewCluster' = hNewCluster \/ hNewCluster' = [hNewCluster EXCEPT ![p] = FALSE])
    BY <1>2 DEF Starve, WakeNewCluster, GetBuffers
  <2>3. PinOrder(p)'
    BY <1>0, <2>1, OrderMovesOn DEF SameFile
  <2> QED
    BY <1>0, <2>1, <2>2, <2>3
<1>3. CASE WakeStop(p) \/ ReceiveRefused(p) \/ EndOfStream(p)
  <2>1. /\ UNCHANGED <<fileVars, parseVars, state, app, parser, hNew, seekVars, committed, streamVars,
                       starvation, hNewCluster>>
        /\ th[p] \in {"wait", "deliver", "eos"} /\ th' = [th EXCEPT ![p] = "end"]
        /\ (hStop' = hStop \/ hStop' = [hStop EXCEPT ![p] = FALSE])
    BY <1>3 DEF WakeStop, ReceiveRefused, EndOfStream
  <2>2. PinOrder(p)'
    BY <2>1, OrderEnds
  <2> QED
    BY <1>0, <2>1, <2>2
<1>4. CASE PopulateSamples(p)
  <2> DEFINE next == NextOf(p, curr[p], loaded, done)
  <2>1. /\ UNCHANGED <<fileVars, parseVars, state, app, parser, hNew, seekVars, committed, base, sent,
                       starvation, hNewCluster, hStop>>
        /\ th[p] = "populate"
        /\ th' = [th EXCEPT ![p] = IF next = NotFull THEN "end"
                                   ELSE IF Time(p, curr[p]) < base[p] THEN "count"
                                   ELSE "deliver"]
        /\ curr' = [curr EXCEPT ![p] = IF next = NotFull THEN @ ELSE next]
        /\ sample' = [sample EXCEPT ![p] = curr[p]]
    BY <1>4 DEF PopulateSamples
  <2>2. /\ next \in BlocksOf(p) \cup {EOS, NotFull}
        /\ next # NotFull => Follows(p, curr[p], next)
    <3>1. curr[p] \in Nat /\ curr[p] <= Clusters
      BY <1>0, <2>1
    <3> QED
      BY <1>0, <3>1, NextOfIs
  <2> HIDE DEF next
  <2>3. curr'[p] \in BlocksOf(p) \cup {EOS} /\ curr'[p] \in Int /\ curr[p] \in BlocksOf(p)
    BY <1>0, <2>1, <2>2
  <2>4. PinOrder(p)'
    <3>1. \A q : BlocksOf(q)' = BlocksOf(q)
      BY <2>1, SameBlocks DEF SameFile
    <3>2. CASE next = NotFull
      BY <2>1, <3>2, OrderEnds
    <3>3. CASE next # NotFull /\ Time(p, curr[p]) < base[p]
      <4>1. th'[p] = "count" /\ sent'[p] = sent[p]
        BY <2>1, <3>3
      <4>2. sent[p] = Null
        <5>1. sent[p] # Null => Follows(p, sent[p], curr[p]) /\ Time(p, sent[p]) >= base[p]
          BY <1>0, <2>1 DEF PinOrder
        <5>2. sent[p] \in Nat /\ sent[p] < curr[p] => Time(p, sent[p]) <= Time(p, curr[p])
          BY <2>3 DEF Time
        <5>3. base[p] \in Int
          OBVIOUS
        <5>4. sent[p] \in Nat => Time(p, sent[p]) \in Int
          BY TimesAre
        <5>5. Time(p, curr[p]) \in Int
          BY <1>0, <2>3, TimesAre
        <5> QED
          BY <3>3, <5>1, <5>2, <5>3, <5>4, <5>5 DEF Follows
      <4> QED
        BY <4>1, <4>2, OrderEnds
    <3>4. CASE next # NotFull /\ ~(Time(p, curr[p]) < base[p])
      <4>1. /\ th'[p] = "deliver" /\ sample'[p] = curr[p] /\ curr'[p] = next
            /\ sent'[p] = sent[p] /\ base'[p] = base[p]
        BY <2>1, <3>4
      <4>2. Time(p, curr[p]) >= base[p]
        <5>1. Time(p, curr[p]) \in Int /\ base[p] \in Int
          BY <1>0, <2>3, TimesAre
        <5> QED
          BY <3>4, <5>1
      <4>3. Follows(p, curr[p], next)
        BY <2>2, <3>4
      <4>4. sent[p] # Null => Follows(p, sent[p], curr[p])
        BY <1>0, <2>1 DEF PinOrder
      <4> QED
        BY <3>1, <4>1, <4>2, <4>3, <4>4 DEF PinOrder, Follows, NoneBetween, Time
    <3> QED
      BY <3>2, <3>3, <3>4
  <2> QED
    BY <1>0, <2>1, <2>3, <2>4
<1>5. CASE Receive(p)
  <2>1. /\ UNCHANGED <<fileVars, parseVars, state, app, parser, hNew, seekVars, committed, curr, base,
                       starvation, hNewCluster, hStop>>
        /\ th[p] = "deliver" /\ th' = [th EXCEPT ![p] = "count"]
        /\ sent' = [sent EXCEPT ![p] = sample[p]] /\ sample' = [sample EXCEPT ![p] = Null]
    BY <1>5 DEF Receive
  <2>2. PinOrder(p)'
    <3>1. \A q : BlocksOf(q)' = BlocksOf(q)
      BY <2>1, SameBlocks DEF SameFile
    <3>2. th'[p] = "count" /\ sent'[p] = sample[p]
      BY <2>1
    <3> QED
      BY <1>0, <2>1, <3>1, <3>2 DEF PinOrder, Follows, NoneBetween, Time
  <2> QED
    BY <1>0, <2>1, <2>2
<1> QED
  BY <1>1, <1>2, <1>3, <1>4, <1>5 DEF PinThread

LEMMA PinKeeps ==
  ASSUME SplitInv, NEW p \in Tracks, PinThread(p)
  PROVE  SplitInv'
<1>1. /\ UNCHANGED <<fileVars, parseVars, state, app, parser, hNew, seekVars, committed>>
      /\ th[p] # "none" /\ th'[p] \in Threads \ {"none"}
      /\ th' = [th EXCEPT ![p] = th'[p]]
      /\ (Starve(p) \/ starvation' = starvation)
      /\ \A q \in Tracks \ {p} : SamePin(q) /\ hStop'[q] = hStop[q] /\ hNewCluster'[q] = hNewCluster[q]
      /\ curr' \in [Tracks -> Int] /\ base' \in [Tracks -> Int]
      /\ sample' \in [Tracks -> Int] /\ sent' \in [Tracks -> Int]
      /\ hStop' \in [Tracks -> BOOLEAN] /\ hNewCluster' \in [Tracks -> BOOLEAN]
      /\ curr'[p] \in BlocksOf(p) \cup {Null, EOS}
      /\ th'[p] \in {"buffers", "populate"} => curr'[p] \in BlocksOf(p)
      /\ th'[p] = "wait" => Starve(p)
      /\ PinOrder(p)'
  BY PinSteps DEF SplitInv
<1> USE DEF SplitInv, fileVars, parseVars, seekVars
<1>0. Clusters \in Nat /\ loaded \in 0 .. Clusters /\ starvation \in -1 .. Clusters
  BY SplitAssumption DEF SplitType, FileType, CallType
<1>2. SameFile /\ \A q : BlocksOf(q)' = BlocksOf(q)
  BY <1>1, SameBlocks DEF SameFile
<1>3. starvation' \in -1 .. Clusters /\ (starvation < 0 /\ Starve(p) => starvation' = loaded)
      /\ (starvation >= 0 => starvation' = starvation)
  BY <1>0, <1>1 DEF Starve
<1>4. FileType'
  BY <1>1 DEF SplitType, FileType
<1>5. CallType'
  BY <1>1, <1>3 DEF SplitType, CallType
<1>6. PinType'
  <2>1. th \in [Tracks -> Threads]
    BY DEF SplitType, PinType
  <2>2. th' \in [Tracks -> Threads]
    BY <1>1, <2>1
  <2> QED
    BY <1>1, <2>2 DEF SplitType, PinType
<1>7. PlaceType'
  <2> SUFFICES ASSUME NEW q \in Tracks
               PROVE  /\ curr'[q] \in BlocksOf(q) \cup {Null, EOS}
                      /\ th'[q] \in {"buffers", "populate"} => curr'[q] \in BlocksOf(q)
    BY <1>2 DEF PlaceType, EOS, Null
  <2>1. q # p => SamePin(q)
    BY <1>1
  <2> QED
    BY <1>1, <2>1 DEF SamePin, SplitType, PlaceType
<1>8. CallInv'
  <2>1. \A q \in Tracks : th'[q] # "none" => th[q] # "none"
    BY <1>1 DEF SamePin
  <2>2. th["video"] = "none" => th'["video"] = "none"
    BY <2>1 DEF Tracks
  <2>3. ~NoThreads
    BY <1>1 DEF NoThreads
  <2> QED
    BY <1>1, <2>1, <2>2, <2>3 DEF CallInv
<1>9. ToldInv'
  <2>1. StarvingPinIsTold'
    <3> SUFFICES ASSUME NEW q \in Tracks, th'[q] = "wait", ~hStop'[q], ~hNewCluster'[q]
                 PROVE  \/ InitCurr(q)' = NotFull
                        \/ parser' \in {"run", "read", "failed"}
                        \/ state' = "stopped"
      BY DEF StarvingPinIsTold, NotFull
    <3>1. CASE q = p
      <4>1. Starve(p)
        BY <1>1, <3>1
      <4>2. InitCurr(p) = NotFull /\ curr'[p] = curr[p]
        BY <4>1 DEF Starve, streamVars
      <4> QED
        BY <1>1, <1>2, <3>1, <4>2, SameLook
    <3>2. CASE q # p
      <4>1. SamePin(q) /\ hStop'[q] = hStop[q] /\ hNewCluster'[q] = hNewCluster[q]
        BY <1>1, <3>2
      <4>2. InitCurr(q)' = InitCurr(q)
        BY <1>1, <1>2, <4>1, SameLook DEF SamePin
      <4> QED
        BY <1>1, <4>1, <4>2 DEF SamePin, ToldInv, StarvingPinIsTold
    <3> QED
      BY <3>1, <3>2
  <2>2. app.op = "getState" /\ Fed' => hNew'
    BY <1>0, <1>1, <1>3 DEF ToldInv, Fed
  <2> QED
    BY <1>1, <2>1, <2>2 DEF ToldInv
<1>10. OrderInv'
  <2>1. \A q \in Tracks \ {p} : PinOrder(q)'
    BY <1>1, <1>2, OrderStays DEF OrderInv
  <2> QED
    BY <1>1, <2>1 DEF OrderInv
<1> QED
  BY <1>4, <1>5, <1>6, <1>7, <1>8, <1>9, <1>10 DEF SplitType

(***************************************************************************)
(* Pause, Run and Stop.                                                    *)
(***************************************************************************)
LEMMA IdleIs ==
  /\ Idle \in Calling /\ Idle.op = "idle" /\ Idle.t = NoSeek /\ Idle.timed = FALSE
  /\ [Idle EXCEPT !.op = "final"] \in Calling /\ [Idle EXCEPT !.op = "final"].op = "final"
  /\ \A p \in Tracks : /\ [Idle EXCEPT !.op = "joinPin", !.pin = p] \in Calling
                       /\ [Idle EXCEPT !.op = "joinPin", !.pin = p].op = "joinPin"
                       /\ [Idle EXCEPT !.op = "joinPin", !.pin = p].pin = p
                       /\ [Idle EXCEPT !.op = "joinPin", !.pin = p].t = NoSeek
                       /\ [Idle EXCEPT !.op = "joinPin", !.pin = p].timed = FALSE
<1>1. NoSeek \in Int
  BY DEF NoSeek
<1>2. Idle \in Calling /\ Idle.op = "idle" /\ Idle.t = NoSeek /\ Idle.timed = FALSE
  BY <1>1 DEF Idle, Calling
<1>3. [Idle EXCEPT !.op = "final"] \in Calling /\ [Idle EXCEPT !.op = "final"].op = "final"
  BY <1>1 DEF Idle, Calling
<1>4. ASSUME NEW p \in Tracks
      PROVE  LET joining == [Idle EXCEPT !.op = "joinPin", !.pin = p]
             IN /\ joining \in Calling /\ joining.op = "joinPin" /\ joining.pin = p
                /\ joining.t = NoSeek /\ joining.timed = FALSE
  <2> DEFINE named == [Idle EXCEPT !.op = "joinPin"]
  <2>1. named \in Calling /\ named.op = "joinPin" /\ named.t = NoSeek /\ named.timed = FALSE
    BY <1>1 DEF Idle, Calling
  <2> HIDE DEF named
  <2>2. LET joining == [named EXCEPT !.pin = p]
        IN /\ joining \in Calling /\ joining.op = "joinPin" /\ joining.pin = p
           /\ joining.t = NoSeek /\ joining.timed = FALSE
    BY <2>1 DEF Calling
  <2> QED
    BY <2>2 DEF named
<1> QED
  BY <1>2, <1>3, <1>4

LEMMA PauseKeeps ==
  ASSUME SplitInv, PauseOrRun
  PROVE  SplitInv'
<1> USE DEF SplitInv, fileVars, parseVars, seekVars, pinEvents
<1>0. Clusters \in Nat
  BY SplitAssumption
<1>1. SameFile /\ \A q : BlocksOf(q)' = BlocksOf(q)
  BY SameBlocks DEF PauseOrRun, SameFile
<1>2. /\ UNCHANGED <<fileVars, parseVars, app, hNew, seekVars, curr, base>>
      /\ state' = "active" /\ app = Idle
  BY DEF PauseOrRun, Call
<1>3. FileType'
  BY <1>2 DEF SplitType, FileType
<1>4. CASE state = "stopped"
  <2>1. OnStart /\ NoThreads /\ connected \subseteq Tracks
    BY <1>2, <1>4, IdleIs DEF PauseOrRun, CallInv, SplitType, FileType
  <2>2. \A p \in Tracks :
          /\ p \in connected => th'[p] = "count" /\ sent'[p] = Null /\ committed'[p]
          /\ p \notin connected => th'[p] = "none"
    BY <2>1 DEF OnStart, StartThreads, NoThreads
  <2>3. PinType'
    <3>1. /\ th' \in [Tracks -> Threads] /\ hStop' \in [Tracks -> BOOLEAN]
          /\ hNewCluster' \in [Tracks -> BOOLEAN]
      BY <2>1 DEF OnStart, StartThreads, SplitType, PinType, Threads
    <3>2. committed' \in [Tracks -> BOOLEAN]
      BY <2>1 DEF OnStart, SplitType, PinType
    <3>3. sample' \in [Tracks -> Int] /\ sent' \in [Tracks -> Int]
      BY <2>1 DEF OnStart, StartThreads, SplitType, PinType, Null
    <3> QED
      BY <1>2, <3>1, <3>2, <3>3 DEF SplitType, PinType
  <2>4. CallType'
    BY <1>0, <1>2, <2>1 DEF OnStart, NoThreads, SplitType, CallType, Parsers
  <2>5. PlaceType'
    BY <1>1, <1>2, <2>2 DEF SplitType, PlaceType
  <2>6. CallInv'
    BY <1>2, <2>1, <2>2, IdleIs DEF CallInv
  <2>7. ToldInv'
    <3>1. parser' \in {"none", "end"} => done'
      BY <1>2, <2>1 DEF OnStart
    <3>2. StarvingPinIsTold'
      BY <2>2 DEF StarvingPinIsTold
    <3> QED
      BY <1>2, <3>1, <3>2, IdleIs DEF ToldInv
  <2>8. OrderInv'
    BY <2>2, OrderEnds DEF OrderInv
  <2> QED
    BY <1>3, <2>3, <2>4, <2>5, <2>6, <2>7, <2>8 DEF SplitType
<1>5. CASE state # "stopped"
  <2>1. UNCHANGED <<th, pinEvents, sample, sent, committed, starvation, parser, state>>
    BY <1>2, <1>5 DEF PauseOrRun, SplitType, CallType
  <2>2. CallType' /\ PinType' /\ PlaceType'
    BY <1>1, <1>2, <2>1 DEF SplitType, CallType, PinType, PlaceType
  <2>3. CallInv'
    BY <1>2, <2>1 DEF CallInv, NoThreads
  <2>4. ToldInv'
    <3>1. \A p \in Tracks : InitCurr(p)' = InitCurr(p)
      BY <1>1, <1>2, SameLook
    <3> QED
      BY <1>2, <2>1, <3>1 DEF ToldInv, StarvingPinIsTold, Fed
  <2>5. OrderInv'
    BY <1>1, <1>2, <2>1, OrderStays DEF OrderInv, SamePin
  <2> QED
    BY <1>3, <2>2, <2>3, <2>4, <2>5 DEF SplitType
<1> QED
  BY <1>4, <1>5

(* Stop and what follows, until it returns, leave what the streams and the *)
(* parser have found alone, and end threads one after the other.           *)
LEMMA StopKeeps ==
  ASSUME SplitInv, Stop \/ Final \/ StopNextPin \/ StopReturns
  PROVE  SplitInv'
<1> USE DEF SplitInv, fileVars, parseVars, seekVars, streamVars, pinEvents, pinVars
<1>0. Clusters \in Nat /\ connected \subseteq Tracks /\ connected # {} /\ Tracks = {"video", "audio"}
  BY SplitAssumption DEF SplitType, FileType, Tracks
<1>1. /\ UNCHANGED <<fileVars, parseVars, starvation, hNew, seekVars, hNewCluster, streamVars>>
      /\ state' = "stopped" /\ app'.op # "getState"
      /\ app' \in Calling /\ (app'.op = "idle" => app' = Idle)
  BY <1>0, IdleIs, ZenonT(40) DEF Stop, Final, BeginStop, FirstPin, StopNextPin, StopReturns,
                      SplitType, CallType, CallInv, Calling
<1>2. SameFile /\ \A q : BlocksOf(q)' = BlocksOf(q)
  BY <1>1, SameBlocks DEF SameFile
<1>3. \A p \in Tracks : th'[p] = th[p] \/ th'[p] = "none"
  BY <1>0 DEF Stop, Final, StopNextPin, StopReturns, SplitType, PinType, CallInv
<1>4. FileType'
  BY <1>1 DEF SplitType, FileType
<1>5. CallType'
  BY <1>1 DEF SplitType, CallType, Stop, Final, StopNextPin, StopReturns, Parsers
<1>6. PinType'
  <2>1. th' \in [Tracks -> Threads]
    BY <1>0 DEF Stop, Final, StopNextPin, StopReturns, SplitType, PinType, Threads
  <2>2. hStop' \in [Tracks -> BOOLEAN]
    BY <1>0 DEF Stop, Final, BeginStop, StopNextPin, StopReturns, SplitType, PinType
  <2>3. committed' \in [Tracks -> BOOLEAN]
    BY <1>0 DEF Stop, Final, BeginStop, StopNextPin, StopReturns, SplitType, PinType
  <2> QED
    BY <1>1, <2>1, <2>2, <2>3 DEF SplitType, PinType
<1>7. PlaceType'
  BY <1>1, <1>2, <1>3 DEF SplitType, PlaceType
<1>8. CallInv'
  <2>1. CASE Stop
    BY <2>1, IdleIs DEF Stop, Call, CallInv, SplitType, CallType
  <2>2. CASE Final
    <3>1. /\ app' = [Idle EXCEPT !.op = "joinPin", !.pin = FirstPin] /\ parser' = "none"
          /\ committed' = [committed EXCEPT ![FirstPin] = FALSE] /\ th' = th
          /\ FirstPin \in connected /\ (FirstPin = "audio" => "video" \notin connected)
      BY <1>0, <2>2 DEF Final, BeginStop, FirstPin
    <3>2. app'.op = "joinPin" /\ app'.pin = FirstPin /\ app'.t = NoSeek /\ app'.timed = FALSE
      BY <1>0, <3>1, IdleIs
    <3>3. "audio" \in connected /\ FirstPin = "video" => committed'["audio"]
      BY <1>0, <2>2, <3>1 DEF CallInv, Final, SplitType, PinType
    <3> QED
      BY <1>0, <1>1, <3>1, <3>2, <3>3 DEF CallInv
  <2>3. CASE StopNextPin
    <3>1. /\ app'.op = "joinPin" /\ app'.pin = "audio" /\ app'.t = app.t /\ app'.timed = app.timed
          /\ "audio" \in connected /\ parser' = parser
      BY <2>3 DEF StopNextPin, SplitType, CallType, Calling
    <3>2. th'["video"] = "none"
      BY <1>0, <2>3 DEF StopNextPin, SplitType, PinType
    <3> QED
      BY <1>1, <1>3, <2>3, <3>1, <3>2 DEF CallInv, StopNextPin
  <2>4. CASE StopReturns
    <3>1. app' = Idle /\ app.op = "joinPin" /\ parser' = parser /\ app.pin \in Tracks
      BY <1>0, <2>4 DEF StopReturns, CallInv
    <3>2. th'["video"] = "none" /\ th'["audio"] = "none"
      BY <1>0, <2>4, <3>1 DEF StopReturns, CallInv, SplitType, PinType
    <3>3. NoThreads'
      BY <1>0, <3>1, <3>2 DEF NoThreads, CallInv
    <3> QED
      BY <1>0, <1>1, <3>1, <3>2, <3>3, IdleIs DEF CallInv
  <2> QED
    BY <2>1, <2>2, <2>3, <2>4
<1>9. ToldInv'
  BY <1>1 DEF ToldInv, StarvingPinIsTold
<1>10. OrderInv'
  <2> SUFFICES ASSUME NEW p \in Tracks PROVE PinOrder(p)'
    BY DEF OrderInv
  <2> QED
    BY <1>1, <1>2, <1>3, OrderStays, OrderEnds DEF OrderInv, SamePin
<1> QED
  BY <1>4, <1>5, <1>6, <1>7, <1>8, <1>9, <1>10 DEF SplitType

(***************************************************************************)
(* GetState, and another file.                                             *)
(***************************************************************************)
LEMMA GetStateKeeps ==
  ASSUME SplitInv, GetStateWakes \/ \E timed \in BOOLEAN : GetState(timed)
  PROVE  SplitInv'
<1> USE DEF SplitInv, fileVars, parseVars, seekVars, streamVars, pinEvents, pinVars
<1>0. Clusters \in Nat
  BY SplitAssumption
<1>1. UNCHANGED <<fileVars, parseVars, state, parser, seekVars, pinVars>>
  BY DEF GetState, GetStateWakes
<1>2. SameFile /\ \A q : BlocksOf(q)' = BlocksOf(q)
  BY <1>1, SameBlocks DEF SameFile
<1>3. /\ starvation' = IF Fed THEN -1 ELSE starvation
      /\ app.op \in {"idle", "getState"} /\ app' \in Calling
      /\ \/ app' = Idle
         \/ app'.op = "getState" /\ ~Fed
  <2>1. CASE GetStateWakes
    BY <2>1, IdleIs DEF GetStateWakes, SplitType, CallType
  <2>2. CASE \E timed \in BOOLEAN : GetState(timed)
    <3>1. PICK timed \in BOOLEAN : GetState(timed)
      BY <2>2
    <3>2. [Idle EXCEPT !.op = "getState", !.timed = timed].op = "getState"
      BY DEF Idle
    <3>3. [Idle EXCEPT !.op = "getState", !.timed = timed] \in Calling
      <4> DEFINE asking == [Idle EXCEPT !.op = "getState"]
      <4>1. asking \in Calling
        BY IdleIs DEF Calling
      <4> HIDE DEF asking
      <4>2. [asking EXCEPT !.timed = timed] \in Calling
        BY <4>1 DEF Calling
      <4> QED
        BY <4>2 DEF asking
    <3> QED
      BY <3>1, <3>2, <3>3, IdleIs DEF GetState, Call
  <2> QED
    BY <2>1, <2>2
<1>4. SplitType'
  BY <1>0, <1>1, <1>2, <1>3 DEF SplitType, FileType, CallType, PinType, PlaceType
<1>5. CallInv'
  BY <1>1, <1>3, IdleIs DEF CallInv, NoThreads
<1>6. ToldInv'
  <2>1. StarvingPinIsTold'
    <3>1. \A p \in Tracks : InitCurr(p)' = InitCurr(p)
      BY <1>1, <1>2, SameLook
    <3> QED
      BY <1>1, <3>1 DEF ToldInv, StarvingPinIsTold
  <2>2. app'.op = "getState" => ~Fed'
    BY <1>1, <1>3, IdleIs DEF Fed
  <2> QED
    BY <1>1, <2>1, <2>2 DEF ToldInv
<1>7. OrderInv'
  BY <1>1, <1>2, OrderStays DEF OrderInv, SamePin
<1> QED
  BY <1>4, <1>5, <1>6, <1>7

LEMMA ReopenKeeps ==
  ASSUME SplitInv, Reopen
  PROVE  SplitInv'
<1> USE DEF SplitInv
<1>0. Clusters \in Nat /\ BlockSets \subseteq SUBSET Tracks /\ Cached \subseteq BOOLEAN
  BY SplitAssumption
<1>1. UNCHANGED <<state, app, parser, th>> /\ app = Idle /\ state = "stopped" /\ NoThreads
  BY IdleIs DEF Reopen, Call, CallInv
<1>2. FileType'
  <2>1. blocks' \in [1 .. Clusters -> SUBSET Tracks] /\ inCache' \in BOOLEAN
    BY <1>0 DEF Reopen
  <2>2. connected' \subseteq Tracks /\ connected' # {}
    BY DEF Reopen
  <2>3. loaded' \in 0 .. Clusters
    BY <1>0 DEF Reopen
  <2>4. done' = FALSE
    BY DEF Reopen
  <2> QED
    BY <2>1, <2>2, <2>3, <2>4, Zenon DEF FileType
<1>3. CallType'
  BY <1>0, <1>1 DEF Reopen, SetBase, SplitType, CallType, EOS, Null
<1>4. PinType' /\ PlaceType'
  <2>1. PinType'
    BY <1>1 DEF Reopen, NoPins, SplitType, PinType, Null
  <2>2. \A p \in Tracks : curr'[p] = Null /\ th'[p] = "none"
    BY <1>1 DEF Reopen, NoPins, NoThreads
  <2> QED
    BY <2>1, <2>2 DEF PlaceType, EOS, Null
<1>5. CallInv'
  BY <1>1, IdleIs DEF CallInv, NoThreads
<1>6. ToldInv'
  BY <1>1, IdleIs DEF ToldInv, StarvingPinIsTold
<1>7. OrderInv'
  BY <1>1, OrderEnds DEF OrderInv, NoThreads
<1> QED
  BY <1>2, <1>3, <1>4, <1>5, <1>6, <1>7 DEF SplitType

(***************************************************************************)
(* Seeks.                                                                  *)
(***************************************************************************)
LEMMA SeekTypes ==
  ASSUME PinType, NEW p \in Tracks, NEW t \in Int, SeekDone(p, t)
  PROVE  /\ curr' \in [Tracks -> Int] /\ base' \in [Tracks -> Int]
         /\ curr'[p] \in BlocksOf(p) \cup {Null, EOS}
         /\ \A q \in Tracks \ {p} : curr'[q] = curr[q] /\ base'[q] = base[q]
<1>1. PICK c \in BlocksOf(p) \cup {Null, EOS}, ns \in Int : Placed(p, c, ns)
  BY DEF SeekDone
<1>2. c \in Int
  BY BlocksAre DEF EOS, Null
<1> QED
  BY <1>1, <1>2 DEF Placed, SetStream, PinType

LEMMA SeekStoppedKeeps ==
  ASSUME SplitInv, NEW p \in Tracks, NEW t \in SeekTimes, SetPositionsStopped(p, t)
  PROVE  SplitInv'
<1> USE DEF SplitInv, fileVars, parseVars, pinEvents
<1>0. Clusters \in Nat /\ t \in Int
  BY SplitAssumption
<1>1. /\ UNCHANGED <<fileVars, state, app, parser, starvation, hNew, th, pinEvents,
                     committed, sample, sent>>
      /\ app = Idle /\ state = "stopped" /\ NoThreads /\ SetCurrPosition(p, t)
  BY IdleIs DEF SetPositionsStopped, Call, CallInv
<1>2. \A q : BlocksOf(q)' = BlocksOf(q)
  BY <1>1, SameBlocks DEF SameFile
<1>s. SeekDone(p, t)
  BY <1>0, <1>1, SeekEffect DEF SplitType
<1>3. /\ loaded' \in loaded .. Clusters /\ done' \in BOOLEAN /\ (done' => loaded' = Clusters)
      /\ seekBase' \in Null .. EOS /\ seekBaseNs' \in Int
  BY <1>s DEF SeekDone
<1>4. FileType' /\ CallType'
  BY <1>0, <1>1, <1>3 DEF SplitType, FileType, CallType, EOS, Null
<1>5. /\ curr' \in [Tracks -> Int] /\ base' \in [Tracks -> Int]
      /\ curr'[p] \in BlocksOf(p) \cup {Null, EOS}
      /\ \A q \in Tracks \ {p} : curr'[q] = curr[q]
  BY <1>0, <1>s, SeekTypes DEF SplitType
<1>6. PinType' /\ PlaceType'
  BY <1>1, <1>2, <1>5 DEF SplitType, PinType, PlaceType, NoThreads, EOS, Null
<1>7. CallInv'
  BY <1>1 DEF CallInv, NoThreads
<1>8. ToldInv'
  BY <1>1, IdleIs DEF ToldInv, StarvingPinIsTold
<1>9. OrderInv'
  BY <1>1, OrderEnds DEF OrderInv, NoThreads
<1> QED
  BY <1>4, <1>6, <1>7, <1>8, <1>9 DEF SplitType

LEMMA SetPositionsKeeps ==
  ASSUME SplitInv, NEW p \in Tracks, NEW t \in SeekTimes, SetPositions(p, t)
  PROVE  SplitInv'
<1> USE DEF SplitInv, fileVars, parseVars, seekVars, streamVars
<1>0. t \in Int
  BY SplitAssumption
<1>1. /\ UNCHANGED <<fileVars, parseVars, state, parser, starvation, hNew, seekVars, th,
                     hNewCluster, committed, streamVars>>
      /\ app = Idle /\ state = "active" /\ p \in connected
      /\ hStop' = [hStop EXCEPT ![p] = th[p] # "none"]
  BY DEF SetPositions, Call, SplitType, CallType
<1>2. app'.op = "joinSeek" /\ app'.pin = p /\ app' \in Calling
  <2> DEFINE seeking == [Idle EXCEPT !.op = "joinSeek"]
             pinned  == [seeking EXCEPT !.pin = p]
  <2>1. seeking \in Calling /\ seeking.op = "joinSeek"
    BY IdleIs DEF Calling
  <2> HIDE DEF seeking
  <2>2. pinned \in Calling /\ pinned.op = "joinSeek" /\ pinned.pin = p
    BY <2>1 DEF Calling
  <2> HIDE DEF pinned
  <2>3. LET asked == [pinned EXCEPT !.t = t]
        IN asked \in Calling /\ asked.op = "joinSeek" /\ asked.pin = p
    BY <1>0, <2>2 DEF Calling
  <2> QED
    BY <2>3 DEF SetPositions, pinned, seeking
<1>3. SameFile /\ \A q : BlocksOf(q)' = BlocksOf(q)
  BY <1>1, SameBlocks DEF SameFile
<1>4. SplitType'
  BY <1>1, <1>2, <1>3 DEF SplitType, FileType, CallType, PinType, PlaceType
<1>5. CallInv'
  BY <1>1, <1>2, IdleIs DEF CallInv
<1>6. ToldInv'
  <2>1. \A q \in Tracks : InitCurr(q)' = InitCurr(q)
    BY <1>1, <1>3, SameLook
  <2>2. \A q \in Tracks : th[q] = "wait" /\ ~hStop'[q] => ~hStop[q]
    BY <1>1 DEF SplitType, PinType
  <2> QED
    BY <1>1, <1>2, <2>1, <2>2 DEF ToldInv, StarvingPinIsTold
<1>7. OrderInv'
  BY <1>1, <1>3, OrderStays DEF OrderInv, SamePin
<1> QED
  BY <1>4, <1>5, <1>6, <1>7

(* The seek that has waited for the thread of its pin: a parser thread that*)
(* has gone has left nothing to load, so no other pin's sleep is disturbed.*)
LEMMA SeekKeeps ==
  ASSUME SplitInv, SeekAndRestart
  PROVE  SplitInv'
<1> USE DEF SplitInv, fileVars, pinEvents
<1>p. app.pin \in connected /\ app.pin \in Tracks /\ app.t \in Int /\ state = "active"
  BY DEF SeekAndRestart, CallInv, SplitType, FileType, CallType, Calling
<1>a. PICK p \in Tracks, t \in Int : p = app.pin /\ t = app.t
  BY <1>p
<1>0. Clusters \in Nat /\ p \in connected /\ state = "active" /\ loaded \in 0 .. Clusters
  BY <1>p, <1>a, SplitAssumption DEF SplitType, FileType
<1>1. /\ UNCHANGED <<fileVars, state, parser, starvation, hNew, committed>>
      /\ app' = Idle /\ SetCurrPosition(p, t) /\ StartThreads({p})
  BY <1>a DEF SeekAndRestart
<1>2. SameFile /\ \A q : BlocksOf(q)' = BlocksOf(q)
  BY <1>1, SameBlocks DEF SameFile
<1>s. SeekDone(p, t) /\ (done => UNCHANGED parseVars)
  BY <1>0, <1>1, SeekEffect DEF SplitType
<1>3. /\ loaded' \in loaded .. Clusters /\ done' \in BOOLEAN /\ (done' => loaded' = Clusters)
      /\ done => UNCHANGED parseVars
      /\ seekBase' \in Null .. EOS /\ seekBaseNs' \in Int
  BY <1>s DEF SeekDone
<1>4. FileType' /\ CallType'
  <2>1. loaded' \in 0 .. Clusters
    BY <1>0, <1>3
  <2> QED
    BY <1>1, <1>3, <2>1, IdleIs DEF SplitType, FileType, CallType, EOS, Null
<1>5. /\ curr' \in [Tracks -> Int] /\ base' \in [Tracks -> Int]
      /\ curr'[p] \in BlocksOf(p) \cup {Null, EOS}
      /\ \A q \in Tracks \ {p} : curr'[q] = curr[q] /\ base'[q] = base[q]
  BY <1>0, <1>s, SeekTypes DEF SplitType
<1>6. /\ th' \in [Tracks -> Threads] /\ sample' \in [Tracks -> Int] /\ sent' \in [Tracks -> Int]
      /\ hStop' \in [Tracks -> BOOLEAN] /\ hNewCluster' \in [Tracks -> BOOLEAN]
      /\ th'[p] = "count" /\ sent'[p] = Null
      /\ \A q \in Tracks \ {p} :
           /\ th'[q] = th[q] /\ sample'[q] = sample[q] /\ sent'[q] = sent[q]
           /\ hStop'[q] = hStop[q] /\ hNewCluster'[q] = hNewCluster[q]
  BY <1>0, <1>1 DEF StartThreads, SplitType, PinType, Threads, Null
<1>7. PinType' /\ PlaceType'
  <2>1. PinType'
    BY <1>1, <1>5, <1>6 DEF SplitType, PinType
  <2>2. ASSUME NEW q \in Tracks
        PROVE  /\ curr'[q] \in BlocksOf(q) \cup {Null, EOS}
               /\ th'[q] \in {"buffers", "populate"} => curr'[q] \in BlocksOf(q)
    BY <1>5, <1>6 DEF SplitType, PlaceType
  <2> QED
    BY <1>2, <2>1, <2>2 DEF PlaceType, EOS, Null
<1>8. CallInv'
  <2>1. \A q \in Tracks : th'[q] # "none" => q \in connected
    BY <1>0, <1>6 DEF CallInv
  <2> QED
    BY <1>0, <1>1, <2>1, IdleIs DEF CallInv
<1>9. ToldInv'
  <2>1. parser \in {"none", "end"} => done /\ UNCHANGED parseVars
    BY <1>0, <1>3 DEF ToldInv
  <2>2. StarvingPinIsTold'
    <3> SUFFICES ASSUME NEW q \in Tracks, th'[q] = "wait", ~hStop'[q], ~hNewCluster'[q],
                        parser \in {"none", "end"}
                 PROVE  InitCurr(q)' = NotFull
      BY <1>1 DEF StarvingPinIsTold, NotFull, SplitType, CallType, Parsers
    <3>1. q # p
      BY <1>6
    <3>2. curr'[q] = curr[q] /\ UNCHANGED parseVars
      BY <1>5, <2>1, <3>1
    <3>3. InitCurr(q)' = InitCurr(q)
      BY <1>2, <3>2, SameLook
    <3>4. InitCurr(q) = NotFull
      BY <1>0, <1>6, <3>1 DEF ToldInv, StarvingPinIsTold
    <3> QED
      BY <3>3, <3>4
  <2> QED
    BY <1>1, <2>1, <2>2, IdleIs DEF ToldInv, parseVars
<1>10. OrderInv'
  <2>1. PinOrder(p)'
    BY <1>0, <1>6, OrderEnds
  <2>2. ASSUME NEW q \in Tracks \ {p} PROVE PinOrder(q)'
    BY <1>2, <1>5, <1>6, OrderStays DEF OrderInv, SamePin
  <2> QED
    BY <2>1, <2>2 DEF OrderInv
<1> QED
  BY <1>4, <1>7, <1>8, <1>9, <1>10 DEF SplitType

-----------------------------------------------------------------------------
(***************************************************************************)
(* The splitter's threads.                                                 *)
(***************************************************************************)
LEMMA SplitInvStep ==
  ASSUME SplitInv, [SplitNext]_svars
  PROVE  SplitInv'
<1>1. CASE Parser
  BY <1>1, ParserKeeps
<1>2. CASE Application
  BY <1>2, PauseKeeps, StopKeeps, GetStateKeeps, ReopenKeeps, SeekStoppedKeeps,
     SetPositionsKeeps, SeekKeeps DEF Application
<1>3. CASE \E p \in Tracks : PinThread(p)
  BY <1>3, PinKeeps
<1>4. CASE UNCHANGED svars
  <2> USE <1>4 DEF svars, fileVars, parseVars, seekVars, streamVars, pinEvents, pinVars
  <2>1. SameFile /\ \A q : BlocksOf(q)' = BlocksOf(q)
    BY SameBlocks DEF SameFile
  <2>2. SplitType'
    BY <2>1 DEF SplitInv, SplitType, FileType, CallType, PinType, PlaceType
  <2>3. CallInv'
    BY DEF SplitInv, CallInv, NoThreads
  <2>4. ToldInv'
    <3>1. \A p \in Tracks : InitCurr(p)' = InitCurr(p)
      BY <2>1, SameLook
    <3> QED
      BY <3>1 DEF SplitInv, ToldInv, StarvingPinIsTold, Fed
  <2>5. OrderInv'
    BY <2>1, OrderStays DEF SplitInv, OrderInv, SamePin
  <2> QED
    BY <2>2, <2>3, <2>4, <2>5 DEF SplitInv
<1> QED
  BY <1>1, <1>2, <1>3, <1>4 DEF SplitNext

(* The inductive invariant holds in every behaviour of the splitter.       *)
THEOREM SplitInvariance == SplitSpec => []SplitInv
<1>1. SplitInit => SplitInv
  BY SplitInvInit
<1>2. SplitInv /\ [SplitNext]_svars => SplitInv'
  BY SplitInvStep
<1> QED
  BY <1>1, <1>2, PTL DEF SplitSpec

(* When Stop has completed all threads have stopped; a pin that sleeps for *)
(* want of a cluster, and GetState, are told of the next one, or the parser*)
(* thread is still there to tell them, or has failed (Outpin::Main,        *)
(* Filter::Main, OnNewCluster, GetState).                                  *)
THEOREM ThreadsAreRight == SplitSpec => []ThreadsInv
<1>1. SplitInv => ThreadsInv
  <2> SUFFICES ASSUME SplitInv PROVE ThreadsInv
    OBVIOUS
  <2> USE DEF SplitInv, SplitType
  <2>1. SplitTypeOK
    <3>1. \A p \in Tracks : curr[p] \in Null .. EOS
      <4> SUFFICES ASSUME NEW p \in Tracks PROVE curr[p] \in Null .. EOS
        OBVIOUS
      <4>1. curr[p] \in BlocksOf(p) \cup {Null, EOS} /\ Clusters \in Nat /\ EOS = Clusters + 1 /\ Null = 0
        BY SplitAssumption DEF PlaceType, EOS, Null
      <4>2. \A c \in BlocksOf(p) : c \in Null .. EOS
        BY <4>1, BlocksAre
      <4> QED
        BY <4>1, <4>2
    <3> QED
      BY <3>1 DEF SplitTypeOK, FileType, CallType, PinType, PlaceType, Threads, Parsers
  <2>2. NoThreadWhenStopped
    <3>1. state = "stopped" /\ app = Idle => parser = "none" /\ th = NoPins("none")
      BY IdleIs, ZenonT(40) DEF CallInv, NoThreads, PinType, NoPins
    <3>2. ASSUME NEW p \in Tracks, th[p] # "none", ~committed[p]
          PROVE  p \in connected /\ app = [Idle EXCEPT !.op = "joinPin", !.pin = p]
      <4>1. p \in connected /\ state = "stopped" /\ app.op # "final"
        BY <3>2 DEF CallInv, CallType
      <4>2. app.op = "joinPin"
        BY <3>2, <4>1 DEF CallInv, CallType, Calling, NoThreads
      <4>3. app.pin = p
        BY <3>2, <4>1, <4>2 DEF CallInv, FileType, Tracks
      <4>4. app.t = NoSeek /\ app.timed = FALSE
        BY <4>2 DEF CallInv
      <4> DEFINE joining == [Idle EXCEPT !.op = "joinPin", !.pin = p]
      <4>5. /\ joining \in Calling /\ joining.op = "joinPin" /\ joining.pin = p
            /\ joining.t = NoSeek /\ joining.timed = FALSE
        BY IdleIs
      <4> HIDE DEF joining
      <4>6. app \in Calling
        BY DEF CallType
      <4>7. app = joining
        BY ONLY <4>2, <4>3, <4>4, <4>5, <4>6 DEF Calling
      <4> QED
        BY <4>1, <4>7 DEF joining
    <3> QED
      BY <3>1, <3>2 DEF NoThreadWhenStopped, CallInv, PinType
  <2>3. StarvingPinIsTold /\ GetStateIsTold
    BY DEF ToldInv, GetStateIsTold
  <2> QED
    BY <2>1, <2>2, <2>3 DEF ThreadsInv
<1> QED
  BY <1>1, SplitInvariance, PTL

(* A pin delivers the blocks of its track one after the other, none before *)
(* the base time, and ends the stream only after the last one              *)
(* (Outpin::Main, Stream::PopulateSamples).                                *)
THEOREM DeliveryInOrder == SplitSpec => DeliveredInOrder
<1>1. ASSUME SplitInv, [SplitNext]_svars PROVE [DeliversInOrder]_svars
  <2> SUFFICES ASSUME NEW p \in Tracks
               PROVE  /\ sent'[p] \notin {sent[p], Null} =>
                           /\ Time(p, sent'[p]) >= base[p]
                           /\ sent[p] # Null => sent'[p] > sent[p] /\ NoneBetween(p, sent[p], sent'[p])
                      /\ EndOfStream(p) /\ sent[p] # Null => NoneBetween(p, sent[p], EOS)
    BY DEF DeliversInOrder
  <2>0. PinOrder(p) /\ sent \in [Tracks -> Int] /\ sample \in [Tracks -> Int]
    BY <1>1 DEF SplitInv, SplitType, PinType, OrderInv
  <2>1. ASSUME EndOfStream(p), sent[p] # Null PROVE NoneBetween(p, sent[p], EOS)
    BY <2>0, <2>1 DEF EndOfStream, PinOrder, Follows
  <2>2. ASSUME sent'[p] \notin {sent[p], Null} PROVE Receive(p)
    <3> USE DEF fileVars, parseVars, seekVars, streamVars, pinEvents, pinVars
    <3>1. CASE Parser
      BY <2>2, <3>1 DEF Parser, ParserLoads, ParserWaits, DataArrives, WaitCancelled, ParserFails
    <3>2. CASE Application
      BY <2>2, <3>2 DEF Application, PauseOrRun, OnStart, StartThreads, Stop, Final, StopNextPin,
         StopReturns, SetPositionsStopped, SetPositions, SeekAndRestart, GetState, GetStateWakes,
         Reopen, NoPins
    <3>3. CASE \E q \in Tracks : PinThread(q)
      <4>1. PICK q \in Tracks : PinThread(q)
        BY <3>3
      <4>2. Receive(q)
        BY <2>2, <4>1 DEF PinThread, CountSamples, Starve, WakeStop, WakeNewCluster, GetBuffers,
           PopulateSamples, ReceiveRefused, EndOfStream
      <4> QED
        BY <2>0, <2>2, <4>2 DEF Receive
    <3>4. CASE UNCHANGED svars
      BY <2>2, <3>4 DEF svars
    <3> QED
      BY <1>1, <3>1, <3>2, <3>3, <3>4 DEF SplitNext
  <2>3. ASSUME Receive(p)
        PROVE  /\ Time(p, sent'[p]) >= base[p]
               /\ sent[p] # Null => sent'[p] > sent[p] /\ NoneBetween(p, sent[p], sent'[p])
    <3>1. th[p] = "deliver" /\ sent'[p] = sample[p]
      BY <2>0, <2>3 DEF Receive
    <3> QED
      BY <2>0, <3>1 DEF PinOrder, Follows
  <2> QED
    BY <2>1, <2>2, <2>3
<1> QED
  BY <1>1, SplitInvariance, PTL DEF SplitSpec, DeliveredInOrder

-----------------------------------------------------------------------------
(***************************************************************************)
(* The base of a seek.                                                     *)
(***************************************************************************)
AllUnmoved == UNCHANGED <<blocks, connected, seekVars, curr, base>>

LEMMA BaseStays ==
  ASSUME BaseInv, AllUnmoved
  PROVE  BaseInv' /\ (AllVideo => AllVideo')
  BY DEF BaseInv, HasBase, AllVideo, AllUnmoved, seekVars, FirstTime

(* A thread that looks for its first block, or goes on to the next, keeps  *)
(* the base; one that starts lazily takes the start of the file.           *)
GoesOn(p) ==
  /\ UNCHANGED <<blocks, connected, seekVars>>
  /\ \A q \in Tracks \ {p} : curr'[q] = curr[q] /\ base'[q] = base[q]
  /\ curr'[p] # Null
  /\ base'[p] = IF curr[p] = Null THEN FirstTime(1) ELSE base[p]

LEMMA BaseGoesOn ==
  ASSUME FileType, BaseInv, NEW p \in Tracks, GoesOn(p)
  PROVE  BaseInv' /\ (AllVideo => AllVideo')
<1>1. UNCHANGED <<blocks, connected, seekVars>> /\ FirstTime(1)' = FirstTime(1)
  BY DEF GoesOn, FirstTime
<1>2. /\ \A q \in Tracks \ {p} : curr'[q] = curr[q] /\ base'[q] = base[q]
      /\ curr'[p] # Null
      /\ base'[p] = IF curr[p] = Null THEN FirstTime(1) ELSE base[p]
  BY DEF GoesOn
<1>3. ASSUME NEW q \in group.pins, "video" \in connected PROVE HasBase(q)'
  <2>1. HasBase(q) /\ q \in Tracks
    BY <1>3 DEF BaseInv, FileType
  <2>2. CASE q = p
    BY <1>1, <1>2, <2>1, <2>2 DEF HasBase, Null, seekVars
  <2>3. CASE q # p
    BY <1>1, <1>2, <2>1, <2>3 DEF HasBase, Null, seekVars
  <2> QED
    BY <2>2, <2>3
<1> QED
  BY <1>1, <1>3 DEF BaseInv, AllVideo, seekVars

LEMMA BaseMovesOn ==
  ASSUME SplitInv, SeekInv, NEW p \in Tracks, CountSamples(p) \/ PopulateSamples(p)
  PROVE  SeekInv'
<1> USE DEF SplitInv, SplitType, fileVars, seekVars
<1>0. Clusters \in Nat /\ EOS = Clusters + 1 /\ Null = 0 /\ NotFull = -1 /\ loaded \in 0 .. Clusters
  BY SplitAssumption DEF EOS, Null, NotFull, FileType
<1>1. UNCHANGED <<blocks, connected, seekVars>>
  BY DEF CountSamples, PopulateSamples
<1>2. /\ \A q \in Tracks \ {p} : curr'[q] = curr[q] /\ base'[q] = base[q]
      /\ curr'[p] # Null
      /\ base'[p] = IF curr[p] = Null THEN FirstTime(1) ELSE base[p]
  <2>1. CASE CountSamples(p)
    <3>1. InitCurr(p) \in BlocksOf(p) \cup {EOS}
      <4>1. FirstOf(p, loaded, done) \in BlocksOf(p) \cup {EOS, NotFull}
        BY <1>0, FirstOfIs DEF FileType
      <4> QED
        BY <1>0, <2>1, <4>1 DEF InitCurr, CountSamples, PlaceType
    <3>2. InitCurr(p) # Null
      BY <1>0, <3>1, BlocksAre
    <3> QED
      BY <2>1, <3>2 DEF CountSamples, PinType, InitBase
  <2>2. CASE PopulateSamples(p)
    <3> DEFINE next == NextOf(p, curr[p], loaded, done)
    <3>1. /\ curr' = [curr EXCEPT ![p] = IF next = NotFull THEN @ ELSE next]
          /\ base' = base /\ curr[p] \in BlocksOf(p)
      BY <2>2 DEF PopulateSamples, PlaceType
    <3>2. next \in BlocksOf(p) \cup {EOS, NotFull}
      <4>1. curr[p] \in Nat /\ curr[p] <= Clusters
        BY <1>0, <3>1, BlocksAre
      <4> QED
        BY <1>0, <4>1, NextOfIs DEF FileType
    <3> HIDE DEF next
    <3>3. curr[p] # Null /\ (next # NotFull => next # Null)
      BY <1>0, <3>1, <3>2, BlocksAre
    <3> QED
      BY <3>1, <3>3 DEF PinType
  <2> QED
    BY <2>1, <2>2
<1> QED
  BY <1>1, <1>2, BaseGoesOn DEF GoesOn, SeekInv

(* A seek to the time of the last one joins the group, with the base found *)
(* then; any other starts a group of its own.                              *)
LEMMA BaseFound ==
  ASSUME SplitType, BaseInv, NEW p \in connected, NEW t \in Int, SeekDone(p, t), Sought(p, t),
         "video" \in connected => Found(p), UNCHANGED <<blocks, connected>>
  PROVE  BaseInv' /\ (AllVideo => AllVideo')
<1> USE DEF SplitType
<1>0. p \in Tracks
  BY DEF FileType
<1>1. /\ currTime' = t
      /\ currTime = t => UNCHANGED <<seekBase, seekBaseNs>>
      /\ "video" \in connected => Found(p)
  BY <1>0 DEF SeekDone
<1>2. \A q \in Tracks \ {p} : curr'[q] = curr[q] /\ base'[q] = base[q]
  BY <1>0, SeekTypes
<1>3. group' = [t |-> t, pins |-> {p} \cup (IF group.t = t THEN group.pins ELSE {})]
  BY DEF Sought
<1>4. "video" \in connected => HasBase(p)'
  BY <1>0, <1>1 DEF Found, Placed, SetStream, HasBase, PinType, Null
<1>5. ASSUME NEW q \in group'.pins, "video" \in connected PROVE HasBase(q)'
  <2>1. CASE q = p
    BY <1>4, <1>5, <2>1
  <2>2. CASE q # p
    <3>1. q \in group.pins /\ currTime = t /\ q \in Tracks
      BY <1>3, <1>5, <2>2 DEF BaseInv, FileType
    <3>2. HasBase(q) /\ UNCHANGED <<seekBase, seekBaseNs>> /\ curr'[q] = curr[q] /\ base'[q] = base[q]
      BY <1>1, <1>2, <1>5, <2>2, <3>1 DEF BaseInv
    <3> QED
      BY <3>2 DEF HasBase, FirstTime
  <2> QED
    BY <2>1, <2>2
<1>6. group'.t = currTime' /\ group'.pins \subseteq connected
  BY <1>1, <1>3 DEF BaseInv
<1> QED
  BY <1>5, <1>6 DEF BaseInv, AllVideo

LEMMA SeekInvStep ==
  ASSUME AlwaysVideo, SplitInv, SeekInv, [SplitNext]_svars
  PROVE  SeekInv'
<1> USE DEF fileVars, seekVars, streamVars, pinVars
<1>1. CASE Parser
  <2>1. AllUnmoved
    BY <1>1 DEF AllUnmoved, Parser, ParserLoads, ParserWaits, DataArrives, WaitCancelled, ParserFails
  <2> QED
    BY <2>1, BaseStays DEF SeekInv
<1>2. CASE \E p \in Tracks : PinThread(p)
  <2>1. PICK p \in Tracks : PinThread(p)
    BY <1>2
  <2>2. CASE CountSamples(p) \/ PopulateSamples(p)
    BY <2>2, BaseMovesOn
  <2>3. CASE ~(CountSamples(p) \/ PopulateSamples(p))
    <3>1. AllUnmoved
      BY <2>1, <2>3 DEF AllUnmoved, PinThread, Starve, WakeStop, WakeNewCluster, GetBuffers, Receive,
         ReceiveRefused, EndOfStream
    <3> QED
      BY <3>1, BaseStays DEF SeekInv
  <2> QED
    BY <2>2, <2>3
<1>3. CASE PauseOrRun \/ Stop \/ Final \/ StopNextPin \/ StopReturns \/ GetStateWakes
           \/ (\E timed \in BOOLEAN : GetState(timed))
           \/ (\E p \in Tracks, t \in SeekTimes : SetPositions(p, t))
  <2>1. AllUnmoved
    BY <1>3 DEF AllUnmoved, PauseOrRun, Stop, Final, StopNextPin, StopReturns, GetStateWakes, GetState,
       SetPositions
  <2> QED
    BY <2>1, BaseStays DEF SeekInv
<1>4. CASE \E p \in Tracks, t \in SeekTimes : SetPositionsStopped(p, t)
  <2>1. PICK p \in Tracks, t \in SeekTimes : SetPositionsStopped(p, t)
    BY <1>4
  <2>2. /\ p \in connected /\ t \in Int /\ SetCurrPosition(p, t) /\ Sought(p, t)
        /\ UNCHANGED <<blocks, connected>>
    BY <2>1, SplitAssumption DEF SetPositionsStopped
  <2>3. SeekDone(p, t) /\ ("video" \in connected => Found(p))
    BY <2>2, SeekEffect DEF SplitInv, SplitType, SeekInv
  <2> QED
    BY <2>2, <2>3, BaseFound DEF SplitInv, SeekInv
<1>5. CASE SeekAndRestart
  <2>1. app.pin \in connected /\ app.t \in Int
    BY <1>5 DEF SeekAndRestart, SplitInv, SplitType, CallType, CallInv, Calling
  <2>2. PICK p \in connected, t \in Int : p = app.pin /\ t = app.t
    BY <2>1
  <2>3. SetCurrPosition(p, t) /\ Sought(p, t) /\ UNCHANGED <<blocks, connected>>
    BY <1>5, <2>2 DEF SeekAndRestart
  <2>4. p \in Tracks
    BY DEF SplitInv, SplitType, FileType
  <2>5. SeekDone(p, t) /\ ("video" \in connected => Found(p))
    BY <2>3, <2>4, SeekEffect DEF SplitInv, SplitType, SeekInv
  <2> QED
    BY <2>3, <2>5, BaseFound DEF SplitInv, SeekInv
<1>6. CASE Reopen
  <2>1. \A c \in 1 .. Clusters : "video" \in blocks'[c]
    BY <1>6 DEF Reopen, AlwaysVideo
  <2>2. group'.t = currTime' /\ group'.pins = {}
    BY <1>6 DEF Reopen
  <2> QED
    BY <2>1, <2>2 DEF SeekInv, BaseInv, AllVideo
<1>7. CASE UNCHANGED svars
  <2>1. AllUnmoved
    BY <1>7 DEF svars, AllUnmoved
  <2> QED
    BY <2>1, BaseStays DEF SeekInv
<1> QED
  BY <1>1, <1>2, <1>3, <1>4, <1>5, <1>6, <1>7 DEF SplitNext, Application

(* "All pins have the same base time": in a file with video in every       *)
(* cluster, pins sought to the same time one after the other start from the*)
(* same base, whatever has been loaded or delivered in between             *)
(* (Filter::SetCurrPosition, SetCurrPositionUsingSameTime, Outpin::Main).  *)
THEOREM SameBaseHolds ==
  ASSUME AlwaysVideo
  PROVE  SplitSpec => []SameBase
<1>1. SplitInit => SplitInv /\ SeekInv
  <2> SUFFICES ASSUME SplitInit PROVE SeekInv
    BY SplitInvInit
  <2>1. \A c \in 1 .. Clusters : "video" \in blocks[c]
    BY DEF SplitInit, AlwaysVideo
  <2>2. group.t = currTime /\ group.pins = {}
    BY DEF SplitInit
  <2> QED
    BY <2>1, <2>2 DEF SeekInv, BaseInv, AllVideo
<1>2. SplitInv /\ SeekInv /\ [SplitNext]_svars => (SplitInv /\ SeekInv)'
  BY SplitInvStep, SeekInvStep
<1>3. SplitInv /\ SeekInv => SameBase
  <2> SUFFICES ASSUME SplitInv, SeekInv, NEW p \in group.pins, NEW q \in group.pins
               PROVE  base[p] = base[q] \/ curr[p] = Null \/ curr[q] = Null
    BY DEF SameBase
  <2>1. CASE "video" \in connected
    BY <2>1 DEF SeekInv, BaseInv, AllVideo, HasBase
  <2>2. CASE "video" \notin connected
    <3>1. p = q
      BY <2>2 DEF SeekInv, BaseInv, AllVideo, SplitInv, SplitType, FileType, Tracks
    <3> QED
      BY <3>1
  <2> QED
    BY <2>1, <2>2
<1> QED
  BY <1>1, <1>2, <1>3, PTL DEF SplitSpec

-----------------------------------------------------------------------------
(***************************************************************************)
(* The file source.  Its pins load the clusters, there is no parser thread *)
(* and nobody sleeps; a call that stops the pins leaves the filter active  *)
(* until the last of their threads has ended.                              *)
(***************************************************************************)
SourceCalls ==
  /\ parser = "none" /\ app.op \in {"idle", "joinPin", "joinSeek"}
  /\ app.op = "idle" => app = Idle
  /\ app.op # "idle" => app.pin \in connected /\ state = "active"
  /\ app.op = "joinPin" => app.t = NoSeek /\ app.timed = FALSE
  /\ app.op = "joinPin" /\ app.pin = "audio" => th["video"] = "none"
  /\ state = "stopped" => \A p \in Tracks : th[p] = "none"
  /\ state = "active" /\ app.op # "joinPin" => \A p \in connected : committed[p]
  /\ app.op = "joinPin" /\ app.pin = "video" /\ "audio" \in connected => committed["audio"]
  /\ \A p \in Tracks : th[p] # "wait" /\ (th[p] # "none" => p \in connected)

SourceInv == SplitType /\ SourceCalls /\ OrderInv

(* A loop of LoadCluster that goes on until the next block is known, or    *)
(* known not to be, ends with an answer.                                   *)
LEMMA LoadUntilIs ==
  ASSUME NEW p \in Tracks, NEW c \in Nat, c <= Clusters, NEW n \in 0 .. Clusters, NEW d \in BOOLEAN,
         d => n = Clusters, NEW s \in LoadUntil(p, c, n, d)
  PROVE  From(n, s) /\ NextOf(p, c, s[1], s[2]) # NotFull
<1> DEFINE later == {e \in BlocksOf(p) : e > n}
<1>0. /\ n \in Nat /\ Clusters \in Nat /\ EOS # NotFull
      /\ \A b \in BlocksOf(p) : b \in Nat /\ b <= Clusters /\ b # NotFull
  BY BlocksAre DEF EOS, NotFull
<1>1. ASSUME NEW S \in SUBSET BlocksOf(p), NEW e, e \/ S # {} PROVE FirstIn(S, e) # NotFull
  <2>1. S \in SUBSET Nat
    BY <1>0
  <2> QED
    BY <1>0, <1>1, <2>1, FirstInIs
<1>2. CASE c > n \/ NextOf(p, c, n, d) # NotFull
  <2>1. s = <<n, d>>
    BY <1>2, Zenon DEF LoadUntil
  <2>2. s[1] = n /\ s[2] = d
    BY <2>1
  <2>3. c > n => NextOf(p, c, n, d) # NotFull
    BY <1>1 DEF NextOf
  <2> QED
    BY <1>0, <1>2, <2>2, <2>3 DEF From
<1>3. CASE ~(c > n \/ NextOf(p, c, n, d) # NotFull) /\ later = {}
  <2>1. s = <<Clusters, TRUE>>
    BY <1>3, Zenon DEF LoadUntil
  <2>2. s[1] = Clusters /\ s[2] = TRUE /\ Clusters \in n .. Clusters
    BY <1>0, <2>1
  <2>3. NextOf(p, c, Clusters, TRUE) # NotFull
    BY <1>1 DEF NextOf
  <2> QED
    BY <2>2, <2>3 DEF From
<1>4. CASE ~(c > n \/ NextOf(p, c, n, d) # NotFull) /\ later # {}
  <2> DEFINE m == Min(later)
  <2>1. s \in LoadCluster(m - 1)
    BY <1>4, Zenon DEF LoadUntil
  <2>2. m \in later
    BY <1>0, <1>4, MinOf
  <2> HIDE DEF m
  <2>3. m \in BlocksOf(p) /\ m \in Nat /\ m <= Clusters /\ n < m /\ c < m
    BY <1>0, <1>4, <2>2
  <2>4. m - 1 < Clusters /\ (m - 1) + 1 = m
    BY <1>0, <2>3
  <2>5. PICK e \in BOOLEAN : s = <<m, e>> /\ (e => m = Clusters)
    <3>1. PICK e \in {FALSE, (m - 1) + 1 = Clusters} : s = <<(m - 1) + 1, e>>
      BY <2>1, <2>4, Zenon DEF LoadCluster
    <3>2. s = <<m, e>>
      BY <2>4, <3>1, Zenon
    <3>3. e \in BOOLEAN /\ (e => m = Clusters)
      BY <2>4, <3>1
    <3> QED
      BY <3>2, <3>3
  <2>6. s[1] = m /\ s[2] = e /\ m \in n .. Clusters
    BY <1>0, <2>3, <2>5
  <2>7. NextOf(p, c, m, e) # NotFull
    <3> DEFINE S == {b \in BlocksOf(p) : c < b /\ b <= m}
    <3>1. S \in SUBSET BlocksOf(p) /\ m \in S
      BY <2>3
    <3>2. ~(c > m)
      BY <2>3
    <3>3. NextOf(p, c, m, e) = FirstIn(S, e)
      BY <3>2, Zenon DEF NextOf
    <3> QED
      BY <1>1, <3>1, <3>3
  <2> QED
    BY <2>5, <2>6, <2>7 DEF From
<1> QED
  BY <1>2, <1>3, <1>4

(* The first block is the next one after the beginning.                    *)
LEMMA FirstIsNext ==
  ASSUME NEW p \in Tracks, NEW n \in Nat, NEW d
  PROVE  FirstOf(p, n, d) = NextOf(p, Null, n, d)
<1>1. {c \in BlocksOf(p) : c <= n} = {e \in BlocksOf(p) : 0 < e /\ e <= n}
  BY BlocksAre
<1>2. ~(0 > n)
  OBVIOUS
<1>3. NextOf(p, 0, n, d) = FirstIn({e \in BlocksOf(p) : 0 < e /\ e <= n}, d)
  BY <1>2, Zenon DEF NextOf
<1>4. FirstOf(p, n, d) = FirstIn({c \in BlocksOf(p) : c <= n}, d)
  BY Zenon DEF FirstOf
<1> QED
  BY <1>1, <1>3, <1>4, Zenon DEF Null

(* The file source's seek finds a block or the end of the stream, so that  *)
(* the base it notes is that of the stream it has moved.                   *)
LEMMA SourceSeekEffect ==
  ASSUME FileType, CallType, NEW p \in connected, NEW t \in Int, SourceSetCurrPosition(p, t)
  PROVE  SeekDone(p, t) /\ ("video" \in connected => Found(p))
<1>0. /\ Clusters \in Nat /\ EOS = Clusters + 1 /\ Null = 0 /\ NotFull = -1 /\ loaded \in 0 .. Clusters
      /\ done \in BOOLEAN /\ (done => loaded = Clusters) /\ p \in Tracks
  BY BlocksAre DEF EOS, Null, NotFull, FileType
<1>1. CASE currTime = t
  <2>1. SetCurrPositionUsingSameTime(p)
    BY <1>1 DEF SourceSetCurrPosition
  <2>2. /\ UNCHANGED <<parseVars, currTime, seekBase, seekBaseNs>> /\ Found(p)
        /\ \E c \in BlocksOf(p) \cup {Null, EOS} : Placed(p, c, seekBaseNs)
    BY <1>0, <2>1, SameTimeIs
  <2>3. seekBase \in Null .. EOS /\ seekBaseNs \in Int
    BY DEF CallType
  <2> QED
    BY <1>0, <1>1, <2>2, <2>3 DEF parseVars, SeekDone
<1>2. CASE currTime # t
  <2> DEFINE sought == IF "video" \in connected THEN "video" ELSE p
  <2>1. currTime' = t
    BY <1>2 DEF SourceSetCurrPosition
  <2>2. PICK s \in LoadCluster(loaded) : \E r \in LoadUntil(sought, Null, s[1], s[2]) :
         IF sought = "audio"
         THEN Parsed(r) /\ SeekAudioOnly(SeekOf("audio", t, r[1], r[2]), t)
         ELSE \/ Parsed(r) /\ SeekVideo(p, SeekOf("video", t, r[1], r[2]))
              \/ Parsed(s) /\ \E c \in BlocksOf("video") : SeekVideo(p, c)
    BY <1>2 DEF SourceSetCurrPosition
  <2>3. PICK r \in LoadUntil(sought, Null, s[1], s[2]) :
         IF sought = "audio"
         THEN Parsed(r) /\ SeekAudioOnly(SeekOf("audio", t, r[1], r[2]), t)
         ELSE \/ Parsed(r) /\ SeekVideo(p, SeekOf("video", t, r[1], r[2]))
              \/ Parsed(s) /\ \E c \in BlocksOf("video") : SeekVideo(p, c)
    BY <2>2
  <2>4. sought \in Tracks /\ (sought = "audio" => p = "audio" /\ "video" \notin connected)
        /\ (sought # "audio" => sought = "video")
    BY <1>0 DEF Tracks
  <2> HIDE DEF sought
  <2>5. From(loaded, s)
    BY <1>0, LoadClusterIs
  <2>6. s[1] \in 0 .. Clusters /\ s[1] \in loaded .. Clusters /\ s[2] \in BOOLEAN /\ (s[2] => s[1] = Clusters)
    BY <1>0, <2>5 DEF From
  <2>7. From(s[1], r) /\ NextOf(sought, Null, r[1], r[2]) # NotFull
    <3>1. Null \in Nat /\ Null <= Clusters
      BY <1>0
    <3> QED
      BY <2>4, <2>6, <3>1, LoadUntilIs
  <2>8. r[1] \in 0 .. Clusters /\ r[1] \in Nat /\ r[2] \in BOOLEAN /\ From(loaded, r)
    BY <1>0, <2>6, <2>7 DEF From
  <2>9. FirstOf(sought, r[1], r[2]) # NotFull
    BY <2>4, <2>7, <2>8, FirstIsNext
  <2>10. ASSUME NEW x, From(loaded, x), Parsed(x)
         PROVE  loaded' \in loaded .. Clusters /\ done' \in BOOLEAN /\ (done' => loaded' = Clusters)
    BY <2>10 DEF From, Parsed
  <2>11. CASE sought = "audio"
    <3>1. Parsed(r) /\ SeekAudioOnly(SeekOf("audio", t, r[1], r[2]), t)
      BY <2>3, <2>11
    <3>2. SeekOf("audio", t, r[1], r[2]) \in BlocksOf("audio") \cup {EOS, NotFull}
      BY <2>4, <2>8, <2>11, SeekOfIs
    <3>3. /\ seekBase' \in Null .. EOS /\ seekBaseNs' \in Int
          /\ \E e \in BlocksOf("audio") \cup {Null, EOS} : \E m \in Int : Placed("audio", e, m)
      BY <3>1, <3>2, SeekAudioOnlyIs
    <3> QED
      BY <1>2, <2>1, <2>4, <2>8, <2>10, <2>11, <3>1, <3>3 DEF SeekDone
  <2>12. CASE sought # "audio"
    <3>1. ASSUME NEW v \in BlocksOf("video") \cup {EOS}, SeekVideo(p, v)
          PROVE  /\ seekBase' \in Null .. EOS /\ seekBaseNs' \in Int /\ Found(p)
                 /\ \E c \in BlocksOf(p) \cup {Null, EOS} : \E ns \in Int : Placed(p, c, ns)
      <4>1. CASE v \in BlocksOf("video")
        <5>1. /\ seekBase' = v /\ seekBaseNs' \in Int
              /\ \E c \in BlocksOf(p) \cup {EOS} : c # Null /\ Placed(p, c, seekBaseNs')
          BY <1>0, <3>1, <4>1, SeekVideoFound
        <5>2. v # Null /\ v \in Null .. EOS
          BY <1>0, <4>1, BlocksAre
        <5> QED
          BY <5>1, <5>2 DEF Found
      <4>2. CASE v = EOS
        <5>1. SetBase(EOS, -1, -1) /\ SetStream(p, -1, EOS)
          BY <3>1, <4>2 DEF SeekVideo
        <5>2. seekBase' = EOS /\ seekBaseNs' = -1
          BY <5>1 DEF SetBase
        <5>3. EOS # Null /\ EOS \in Null .. EOS /\ -1 \in Int
          BY <1>0
        <5>4. Placed(p, EOS, -1)
          BY <5>1, <5>3 DEF Placed
        <5> QED
          BY <5>2, <5>3, <5>4 DEF Found
      <4> QED
        BY <3>1, <4>1, <4>2
    <3>2. CASE Parsed(r) /\ SeekVideo(p, SeekOf("video", t, r[1], r[2]))
      <4> DEFINE v == SeekOf("video", t, r[1], r[2])
      <4>1. v \in BlocksOf("video") \cup {EOS, NotFull}
        BY <2>4, <2>8, <2>12, SeekOfIs
      <4>2. v # NotFull
        <5> DEFINE S == {c \in BlocksOf("video") : c <= r[1] /\ Time("video", c) <= t}
        <5>1. CASE S # {}
          <6>1. S \in SUBSET (0 .. Clusters)
            BY <1>0, BlocksAre
          <6>2. Max(S) \in S
            BY <1>0, <5>1, <6>1, MaxOf
          <6> QED
            BY <1>0, <5>1, <6>2, BlocksAre DEF SeekOf
        <5>2. CASE S = {}
          BY <2>4, <2>9, <2>12, <5>2 DEF SeekOf
        <5> QED
          BY <5>1, <5>2
      <4> HIDE DEF v
      <4>3. SeekVideo(p, v) /\ v \in BlocksOf("video") \cup {EOS}
        BY <3>2, <4>1, <4>2 DEF v
      <4> QED
        BY <1>2, <2>1, <2>8, <2>10, <3>1, <3>2, <4>3 DEF SeekDone
    <3>3. CASE Parsed(s) /\ \E c \in BlocksOf("video") : SeekVideo(p, c)
      BY <1>2, <2>1, <2>5, <2>10, <3>1, <3>3 DEF SeekDone
    <3> QED
      BY <2>3, <2>12, <3>2, <3>3
  <2> QED
    BY <2>11, <2>12
<1> QED
  BY <1>1, <1>2

(* A pin's thread, which may load clusters first, leaves the other pin     *)
(* alone, never sleeps, and has the next block when it goes on.            *)
SourcePinStep(p) ==
  /\ UNCHANGED <<blocks, inCache, connected, state, app, parser, starvation, seekVars, committed,
                 pinEvents>>
  /\ loaded' \in loaded .. Clusters /\ done' \in BOOLEAN /\ (done' => loaded' = Clusters)
  /\ th[p] # "none" /\ th'[p] \in Threads \ {"none", "wait"} /\ th' = [th EXCEPT ![p] = th'[p]]
  /\ \A q \in Tracks \ {p} : SamePin(q)
  /\ curr' \in [Tracks -> Int] /\ base' \in [Tracks -> Int]
  /\ sample' \in [Tracks -> Int] /\ sent' \in [Tracks -> Int]
  /\ curr'[p] \in BlocksOf(p) \cup {Null, EOS}
  /\ th'[p] \in {"buffers", "populate"} => curr'[p] \in BlocksOf(p)
  /\ PinOrder(p)'

LEMMA SourceCountIs ==
  ASSUME SplitType, OrderInv, NEW p \in Tracks, SourceCountSamples(p)
  PROVE  SourcePinStep(p) /\ GoesOn(p) /\ sent' = sent
<1> USE DEF SplitType, PinType, pinVars, streamVars, pinEvents, SamePin, Threads, fileVars,
            splitOnly, SourceCountSamples
<1>0. /\ Clusters \in Nat /\ EOS = Clusters + 1 /\ Null = 0 /\ NotFull = -1
      /\ curr[p] \in BlocksOf(p) \cup {Null, EOS} /\ PinOrder(p)
      /\ \A c \in BlocksOf(p) : c \in Nat /\ c > 0 /\ c \in 1 .. Clusters
      /\ loaded \in 0 .. Clusters /\ done \in BOOLEAN /\ (done => loaded = Clusters)
  BY BlocksAre DEF EOS, Null, NotFull, PlaceType, OrderInv, FileType
<1>1. PICK s \in IF curr[p] = Null THEN LoadUntil(p, Null, loaded, done) ELSE {<<loaded, done>>} :
        /\ Parsed(s)
        /\ curr' = [curr EXCEPT ![p] = IF @ = Null THEN FirstOf(p, s[1], s[2]) ELSE @]
  OBVIOUS
<1>2. /\ From(loaded, s)
      /\ curr[p] = Null => FirstOf(p, s[1], s[2]) \in BlocksOf(p) \cup {EOS}
  <2>1. CASE curr[p] = Null
    <3>1. s \in LoadUntil(p, Null, loaded, done) /\ Null \in Nat /\ Null <= Clusters
      BY <1>0, <1>1, <2>1
    <3>2. From(loaded, s) /\ NextOf(p, Null, s[1], s[2]) # NotFull
      BY <1>0, <3>1, LoadUntilIs
    <3>3. s[1] \in 0 .. Clusters /\ s[1] \in Nat /\ s[2] \in BOOLEAN
      BY <1>0, <3>2 DEF From
    <3>4. FirstOf(p, s[1], s[2]) # NotFull
      BY <3>2, <3>3, FirstIsNext
    <3> QED
      BY <3>2, <3>3, <3>4, FirstOfIs
  <2>2. CASE curr[p] # Null
    <3>1. s = <<loaded, done>>
      BY <1>1, <2>2
    <3>2. s[1] = loaded /\ s[2] = done /\ loaded \in loaded .. Clusters
      BY <1>0, <3>1
    <3> QED
      BY <1>0, <2>2, <3>2 DEF From
  <2> QED
    BY <2>1, <2>2
<1>3. /\ curr'[p] \in BlocksOf(p) \cup {EOS} /\ curr'[p] \in Int /\ curr'[p] # Null
      /\ curr[p] # Null => curr'[p] = curr[p]
      /\ curr' \in [Tracks -> Int] /\ \A q \in Tracks \ {p} : curr'[q] = curr[q]
  <2> DEFINE c == IF curr[p] = Null THEN FirstOf(p, s[1], s[2]) ELSE curr[p]
  <2>1. c \in BlocksOf(p) \cup {EOS} /\ (curr[p] # Null => c = curr[p])
    BY <1>0, <1>2
  <2>2. curr' = [curr EXCEPT ![p] = c]
    BY <1>1
  <2> HIDE DEF c
  <2>3. c \in Int /\ c # Null
    BY <1>0, <2>1
  <2> QED
    BY <2>1, <2>2, <2>3
<1>4. /\ loaded' \in loaded .. Clusters /\ done' \in BOOLEAN /\ (done' => loaded' = Clusters)
  BY <1>1, <1>2 DEF From, Parsed
<1>5. InitBase(p) \in Int /\ FirstTime(1) \in Int
  BY <1>0, TimesAre DEF InitBase
<1>6. /\ base' = [base EXCEPT ![p] = InitBase(p)] /\ sent' = sent /\ sample' = sample
      /\ th' = [th EXCEPT ![p] = IF curr'[p] = EOS THEN "eos" ELSE "buffers"]
      /\ th[p] = "count"
      /\ UNCHANGED <<blocks, inCache, connected, state, app, parser, starvation, seekVars, committed,
                     pinEvents>>
  OBVIOUS
<1>7. PinOrder(p)'
  <2>1. \A q : BlocksOf(q)' = BlocksOf(q)
    BY <1>6, SameBlocks DEF SameFile
  <2>2. /\ base'[p] = InitBase(p) /\ sent'[p] = sent[p]
        /\ th'[p] = IF curr'[p] = EOS THEN "eos" ELSE "buffers"
    BY <1>5, <1>6
  <2>3. sent[p] # Null => curr[p] # Null /\ curr'[p] = curr[p] /\ base'[p] = base[p]
    BY <1>0, <1>3, <1>6, <2>2 DEF PinOrder, Follows, InitBase
  <2> QED
    BY <1>0, <1>6, <2>1, <2>2, <2>3 DEF PinOrder, Follows, NoneBetween, Time
<1>8. GoesOn(p)
  BY <1>3, <1>5, <1>6 DEF GoesOn, InitBase
<1>9. th'[p] \in {"eos", "buffers"} /\ (th'[p] = "buffers" => curr'[p] \in BlocksOf(p))
  BY <1>3, <1>6
<1> QED
  BY <1>3, <1>4, <1>5, <1>6, <1>7, <1>8, <1>9 DEF SourcePinStep

LEMMA SourcePopulateIs ==
  ASSUME SplitType, OrderInv, NEW p \in Tracks, SourcePopulateSamples(p)
  PROVE  SourcePinStep(p) /\ GoesOn(p) /\ sent' = sent
<1> USE DEF SplitType, PinType, pinVars, streamVars, pinEvents, SamePin, Threads, fileVars,
            splitOnly, SourcePopulateSamples
<1>0. /\ Clusters \in Nat /\ EOS = Clusters + 1 /\ Null = 0 /\ NotFull = -1
      /\ th[p] = "populate" /\ curr[p] \in BlocksOf(p) /\ PinOrder(p)
      /\ \A c \in BlocksOf(p) : c \in Nat /\ c > 0 /\ c \in 1 .. Clusters
      /\ loaded \in 0 .. Clusters /\ done \in BOOLEAN /\ (done => loaded = Clusters)
  BY BlocksAre DEF EOS, Null, NotFull, PlaceType, OrderInv, FileType
<1>1. PICK s \in LoadUntil(p, curr[p], loaded, done) :
        Parsed(s) /\ curr' = [curr EXCEPT ![p] = NextOf(p, @, s[1], s[2])]
  OBVIOUS
<1> DEFINE next == NextOf(p, curr[p], s[1], s[2])
<1>2. From(loaded, s) /\ next # NotFull
  BY <1>0, LoadUntilIs
<1>3. next \in BlocksOf(p) \cup {EOS} /\ Follows(p, curr[p], next)
  <2>1. s[1] \in 0 .. Clusters /\ s[2] \in BOOLEAN /\ (s[2] => s[1] = Clusters)
    BY <1>0, <1>2 DEF From
  <2>2. /\ next \in BlocksOf(p) \cup {EOS, NotFull}
        /\ next # NotFull => Follows(p, curr[p], next)
    BY <1>0, <2>1, NextOfIs
  <2> QED
    BY <1>2, <2>2
<1>4. /\ curr' = [curr EXCEPT ![p] = next]
      /\ sample' = [sample EXCEPT ![p] = curr[p]] /\ base' = base /\ sent' = sent
      /\ th' = [th EXCEPT ![p] = IF Time(p, curr[p]) < base[p] THEN "count" ELSE "deliver"]
      /\ UNCHANGED <<blocks, inCache, connected, state, app, parser, starvation, seekVars, committed,
                     pinEvents>>
  BY <1>1
<1>5. loaded' \in loaded .. Clusters /\ done' \in BOOLEAN /\ (done' => loaded' = Clusters)
  BY <1>1, <1>2 DEF From, Parsed
<1> HIDE DEF next
<1>6. next \in Int /\ next # Null /\ curr[p] # Null
  BY <1>0, <1>3
<1>7. PinOrder(p)'
  <2>1. \A q : BlocksOf(q)' = BlocksOf(q)
    BY <1>4, SameBlocks DEF SameFile
  <2>2. Time(p, curr[p]) \in Int /\ base[p] \in Int
    BY <1>0, TimesAre
  <2>3. sent[p] # Null => Follows(p, sent[p], curr[p]) /\ Time(p, sent[p]) >= base[p]
    BY <1>0 DEF PinOrder
  <2>4. CASE Time(p, curr[p]) < base[p]
    <3>1. th'[p] = "count" /\ sent'[p] = sent[p]
      BY <1>4, <2>4
    <3>2. sent[p] = Null
      <4>1. sent[p] \in Nat /\ sent[p] < curr[p] => Time(p, sent[p]) <= Time(p, curr[p])
        BY <1>0 DEF Time
      <4>2. sent[p] \in Nat => Time(p, sent[p]) \in Int
        BY TimesAre
      <4> QED
        BY <2>2, <2>3, <2>4, <4>1, <4>2 DEF Follows
    <3> QED
      BY <3>1, <3>2, OrderEnds
  <2>5. CASE ~(Time(p, curr[p]) < base[p])
    <3>1. /\ th'[p] = "deliver" /\ sample'[p] = curr[p] /\ curr'[p] = next
          /\ sent'[p] = sent[p] /\ base'[p] = base[p]
      BY <1>4, <1>6, <2>5
    <3>2. Time(p, curr[p]) >= base[p]
      BY <2>2, <2>5
    <3> QED
      BY <1>3, <2>1, <2>3, <3>1, <3>2 DEF PinOrder, Follows, NoneBetween, Time
  <2> QED
    BY <2>4, <2>5
<1>8. GoesOn(p)
  BY <1>4, <1>6 DEF GoesOn
<1>9. th'[p] \in {"count", "deliver"}
  BY <1>0, <1>4
<1> QED
  BY <1>0, <1>3, <1>4, <1>5, <1>6, <1>7, <1>8, <1>9 DEF SourcePinStep

(* What the thread does without the lock, and the end of the stream, is    *)
(* the splitter's.                                                         *)
LEMMA SourcePinSteps ==
  ASSUME SplitType, OrderInv, NEW p \in Tracks, SourcePinThread(p)
  PROVE  SourcePinStep(p) /\ (GoesOn(p) \/ UNCHANGED <<curr, base>>)
         /\ (sent' = sent \/ Receive(p))
<1>1. CASE GetBuffers(p) \/ Receive(p) \/ ReceiveRefused(p) \/ EndOfStream(p)
  <2>1. /\ UNCHANGED <<fileVars, parseVars, state, app, parser, hNew, seekVars, committed>>
        /\ th[p] # "none" /\ th'[p] \in Threads \ {"none"}
        /\ th' = [th EXCEPT ![p] = th'[p]]
        /\ \A q \in Tracks \ {p} : SamePin(q)
        /\ curr' \in [Tracks -> Int] /\ base' \in [Tracks -> Int]
        /\ sample' \in [Tracks -> Int] /\ sent' \in [Tracks -> Int]
        /\ curr'[p] \in BlocksOf(p) \cup {Null, EOS}
        /\ th'[p] \in {"buffers", "populate"} => curr'[p] \in BlocksOf(p)
        /\ th'[p] = "wait" => Starve(p)
        /\ PinOrder(p)'
    BY <1>1, PinSteps DEF PinThread
  <2>2. /\ UNCHANGED <<starvation, pinEvents, curr, base>> /\ th[p] # "count"
        /\ (sent' = sent \/ Receive(p))
    BY <1>1 DEF GetBuffers, Receive, ReceiveRefused, EndOfStream, streamVars
  <2>3. loaded' \in loaded .. Clusters /\ done' \in BOOLEAN /\ (done' => loaded' = Clusters)
    BY <2>1, SplitAssumption DEF parseVars, SplitType, FileType
  <2>4. ~Starve(p)
    BY <2>2 DEF Starve
  <2> QED
    BY <2>1, <2>2, <2>3, <2>4 DEF SourcePinStep, fileVars
<1> QED
  BY <1>1, SourceCountIs, SourcePopulateIs DEF SourcePinThread

LEMMA SourcePinKeeps ==
  ASSUME SourceInv, NEW p \in Tracks, SourcePinStep(p)
  PROVE  SourceInv'
<1> USE DEF SourceInv, SourcePinStep
<1>0. Clusters \in Nat /\ loaded \in 0 .. Clusters
  BY SplitAssumption DEF SplitType, FileType
<1>1. SameFile /\ \A q : BlocksOf(q)' = BlocksOf(q)
  BY SameBlocks DEF SameFile
<1>2. FileType' /\ CallType'
  <2>1. loaded' \in 0 .. Clusters
    BY <1>0
  <2> QED
    BY <2>1 DEF SplitType, FileType, CallType, seekVars
<1>3. PinType'
  <2>1. th \in [Tracks -> Threads] /\ th'[p] \in Threads
    BY DEF SplitType, PinType
  <2>2. th' \in [Tracks -> Threads]
    BY <2>1
  <2> QED
    BY <2>2 DEF SplitType, PinType, pinEvents
<1>4. PlaceType'
  <2> SUFFICES ASSUME NEW q \in Tracks
               PROVE  /\ curr'[q] \in BlocksOf(q) \cup {Null, EOS}
                      /\ th'[q] \in {"buffers", "populate"} => curr'[q] \in BlocksOf(q)
    BY <1>1 DEF PlaceType, EOS, Null
  <2>1. q # p => SamePin(q)
    OBVIOUS
  <2> QED
    BY <2>1 DEF SamePin, SplitType, PlaceType
<1>5. SourceCalls'
  <2>1. ASSUME NEW q \in Tracks
        PROVE  /\ th'[q] # "none" => th[q] # "none"
               /\ th'[q] # "wait" /\ (th'[q] # "none" => q \in connected)
    <3>1. q # p => SamePin(q)
      OBVIOUS
    <3> QED
      BY <3>1 DEF SamePin, SourceCalls
  <2>2. th["video"] = "none" => th'["video"] = "none"
    BY <2>1 DEF Tracks
  <2> QED
    BY <2>1, <2>2 DEF SourceCalls
<1>6. OrderInv'
  <2>1. \A q \in Tracks \ {p} : PinOrder(q)'
    BY <1>1, OrderStays DEF OrderInv
  <2> QED
    BY <2>1 DEF OrderInv
<1> QED
  BY <1>2, <1>3, <1>4, <1>5, <1>6 DEF SplitType

(* Pause and Run.                                                          *)
LEMMA SourcePauseKeeps ==
  ASSUME SourceInv, SourcePauseOrRun
  PROVE  SourceInv'
<1> USE DEF SourceInv, fileVars, parseVars, seekVars, pinEvents
<1>1. SameFile /\ \A q : BlocksOf(q)' = BlocksOf(q)
  BY SameBlocks DEF SourcePauseOrRun, SameFile
<1>2. /\ UNCHANGED <<fileVars, parseVars, app, parser, starvation, seekVars, curr, base>>
      /\ state' = "active" /\ app = Idle
  BY DEF SourcePauseOrRun, Call
<1>3. FileType' /\ CallType'
  BY <1>2 DEF SplitType, FileType, CallType
<1>4. CASE state = "stopped"
  <2>1. /\ StartThreads(connected) /\ connected \subseteq Tracks /\ \A p \in Tracks : th[p] = "none"
        /\ committed' = [p \in Tracks |-> committed[p] \/ p \in connected]
    BY <1>4 DEF SourcePauseOrRun, SourceCalls, SplitType, FileType
  <2>2. \A p \in Tracks :
          /\ p \in connected => th'[p] = "count" /\ sent'[p] = Null /\ committed'[p]
          /\ p \notin connected => th'[p] = "none"
    BY <2>1 DEF StartThreads
  <2>3. PinType'
    <3>1. /\ th' \in [Tracks -> Threads] /\ hStop' \in [Tracks -> BOOLEAN]
          /\ hNewCluster' \in [Tracks -> BOOLEAN]
      BY <2>1 DEF StartThreads, SplitType, PinType, Threads
    <3>2. committed' \in [Tracks -> BOOLEAN]
      BY <2>1 DEF SplitType, PinType
    <3>3. sample' \in [Tracks -> Int] /\ sent' \in [Tracks -> Int]
      BY <2>1 DEF StartThreads, SplitType, PinType, Null
    <3> QED
      BY <1>2, <3>1, <3>2, <3>3 DEF SplitType, PinType
  <2>4. PlaceType'
    BY <1>1, <1>2, <2>2 DEF SplitType, PlaceType
  <2>5. SourceCalls'
    BY <1>2, <2>1, <2>2, IdleIs DEF SourceCalls
  <2>6. OrderInv'
    BY <2>2, OrderEnds DEF OrderInv
  <2> QED
    BY <1>3, <2>3, <2>4, <2>5, <2>6 DEF SplitType
<1>5. CASE state # "stopped"
  <2>1. UNCHANGED <<th, pinEvents, sample, sent, committed, state>>
    BY <1>2, <1>5 DEF SourcePauseOrRun, SplitType, CallType
  <2>2. PinType' /\ PlaceType'
    BY <1>1, <1>2, <2>1 DEF SplitType, PinType, PlaceType
  <2>3. SourceCalls'
    BY <1>2, <2>1 DEF SourceCalls
  <2>4. OrderInv'
    BY <1>1, <1>2, <2>1, OrderStays DEF OrderInv, SamePin
  <2> QED
    BY <1>3, <2>2, <2>3, <2>4 DEF SplitType
<1> QED
  BY <1>4, <1>5

(* Stop ends the threads one after the other and puts the streams back.    *)
LEMMA SourceStopKeeps ==
  ASSUME SourceInv, SourceStop \/ SourceStopNextPin \/ SourceStopReturns
  PROVE  SourceInv'
<1> USE DEF SourceInv, fileVars, parseVars, splitOnly, pinEvents, seekVars, streamVars
<1>0. /\ Clusters \in Nat /\ connected \subseteq Tracks /\ connected # {} /\ Tracks = {"video", "audio"}
      /\ th \in [Tracks -> Threads] /\ curr \in [Tracks -> Int] /\ base \in [Tracks -> Int]
      /\ committed \in [Tracks -> BOOLEAN] /\ app \in Calling /\ state \in {"stopped", "active"}
  BY SplitAssumption DEF SplitType, FileType, CallType, PinType, Tracks
<1>1. /\ UNCHANGED <<fileVars, parseVars, splitOnly, seekBase, seekBaseNs, sample, sent>>
      /\ app' \in Calling /\ state' \in {"stopped", "active"}
  <2>1. FirstPin \in Tracks /\ [app EXCEPT !.pin = "audio"] \in Calling
    BY <1>0 DEF FirstPin, Calling
  <2>2. CASE SourceStop
    BY <1>0, <2>1, <2>2, IdleIs DEF SourceStop
  <2>3. CASE SourceStopNextPin
    BY <1>0, <2>1, <2>3 DEF SourceStopNextPin, StreamInit
  <2>4. CASE SourceStopReturns
    BY <1>0, <2>4, IdleIs DEF SourceStopReturns, StreamInit
  <2> QED
    BY <2>2, <2>3, <2>4
<1>2. SameFile /\ \A q : BlocksOf(q)' = BlocksOf(q)
  BY <1>1, SameBlocks DEF SameFile
<1>3. \A p \in Tracks : SamePin(p) \/ (th'[p] = "none" /\ curr'[p] = Null)
  <2>1. CASE SourceStop
    BY <2>1 DEF SourceStop, SamePin
  <2>2. CASE SourceStopNextPin
    BY <1>0, <2>2 DEF SourceStopNextPin, StreamInit, SamePin
  <2>3. CASE SourceStopReturns
    BY <1>0, <2>3 DEF SourceStopReturns, StreamInit, SamePin, Calling
  <2> QED
    BY <2>1, <2>2, <2>3
<1>4. FileType' /\ CallType'
  BY <1>1 DEF SplitType, FileType, CallType
<1>5. PinType'
  <2>1. /\ th' \in [Tracks -> Threads] /\ curr' \in [Tracks -> Int] /\ base' \in [Tracks -> Int]
    BY <1>0 DEF SourceStop, SourceStopNextPin, SourceStopReturns, StreamInit, Threads, Null
  <2>2. committed' \in [Tracks -> BOOLEAN]
    BY <1>0 DEF SourceStop, SourceStopNextPin, SourceStopReturns
  <2> QED
    BY <1>1, <2>1, <2>2 DEF SplitType, PinType
<1>6. PlaceType'
  <2> SUFFICES ASSUME NEW q \in Tracks
               PROVE  /\ curr'[q] \in BlocksOf(q) \cup {Null, EOS}
                      /\ th'[q] \in {"buffers", "populate"} => curr'[q] \in BlocksOf(q)
    BY <1>2 DEF PlaceType, EOS, Null
  <2> QED
    BY <1>3 DEF SamePin, SplitType, PlaceType
<1>7. SourceCalls'
  <2>1. CASE SourceStop
    <3>1. /\ app' = [Idle EXCEPT !.op = "joinPin", !.pin = FirstPin] /\ th' = th /\ state' = state
          /\ committed' = [committed EXCEPT ![FirstPin] = FALSE] /\ state = "active" /\ app = Idle
          /\ FirstPin \in connected /\ (FirstPin = "audio" => "video" \notin connected)
      BY <1>0, <2>1 DEF SourceStop, FirstPin, Call
    <3>2. app'.op = "joinPin" /\ app'.pin = FirstPin /\ app'.t = NoSeek /\ app'.timed = FALSE
      BY <1>0, <3>1, IdleIs
    <3>3. "audio" \in connected /\ FirstPin = "video" => committed'["audio"]
      BY <1>0, <3>1, IdleIs DEF SourceCalls
    <3> QED
      BY <1>0, <1>1, <3>1, <3>2, <3>3 DEF SourceCalls
  <2>2. CASE SourceStopNextPin
    <3>1. /\ app'.op = "joinPin" /\ app'.pin = "audio" /\ app'.t = app.t /\ app'.timed = app.timed
          /\ "audio" \in connected /\ state' = state /\ app.op = "joinPin"
          /\ th' = [th EXCEPT !["video"] = "none"]
      BY <1>0, <2>2 DEF SourceStopNextPin, StreamInit, Calling
    <3> QED
      BY <1>0, <1>1, <3>1 DEF SourceCalls
  <2>3. CASE SourceStopReturns
    <3>1. /\ app' = Idle /\ app.op = "joinPin" /\ app.pin \in connected /\ state' = "stopped"
          /\ th' = [th EXCEPT ![app.pin] = "none"] /\ (app.pin = "audio" \/ "audio" \notin connected)
      BY <2>3 DEF SourceStopReturns, StreamInit, SourceCalls
    <3>2. th'["video"] = "none" /\ th'["audio"] = "none"
      BY <1>0, <3>1 DEF SourceCalls
    <3> QED
      BY <1>0, <1>1, <3>1, <3>2, IdleIs DEF SourceCalls
  <2> QED
    BY <2>1, <2>2, <2>3
<1>8. OrderInv'
  BY <1>2, <1>3, OrderStays, OrderEnds DEF OrderInv
<1> QED
  BY <1>4, <1>5, <1>6, <1>7, <1>8 DEF SplitType

(* Seeks.                                                                  *)
LEMMA SourceSetPositionsKeeps ==
  ASSUME SourceInv, NEW p \in Tracks, NEW t \in SeekTimes, SourceSetPositions(p, t)
  PROVE  SourceInv'
<1> USE DEF SourceInv, fileVars, parseVars, splitOnly, pinEvents, seekVars, streamVars
<1>0. t \in Int
  BY SplitAssumption
<1>1. /\ UNCHANGED <<fileVars, parseVars, state, splitOnly, seekVars, th, committed, streamVars>>
      /\ app = Idle /\ state = "active" /\ p \in connected
  BY DEF SourceSetPositions, Call, SplitType, CallType
<1>2. app'.op = "joinSeek" /\ app'.pin = p /\ app' \in Calling
  <2> DEFINE seeking == [Idle EXCEPT !.op = "joinSeek"]
             pinned  == [seeking EXCEPT !.pin = p]
  <2>1. seeking \in Calling /\ seeking.op = "joinSeek"
    BY IdleIs DEF Calling
  <2> HIDE DEF seeking
  <2>2. pinned \in Calling /\ pinned.op = "joinSeek" /\ pinned.pin = p
    BY <2>1 DEF Calling
  <2> HIDE DEF pinned
  <2>3. LET asked == [pinned EXCEPT !.t = t]
        IN asked \in Calling /\ asked.op = "joinSeek" /\ asked.pin = p
    BY <1>0, <2>2 DEF Calling
  <2> QED
    BY <2>3 DEF SourceSetPositions, pinned, seeking
<1>3. SameFile /\ \A q : BlocksOf(q)' = BlocksOf(q)
  BY <1>1, SameBlocks DEF SameFile
<1>4. SplitType'
  BY <1>1, <1>2, <1>3 DEF SplitType, FileType, CallType, PinType, PlaceType
<1>5. SourceCalls'
  BY <1>1, <1>2, IdleIs DEF SourceCalls
<1>6. OrderInv'
  BY <1>1, <1>3, OrderStays DEF OrderInv, SamePin
<1> QED
  BY <1>4, <1>5, <1>6

LEMMA SourceSeekStoppedKeeps ==
  ASSUME SourceInv, NEW p \in Tracks, NEW t \in SeekTimes, SourceSetPositionsStopped(p, t)
  PROVE  SourceInv' /\ SeekDone(p, t) /\ ("video" \in connected => Found(p))
<1> USE DEF SourceInv, fileVars, parseVars, splitOnly, pinEvents
<1>0. Clusters \in Nat /\ t \in Int
  BY SplitAssumption
<1>1. /\ UNCHANGED <<fileVars, state, app, splitOnly, th, committed, sample, sent>>
      /\ p \in connected /\ SourceSetCurrPosition(p, t) /\ \A q \in Tracks : th[q] = "none"
  BY DEF SourceSetPositionsStopped, SourceCalls
<1>2. \A q : BlocksOf(q)' = BlocksOf(q)
  BY <1>1, SameBlocks DEF SameFile
<1>3. SeekDone(p, t) /\ ("video" \in connected => Found(p))
  BY <1>0, <1>1, SourceSeekEffect DEF SplitType
<1>4. FileType' /\ CallType'
  BY <1>0, <1>1, <1>3 DEF SplitType, FileType, CallType, EOS, Null, SeekDone
<1>5. /\ curr' \in [Tracks -> Int] /\ base' \in [Tracks -> Int]
      /\ curr'[p] \in BlocksOf(p) \cup {Null, EOS}
      /\ \A q \in Tracks \ {p} : curr'[q] = curr[q]
  BY <1>0, <1>3, SeekTypes DEF SplitType
<1>6. PinType' /\ PlaceType'
  BY <1>1, <1>2, <1>5 DEF SplitType, PinType, PlaceType, EOS, Null
<1>7. SourceCalls'
  BY <1>1 DEF SourceCalls
<1>8. OrderInv'
  BY <1>1, OrderEnds DEF OrderInv
<1> QED
  BY <1>3, <1>4, <1>6, <1>7, <1>8 DEF SplitType

LEMMA SourceSeekKeeps ==
  ASSUME SourceInv, NEW p, NEW t, p = app.pin, t = app.t, SourceSeekAndRestart
  PROVE  /\ SourceInv' /\ p \in connected /\ t \in Int
         /\ SeekDone(p, t) /\ ("video" \in connected => Found(p))
<1> USE DEF SourceInv, fileVars, pinEvents
<1>0. /\ p \in connected /\ p \in Tracks /\ t \in Int /\ state = "active"
      /\ Clusters \in Nat /\ loaded \in 0 .. Clusters /\ app.op = "joinSeek"
  BY SplitAssumption DEF SourceSeekAndRestart, SourceCalls, SplitType, FileType, CallType, Calling
<1>1. /\ UNCHANGED <<fileVars, state, parser, starvation, committed>>
      /\ app' = Idle /\ SourceSetCurrPosition(p, t) /\ StartThreads({p})
  BY DEF SourceSeekAndRestart
<1>2. SameFile /\ \A q : BlocksOf(q)' = BlocksOf(q)
  BY <1>1, SameBlocks DEF SameFile
<1>3. SeekDone(p, t) /\ ("video" \in connected => Found(p))
  BY <1>0, <1>1, SourceSeekEffect DEF SplitType
<1>4. FileType' /\ CallType'
  <2>1. loaded' \in 0 .. Clusters
    BY <1>0, <1>3 DEF SeekDone
  <2> QED
    BY <1>1, <1>3, <2>1, IdleIs DEF SplitType, FileType, CallType, EOS, Null, SeekDone
<1>5. /\ curr' \in [Tracks -> Int] /\ base' \in [Tracks -> Int]
      /\ curr'[p] \in BlocksOf(p) \cup {Null, EOS}
      /\ \A q \in Tracks \ {p} : curr'[q] = curr[q] /\ base'[q] = base[q]
  BY <1>0, <1>3, SeekTypes DEF SplitType
<1>6. /\ th' \in [Tracks -> Threads] /\ sample' \in [Tracks -> Int] /\ sent' \in [Tracks -> Int]
      /\ hStop' \in [Tracks -> BOOLEAN] /\ hNewCluster' \in [Tracks -> BOOLEAN]
      /\ th'[p] = "count" /\ sent'[p] = Null
      /\ \A q \in Tracks \ {p} : th'[q] = th[q] /\ sample'[q] = sample[q] /\ sent'[q] = sent[q]
  BY <1>0, <1>1 DEF StartThreads, SplitType, PinType, Threads, Null
<1>7. PinType' /\ PlaceType'
  <2>1. PinType'
    BY <1>1, <1>5, <1>6 DEF SplitType, PinType
  <2>2. ASSUME NEW q \in Tracks
        PROVE  /\ curr'[q] \in BlocksOf(q) \cup {Null, EOS}
               /\ th'[q] \in {"buffers", "populate"} => curr'[q] \in BlocksOf(q)
    BY <1>5, <1>6 DEF SplitType, PlaceType
  <2> QED
    BY <1>2, <2>1, <2>2 DEF PlaceType, EOS, Null
<1>8. SourceCalls'
  <2>1. \A q \in Tracks : th'[q] # "wait" /\ (th'[q] # "none" => q \in connected)
    BY <1>0, <1>6 DEF SourceCalls
  <2> QED
    BY <1>0, <1>1, <2>1, IdleIs DEF SourceCalls
<1>9. OrderInv'
  <2>1. PinOrder(p)'
    BY <1>0, <1>6, OrderEnds
  <2>2. ASSUME NEW q \in Tracks \ {p} PROVE PinOrder(q)'
    BY <1>2, <1>5, <1>6, OrderStays DEF OrderInv, SamePin
  <2> QED
    BY <2>1, <2>2 DEF OrderInv
<1> QED
  BY <1>0, <1>3, <1>4, <1>7, <1>8, <1>9 DEF SplitType

-----------------------------------------------------------------------------
(***************************************************************************)
(* The file source's threads.                                              *)
(***************************************************************************)
LEMMA SourceInvStep ==
  ASSUME SourceInv, [SourceNext]_svars
  PROVE  SourceInv'
<1>1. CASE SourceApplication
  <2>1. CASE SourceSeekAndRestart
    BY <2>1, SourceSeekKeeps
  <2> QED
    BY <1>1, <2>1, SourcePauseKeeps, SourceStopKeeps, SourceSetPositionsKeeps, SourceSeekStoppedKeeps
       DEF SourceApplication
<1>2. CASE \E p \in Tracks : SourcePinThread(p)
  BY <1>2, SourcePinSteps, SourcePinKeeps DEF SourceInv
<1>3. CASE UNCHANGED svars
  <2> USE <1>3 DEF svars, fileVars, parseVars, seekVars, streamVars, pinEvents, pinVars
  <2>1. SameFile /\ \A q : BlocksOf(q)' = BlocksOf(q)
    BY SameBlocks DEF SameFile
  <2>2. SplitType'
    BY <2>1 DEF SourceInv, SplitType, FileType, CallType, PinType, PlaceType
  <2>3. SourceCalls'
    BY DEF SourceInv, SourceCalls
  <2>4. OrderInv'
    BY <2>1, OrderStays DEF SourceInv, OrderInv, SamePin
  <2> QED
    BY <2>2, <2>3, <2>4 DEF SourceInv
<1> QED
  BY <1>1, <1>2, <1>3 DEF SourceNext

(* The inductive invariant holds in every behaviour of the file source.    *)
THEOREM SourceInvariance == SourceSpec => []SourceInv
<1>1. SourceInit => SourceInv
  <2> SUFFICES ASSUME SourceInit PROVE SourceInv
    OBVIOUS
  <2>1. SplitInv
    BY SplitInvInit DEF SourceInit
  <2>2. SourceCalls
    BY DEF SourceInit, SplitInit, SourceCalls, Idle, NoPins
  <2> QED
    BY <2>1, <2>2 DEF SplitInv, SourceInv
<1>2. SourceInv /\ [SourceNext]_svars => SourceInv'
  BY SourceInvStep
<1> QED
  BY <1>1, <1>2, PTL DEF SourceSpec

(* When the file source's Stop has completed all threads have stopped, a   *)
(* pin's thread runs only while its allocator is committed or the          *)
(* application waits for it, and nobody sleeps (Filter::Stop,              *)
(* Outpin::Final, Outpin::Main of src/webmsource).                         *)
THEOREM SourceThreadsAreRight == SourceSpec => []ThreadsInv
<1>1. SourceInv => ThreadsInv
  <2> SUFFICES ASSUME SourceInv PROVE ThreadsInv
    OBVIOUS
  <2> USE DEF SourceInv, SplitType
  <2>1. SplitTypeOK
    <3>1. ASSUME NEW p \in Tracks PROVE curr[p] \in Null .. EOS
      <4>1. curr[p] \in BlocksOf(p) \cup {Null, EOS} /\ Clusters \in Nat /\ EOS = Clusters + 1 /\ Null = 0
        BY SplitAssumption DEF PlaceType, EOS, Null
      <4>2. \A c \in BlocksOf(p) : c \in Null .. EOS
        BY <4>1, BlocksAre
      <4> QED
        BY <4>1, <4>2
    <3> QED
      BY <3>1 DEF SplitTypeOK, FileType, CallType, PinType, PlaceType, Threads, Parsers
  <2>2. NoThreadWhenStopped
    <3>1. state = "stopped" => parser = "none" /\ th = NoPins("none")
      BY DEF SourceCalls, PinType, NoPins
    <3>2. ASSUME NEW p \in Tracks, th[p] # "none", ~committed[p]
          PROVE  p \in connected /\ app = [Idle EXCEPT !.op = "joinPin", !.pin = p]
      <4>1. p \in connected /\ app.op = "joinPin"
        BY <3>2 DEF SourceCalls, CallType
      <4>2. app.pin = p
        BY <3>2, <4>1 DEF SourceCalls, FileType, Tracks
      <4>3. app.t = NoSeek /\ app.timed = FALSE
        BY <4>1 DEF SourceCalls
      <4> DEFINE joining == [Idle EXCEPT !.op = "joinPin", !.pin = p]
      <4>4. /\ joining \in Calling /\ joining.op = "joinPin" /\ joining.pin = p
            /\ joining.t = NoSeek /\ joining.timed = FALSE
        BY IdleIs
      <4> HIDE DEF joining
      <4>5. app \in Calling
        BY DEF CallType
      <4>6. app = joining
        BY ONLY <4>1, <4>2, <4>3, <4>4, <4>5 DEF Calling
      <4> QED
        BY <4>1, <4>6 DEF joining
    <3> QED
      BY <3>1, <3>2 DEF NoThreadWhenStopped, SourceCalls, PinType
  <2>3. StarvingPinIsTold /\ GetStateIsTold
    BY DEF SourceCalls, StarvingPinIsTold, GetStateIsTold
  <2> QED
    BY <2>1, <2>2, <2>3 DEF ThreadsInv
<1> QED
  BY <1>1, SourceInvariance, PTL

(* A pin of the file source delivers the blocks of its track one after the *)
(* other, none before the base time, and ends the stream only after the    *)
(* last one, though it loads the clusters itself while the other pin and a *)
(* seek load them too (Outpin::Main, PopulateSamples of src/webmsource).   *)
THEOREM SourceDeliveryInOrder == SourceSpec => DeliveredInOrder
<1>1. ASSUME SourceInv, [SourceNext]_svars PROVE [DeliversInOrder]_svars
  <2> SUFFICES ASSUME NEW p \in Tracks
               PROVE  /\ sent'[p] \notin {sent[p], Null} =>
                           /\ Time(p, sent'[p]) >= base[p]
                           /\ sent[p] # Null => sent'[p] > sent[p] /\ NoneBetween(p, sent[p], sent'[p])
                      /\ EndOfStream(p) /\ sent[p] # Null => NoneBetween(p, sent[p], EOS)
    BY DEF DeliversInOrder
  <2>0. PinOrder(p) /\ sent \in [Tracks -> Int] /\ sample \in [Tracks -> Int]
    BY <1>1 DEF SourceInv, SplitType, PinType, OrderInv
  <2>1. ASSUME EndOfStream(p), sent[p] # Null PROVE NoneBetween(p, sent[p], EOS)
    BY <2>0, <2>1 DEF EndOfStream, PinOrder, Follows
  <2>2. ASSUME sent'[p] \notin {sent[p], Null} PROVE Receive(p)
    <3>1. CASE SourceApplication
      BY <2>2, <3>1 DEF SourceApplication, SourcePauseOrRun, StartThreads, SourceStop, SourceStopNextPin,
         SourceStopReturns, StreamInit, SourceSetPositionsStopped, SourceSetPositions,
         SourceSeekAndRestart, streamVars
    <3>2. CASE \E q \in Tracks : SourcePinThread(q)
      <4>1. PICK q \in Tracks : SourcePinThread(q)
        BY <3>2
      <4>2. Receive(q)
        BY <1>1, <2>2, <4>1, SourcePinSteps DEF SourceInv
      <4> QED
        BY <2>0, <2>2, <4>2 DEF Receive
    <3>3. CASE UNCHANGED svars
      BY <2>2, <3>3 DEF svars, pinVars, streamVars
    <3> QED
      BY <1>1, <3>1, <3>2, <3>3 DEF SourceNext
  <2>3. ASSUME Receive(p)
        PROVE  /\ Time(p, sent'[p]) >= base[p]
               /\ sent[p] # Null => sent'[p] > sent[p] /\ NoneBetween(p, sent[p], sent'[p])
    <3>1. th[p] = "deliver" /\ sent'[p] = sample[p]
      BY <2>0, <2>3 DEF Receive
    <3> QED
      BY <2>0, <3>1 DEF PinOrder, Follows
  <2> QED
    BY <2>1, <2>2, <2>3
<1> QED
  BY <1>1, SourceInvariance, PTL DEF SourceSpec, DeliveredInOrder

(* Stop takes the pins it puts back out of the group.                      *)
LEMMA SourceBaseStopped ==
  ASSUME SplitType, BaseInv, NEW p \in Tracks, StreamInit(p), UNCHANGED <<blocks, connected>>
  PROVE  BaseInv'
<1>1. /\ UNCHANGED <<currTime, seekBase, seekBaseNs>>
      /\ group'.t = group.t /\ group'.pins = group.pins \ {p}
      /\ \A q \in Tracks \ {p} : curr'[q] = curr[q] /\ base'[q] = base[q]
  <2>1. group' = [group EXCEPT !.pins = @ \ {p}]
    BY DEF StreamInit
  <2> QED
    BY <2>1 DEF StreamInit, SplitType, PinType
<1> QED
  BY <1>1 DEF BaseInv, HasBase, FirstTime, SplitType, FileType

LEMMA SourceBaseStep ==
  ASSUME SourceInv, BaseInv, [SourceNext]_svars
  PROVE  BaseInv'
<1> USE DEF fileVars, seekVars, streamVars, pinVars, SourceInv
<1>1. CASE \E p \in Tracks : SourcePinThread(p)
  <2>1. PICK p \in Tracks : SourcePinThread(p)
    BY <1>1
  <2>2. SourcePinStep(p) /\ (GoesOn(p) \/ UNCHANGED <<curr, base>>)
    BY <2>1, SourcePinSteps
  <2>3. CASE GoesOn(p)
    BY <2>3, BaseGoesOn DEF SplitType
  <2>4. CASE UNCHANGED <<curr, base>>
    <3>1. AllUnmoved
      BY <2>2, <2>4 DEF SourcePinStep, AllUnmoved
    <3> QED
      BY <3>1, BaseStays
  <2> QED
    BY <2>2, <2>3, <2>4
<1>2. CASE SourcePauseOrRun \/ SourceStop
           \/ (\E p \in Tracks, t \in SeekTimes : SourceSetPositions(p, t)) \/ UNCHANGED svars
  <2>1. AllUnmoved
    BY <1>2 DEF AllUnmoved, SourcePauseOrRun, SourceStop, SourceSetPositions, svars
  <2> QED
    BY <2>1, BaseStays
<1>3. CASE SourceStopNextPin
  <2>1. StreamInit("video") /\ UNCHANGED <<blocks, connected>> /\ "video" \in Tracks
    BY <1>3 DEF SourceStopNextPin, Tracks
  <2> QED
    BY <2>1, SourceBaseStopped
<1>4. CASE SourceStopReturns
  <2>1. StreamInit(app.pin) /\ UNCHANGED <<blocks, connected>> /\ app.pin \in Tracks
    BY <1>4 DEF SourceStopReturns, SourceCalls, SplitType, FileType
  <2> QED
    BY <2>1, SourceBaseStopped
<1>5. CASE \E p \in Tracks, t \in SeekTimes : SourceSetPositionsStopped(p, t)
  <2>1. PICK p \in Tracks, t \in SeekTimes : SourceSetPositionsStopped(p, t)
    BY <1>5
  <2>2. p \in connected /\ t \in Int /\ Sought(p, t) /\ UNCHANGED <<blocks, connected>>
    BY <2>1, SplitAssumption DEF SourceSetPositionsStopped
  <2>3. SeekDone(p, t) /\ ("video" \in connected => Found(p))
    BY <2>1, SourceSeekStoppedKeeps
  <2> QED
    BY <2>2, <2>3, BaseFound
<1>6. CASE SourceSeekAndRestart
  <2>1. PICK p, t : p = app.pin /\ t = app.t
    OBVIOUS
  <2>2. /\ p \in connected /\ t \in Int
        /\ SeekDone(p, t) /\ ("video" \in connected => Found(p))
    BY <1>6, <2>1, SourceSeekKeeps
  <2>3. Sought(p, t) /\ UNCHANGED <<blocks, connected>>
    BY <1>6, <2>1 DEF SourceSeekAndRestart
  <2> QED
    BY <2>2, <2>3, BaseFound
<1> QED
  BY <1>1, <1>2, <1>3, <1>4, <1>5, <1>6 DEF SourceNext, SourceApplication

(* "All pins have the same base time", of the file source: pins sought to  *)
(* the same time one after the other start from the same base, in every    *)
(* file, for a search of the file source always finds a block or the end   *)
(* (Filter::SetCurrPosition of src/webmsource).                            *)
THEOREM SourceSameBase == SourceSpec => []SameBase
<1>1. SourceInit => BaseInv
  BY DEF SourceInit, SplitInit, BaseInv
<1>2. SourceInv /\ BaseInv /\ [SourceNext]_svars => BaseInv'
  BY SourceBaseStep
<1>3. SourceInv /\ BaseInv => SameBase
  <2> SUFFICES ASSUME SourceInv, BaseInv, NEW p \in group.pins, NEW q \in group.pins
               PROVE  base[p] = base[q] \/ curr[p] = Null \/ curr[q] = Null
    BY DEF SameBase
  <2>1. CASE "video" \in connected
    BY <2>1 DEF BaseInv, HasBase
  <2>2. CASE "video" \notin connected
    <3>1. p = q
      BY <2>2 DEF BaseInv, SourceInv, SplitType, FileType, Tracks
    <3> QED
      BY <3>1
  <2> QED
    BY <2>1, <2>2
<1> QED
  BY <1>1, <1>2, <1>3, SourceInvariance, PTL DEF SourceSpec

=============================================================================
