---------------------------- MODULE MCPoolAndOgg ----------------------------
(* The sample pool and the Ogg source for TLC.  They share nothing here,   *)
(* so that a behaviour is of one of the two; before one of the pool, the   *)
(* file is of no account.                                                  *)
EXTENDS SamplePool, OggSource

CONSTANTS s1, s2, s3, g1

ThreeSamples == {s1, s2, s3}
OneGetter    == {g1}

(* Ogg files: two header packets and one to three of audio, in up to five  *)
(* segments, on pages of at most three; the short ones also with a page of *)
(* another stream, without one of their pages, or cut short in the last.   *)
Lacings ==
  {l \in UNION {[1 .. n -> {"full", "less"}] : n \in 3 .. 5} :
     Last(l) = "less" /\ Cardinality({i \in DOMAIN l : l[i] = "less"}) \in 3 .. 5}

PageEnds(l) ==
  {E \in SUBSET DOMAIN l :
     Len(l) \in E /\ \A i \in 1 .. Len(l) - 2 : E \cap i .. i + 2 # {}}

Starts(E, e) == CHOOSE s \in 1 .. e : E \cap s .. e - 1 = {} /\ (s = 1 \/ s - 1 \in E)
PacketsBy(l, e) == Cardinality({i \in 1 .. e : l[i] = "less"})

FirstPage(b) ==
  [mine |-> b = "vorbis", bos |-> b, num |-> 0, continued |-> FALSE, eos |-> FALSE,
   gran |-> 0, lacing |-> <<"less">>, first |-> 0, cut |-> "no"]

Foreign == FirstPage("no")

DataPage(l, E, e) ==
  LET s == Starts(E, e) IN
  [mine |-> TRUE, bos |-> "no", num |-> Cardinality(E \cap 1 .. e),
   continued |-> s > 1 /\ l[s - 1] = "full", eos |-> e = Len(l),
   gran |-> IF \A i \in s .. e : l[i] = "full" THEN -1
            ELSE IF PacketsBy(l, e) <= 2 THEN 0
            ELSE 3 * (PacketsBy(l, e) - 2) - (IF e = Len(l) THEN 1 ELSE 0),
   lacing |-> SubSeq(l, s, e), first |-> s, cut |-> "no"]

PagesOf(l, E) ==
  LET ends == SetToSortSeq(E, LAMBDA a, b : a < b)
  IN  <<FirstPage("vorbis")>> \o [k \in DOMAIN ends |-> DataPage(l, E, ends[k])]

Variants(p) ==
  {<<FirstPage("other")>> \o p, <<Foreign>> \o p, Tail(p), InsertAt(p, Len(p), Foreign)}
    \cup {RemoveAt(p, i) : i \in 2 .. Len(p)}
    \cup {[p EXCEPT ![Len(p)].cut = c] : c \in {"pattern", "fields"}}

SomeFiles ==
  UNION {UNION {{[lacing |-> l, pages |-> p] :
                   p \in {PagesOf(l, E)}
                           \cup IF Len(l) > 4 THEN {} ELSE Variants(PagesOf(l, E))} :
                  E \in PageEnds(l)} : l \in Lacings}

-----------------------------------------------------------------------------
OnePage   == <<"less", "less", "less">>
OggUnused ==
  /\ oggState = "unloaded" /\ ~oggDisc
  /\ file = [lacing |-> OnePage, pages |-> PagesOf(OnePage, {3})]

\* no call yet, and the owner keeps its reference: the initial states alone
PoolUnused == owned /\ calls = 0

PoolAndOggInit == PoolInit /\ OggInit

PoolAndOggNext ==
  \/ OggUnused /\ PoolNext /\ UNCHANGED oggVars
  \/ PoolUnused /\ OggNext /\ UNCHANGED pvars

PoolAndOggSpec ==
  /\ PoolAndOggInit /\ [][PoolAndOggNext]_<<pvars, oggVars>>
  /\ PoolFairness /\ OggFairness
=============================================================================
