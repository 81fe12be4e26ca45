---------------------------- MODULE AsyncReader -----------------------------
(***************************************************************************)
(* The page cache of the Media Foundation source: class MkvReader of       *)
(* src/mediafoundation/webmmfsource/mkvreader.cc, with the worker thread   *)
(* of webmmfsource.cc that asks it for one range of the file at a time and *)
(* the streams that keep the pages of their current block locked.          *)
(*                                                                         *)
(* The reader is one record, `file'; its methods are operators that take   *)
(* the record and give it back, or the results they may have.  m_cache, a  *)
(* deque that is kept by position, is the set of its pages.  Commands and  *)
(* the callback of a read each run under the source's lock and are one     *)
(* action; a request that loads several blocks is a step for each, and no  *)
(* other thread takes one in between.  `base' and `missed' are history     *)
(* variables.                                                              *)
(***************************************************************************)
EXTENDS Integers, Sequences, FiniteSets

CONSTANTS
  Tracks,       \* the streams
  NoTrack,      \* none of them
  TrackBlocks,  \* the blocks of each, in order: [start, size, cluster]
  SampleBlocks, \* blocks in a sample: 1 for video, more for audio
  PageBytes,    \* m_info.dwPageSize
  RegionPages,  \* dwAllocationGranularity \div dwPageSize
  FileSizes,    \* lengths the file may have
  PurgeMax,     \* max_count of Purge (16)
  Peeks,        \* ranges the parser asks for: [start, size]
  IoMayFail,    \* calls of the byte stream may fail
  MaxSeeks,     \* starts, seeks and stops
  MaxPeeks      \* calls of the parser

ASSUME ReaderAssumption ==
  /\ NoTrack \notin Tracks /\ IsFiniteSet(Tracks)
  /\ PageBytes \in Nat \ {0} /\ RegionPages \in Nat \ {0} /\ PurgeMax \in Nat \ {0}
  /\ FileSizes \subseteq Nat \ {0} /\ IoMayFail \in BOOLEAN
  /\ Peeks \subseteq [start : Nat, size : Nat \ {0}]
  /\ \A t \in Tracks :
       /\ SampleBlocks[t] \in Nat \ {0}
       /\ TrackBlocks[t] \in Seq([start : Nat, size : Nat \ {0}, cluster : Nat])
       /\ \A i \in DOMAIN TrackBlocks[t] : LET b == TrackBlocks[t][i] IN
            /\ b.cluster <= b.start /\ \A n \in FileSizes : b.start + b.size <= n
            /\ \A j \in 1 .. i : TrackBlocks[t][j].cluster <= b.cluster

VARIABLES
  total,   \* the length of the file
  file,    \* the reader: its pages, m_free_pages, m_cache, m_length, m_avail,
           \* m_async_pos, m_async_len, and the position of the byte stream
  index,   \* m_curr of each stream: a block, 0 while deselected
  pinned,  \* m_pLocked # 0
  extent,  \* blocks of the next sample that GetSampleExtent is done with
  front,   \* the stream of m_requests.front() while it is being served
  worker,  \* m_thread_state: "request", "load" (the same, with the lock), "read",
           \* "cancel" or "quit"
  goal,    \* m_async_state: "ahead", "parse", "extent" or "lock"
  io,      \* the read: "none", "pending", "aborted" by a seek, or m_hrStatus
  base,    \* where the last seek went
  missed,  \* LockPage or Read has not found a page
  down,    \* m_pEvents = 0
  seeks, peeks

places     == <<index, pinned, extent, front>>
thread     == <<worker, goal, io>>
readerVars == <<total, file, places, thread, base, missed, down, seeks, peeks>>

-----------------------------------------------------------------------------
(***************************************************************************)
(* Pages and bytes.                                                        *)
(***************************************************************************)
Least(S)    == CHOOSE x \in S : \A y \in S : x <= y
Greatest(S) == CHOOSE x \in S : \A y \in S : x >= y

KeyOf(x)       == PageBytes * (x \div PageBytes)
KeysOf(p, e)   == {KeyOf(x) : x \in p .. e - 1}
BlockEnd(b)    == b.start + b.size
Blank          == [at |-> -1, size |-> 0, ref |-> 0]
DataEnd(f, i)  == f.slots[i].at + f.slots[i].size
ByteThere(f, x) == \E i \in f.cache : f.slots[i].at <= x /\ x < DataEnd(f, i)
AllThere(f, b) == \A x \in b.start .. BlockEnd(b) - 1 : ByteThere(f, x)

Lists(f, free, cache) == [f EXCEPT !.free = free, !.cache = cache]
NoRange(f)       == [f EXCEPT !.pos = -1, !.len = -1]
AvailAtLeast(f, S) == [f EXCEPT !.avail = Greatest({@} \cup S)]

-----------------------------------------------------------------------------
(***************************************************************************)
(* AsyncReadPage, for a page that is neither cached nor free: the first    *)
(* free page, of a new region if there is none, is read at key k.  Blank   *)
(* pages are interchangeable.                                              *)
(***************************************************************************)
CreateRegion(f) ==
  LET n   == Cardinality(DOMAIN f.slots)
      new == n + 1 .. n + RegionPages
  IN IF f.free # {} THEN f
     ELSE [f EXCEPT !.slots = [i \in DOMAIN @ \cup new |-> IF i \in new THEN Blank ELSE @[i]],
                    !.free  = new]

FirstFree(f) ==
  Least({i \in f.free : \A j \in f.free : f.slots[i].at <= f.slots[j].at})

(* Mutated form of AsyncReadPage: the page stays in the multimap.          *)
AsyncReadPageStillFree(f, k) ==
  LET g == CreateRegion(f)
      i == FirstFree(g)
      h == [g EXCEPT !.slots[i] = [at |-> k, size |-> 0, ref |-> -1], !.at = k]
  IN Lists(h, h.free, h.cache \cup {i})

AsyncReadPage(f, k) ==
  LET g == CreateRegion(f)
      i == FirstFree(g)
      h == [g EXCEPT !.slots[i] = [at |-> k, size |-> 0, ref |-> -1], !.at = k]
  IN Lists(h, h.free \ {i}, h.cache \cup {i})

(***************************************************************************)
(* AsyncReadContinue: from m_async_pos on it passes over pages that are    *)
(* cached and takes back those that are free but still hold what is        *)
(* wanted, up to the first one it has to read.  If there is none the       *)
(* request is complete, and the stream is moved behind the last page.      *)
(***************************************************************************)
AsyncReadContinue(f) ==
  LET end    == f.pos + f.len
      keys   == KeysOf(f.pos, end)
      held   == {f.slots[i].at : i \in f.cache \cup f.free}
      gaps   == keys \ held
      stop   == IF gaps = {} THEN end ELSE Least(gaps)
      passed == {k \in keys : k < stop}
      reused == {i \in f.free : f.slots[i].at \in passed}
      before == {f.slots[i].at : i \in f.cache} \cap 0 .. f.pos
      seen   == passed \cup (IF before = {} THEN {} ELSE {Greatest(before)})
      g      == Lists(f, f.free \ reused, f.cache \cup reused)
      ends   == {DataEnd(g, i) : i \in {j \in g.cache : g.slots[j].at \in seen}}
      h      == AvailAtLeast(g, ends)
      pos    == Greatest({h.pos, stop})
      moved  == [h EXCEPT !.pos = pos, !.len = end - pos]
  IN IF gaps = {}
     THEN {[hr |-> "ok", file |-> NoRange([h EXCEPT !.at = Greatest({@} \cup ends)])]}
     ELSE {[hr |-> "more", file |-> AsyncReadPage(moved, stop)]}
          \cup (IF IoMayFail THEN {[hr |-> "fail", file |-> moved]} ELSE {})

(***************************************************************************)
(* AsyncReadInit: nothing to do at the end of the file; otherwise the      *)
(* range is cut at the end, and begins where the stream is if that is      *)
(* before it, since the source may be slow to seek.                        *)
(***************************************************************************)
(* Mutated form of AsyncReadInit: it reads from where it is asked to.      *)
AsyncReadInitUnpadded(f, r) ==
  IF f.length >= 0 /\ r.start >= f.length
  THEN {[hr |-> "ok", file |-> [f EXCEPT !.avail = f.length]]}
  ELSE LET end == IF f.length >= 0 THEN Least({BlockEnd(r), f.length}) ELSE BlockEnd(r)
       IN AsyncReadContinue([f EXCEPT !.pos = r.start, !.len = end - r.start])

AsyncReadInit(f, r) ==
  IF f.length >= 0 /\ r.start >= f.length
  THEN {[hr |-> "ok", file |-> [f EXCEPT !.avail = f.length]]}
  ELSE LET end == IF f.length >= 0 THEN Least({BlockEnd(r), f.length}) ELSE BlockEnd(r)
           pos == Least({r.start, f.at})
       IN AsyncReadContinue([f EXCEPT !.pos = pos, !.len = end - pos])
          \cup (IF IoMayFail THEN {[hr |-> "fail", file |-> f]} ELSE {})

(***************************************************************************)
(* AsyncReadCompletion.  A short page ends the file if its length was not  *)
(* known; nothing at all is success, without a page.  A page that could    *)
(* not be read, or of a file that is shorter than it said, is an error.    *)
(***************************************************************************)
PageRead(f) ==
  CHOOSE i \in f.cache :
    /\ f.slots[i].at <= f.pos
    /\ \A j \in f.cache : f.slots[j].at <= f.pos => f.slots[j].at <= f.slots[i].at

(* Mutated form of DropPage: the page keeps its position.                  *)
DropPageKeyed(f, i) ==
  NoRange(Lists([f EXCEPT !.slots[i].ref = 0], f.free \cup {i}, f.cache \ {i}))

DropPage(f, i) ==
  NoRange(Lists([f EXCEPT !.slots[i] = Blank], f.free \cup {i}, f.cache \ {i}))

AsyncReadCompletion(f) ==
  LET i      == PageRead(f)
      key    == f.slots[i].at
      n      == Greatest({0, Least({PageBytes, total - key})})
      length == IF n < PageBytes /\ f.length < 0 THEN key + n ELSE f.length
      end    == IF length >= 0 THEN Least({f.pos + f.len, length}) ELSE f.pos + f.len
      pos    == Least({end, key + n})
      g      == [AvailAtLeast(f, {key + n}) EXCEPT
                   !.slots[i] = [at |-> key, size |-> n, ref |-> 0],
                   !.length = length, !.pos = pos, !.len = end - pos,
                   !.at = IF io = "aborted" THEN @ ELSE key + n]
  IN {IF n = 0 THEN [hr |-> "ok", file |-> DropPage([f EXCEPT !.length = length], i)]
      ELSE IF pos < end THEN [hr |-> "more", file |-> g]
      ELSE [hr |-> "ok", file |-> NoRange(g)]}
     \cup (IF IoMayFail \/ io = "aborted"
           THEN {[hr |-> "fail", file |-> DropPage(f, i)]} ELSE {})

-----------------------------------------------------------------------------
(***************************************************************************)
(* LockPage and UnlockPage count the pages of a block; Purge gives up      *)
(* pages from the front, up to a locked one or the one with position p.    *)
(***************************************************************************)
PagesOf(f, b) == {i \in f.cache : f.slots[i].at \in KeysOf(b.start, BlockEnd(b))}

Recount(s, n) == [s EXCEPT !.ref = @ + n]

Counted(f, b, n) ==
  [f EXCEPT !.slots = [i \in DOMAIN @ |->
     IF i \in PagesOf(f, b) THEN Recount(@[i], n) ELSE @[i]]]

UpTo(f, i) == {j \in f.cache : f.slots[j].at <= f.slots[i].at}

(* Mutated form of Expendable: the page that p is on goes too.             *)
ExpendableToo(f, p) ==
  {i \in f.cache :
     /\ Cardinality(UpTo(f, i)) <= PurgeMax
     /\ \A j \in UpTo(f, i) : f.slots[j].ref = 0 /\ f.slots[j].at <= p}

Expendable(f, p) ==
  {i \in f.cache :
     /\ Cardinality(UpTo(f, i)) <= PurgeMax
     /\ \A j \in UpTo(f, i) : f.slots[j].ref = 0 /\ DataEnd(f, j) <= p}

Purge(f, p) == Lists(f, f.free \cup Expendable(f, p), f.cache \ Expendable(f, p))

Block(t)    == TrackBlocks[t][index[t]]
Deselected(t) == index[t] = 0
AtEOS(t)    == index[t] > Len(TrackBlocks[t])

(* The streams let go of what they have locked.                            *)
UnlockAll(f) ==
  [f EXCEPT !.slots = [i \in DOMAIN @ |->
     Recount(@[i], -Cardinality({t \in Tracks : pinned[t] /\ i \in PagesOf(f, Block(t))}))]]

-----------------------------------------------------------------------------
(***************************************************************************)
(* PurgeCache: the pages before the first cluster a selected stream is in, *)
(* once the stream is at block n.                                          *)
(***************************************************************************)
PositionsOf(next) ==
  {TrackBlocks[t][next[t]].cluster :
     t \in {u \in Tracks : next[u] \in DOMAIN TrackBlocks[u]}}

PurgeCache(f, next) ==
  IF PositionsOf(next) = {} THEN f ELSE Purge(f, Least(PositionsOf(next)))

Quit(f) ==
  /\ worker' = "quit" /\ file' = f
  /\ UNCHANGED <<goal, io>>

Reading(f, what) ==
  /\ worker' = "read" /\ goal' = what /\ io' = "pending" /\ file' = f

ReaderInit ==
  /\ total \in FileSizes
  /\ \E n \in {total, -1} :
       file = [slots |-> <<>>, free |-> {}, cache |-> {}, length |-> n, avail |-> 0,
               pos |-> -1, len |-> -1, at |-> 0]
  /\ index = [t \in Tracks |-> 0]
  /\ pinned = [t \in Tracks |-> FALSE] /\ extent = [t \in Tracks |-> 0]
  /\ front = NoTrack /\ worker = "request" /\ goal = "parse" /\ io = "none"
  /\ base = 0 /\ missed = FALSE /\ down = FALSE /\ seeks = 0 /\ peeks = 0

(***************************************************************************)
(* A call of the parser that lacks bytes: for the request in front, or,    *)
(* when there is none, ahead of time.  No stream needs what lies before    *)
(* the cluster it is in.                                                   *)
(***************************************************************************)
Parse(r, t) ==
  /\ worker = "request" /\ ~down /\ front \in {NoTrack, t}
  /\ peeks < MaxPeeks /\ peeks' = peeks + 1
  /\ PositionsOf(index) # {} /\ Least(PositionsOf(index)) <= r.start /\ r.start <= total
  /\ t # NoTrack => index[t] \in DOMAIN TrackBlocks[t]
  /\ front' = t
  /\ \E res \in AsyncReadInit(file, r) :
       CASE res.hr = "ok"   -> file' = res.file /\ UNCHANGED thread
         [] res.hr = "more" -> Reading(res.file, IF t = NoTrack THEN "ahead" ELSE "parse")
         [] res.hr = "fail" -> Quit(res.file)
  /\ UNCHANGED <<total, index, pinned, extent, base, missed, down, seeks>>

(***************************************************************************)
(* OnRequestSample for the stream in front: the blocks of the sample are   *)
(* loaded, the current one is loaded and locked, and GetSample reads them, *)
(* unlocks the current one and moves on, up to a read that must be waited  *)
(* for.                                                                    *)
(***************************************************************************)
SampleOf(t) == index[t] .. Least({index[t] + SampleBlocks[t] - 1, Len(TrackBlocks[t])})

MoreExtents(t) == SampleBlocks[t] > 1 /\ index[t] + extent[t] \in SampleOf(t)

ToLoad(t) == IF MoreExtents(t) THEN TrackBlocks[t][index[t] + extent[t]] ELSE Block(t)

GetSample(t, f) ==
  LET next == [index EXCEPT ![t] = Greatest(SampleOf(t)) + 1]
      g    == IF pinned[t] THEN Counted(f, Block(t), -1) ELSE f
  IN /\ missed' = (missed \/ \E i \in SampleOf(t) : ~AllThere(f, TrackBlocks[t][i]))
     /\ index' = next /\ file' = PurgeCache(g, next)
     /\ pinned' = [pinned EXCEPT ![t] = FALSE] /\ extent' = [extent EXCEPT ![t] = 0]
     /\ front' = NoTrack /\ worker' = "request"
     /\ UNCHANGED <<goal, io>>

OnRequestSample(t) ==
  /\ worker = "request" /\ ~down /\ front \in {NoTrack, t}
  /\ index[t] \in DOMAIN TrackBlocks[t]
  /\ front' = t /\ worker' = "load"
  /\ UNCHANGED <<total, file, index, pinned, extent, goal, io, base, missed, down, seeks, peeks>>

Load(t, r) ==
  \/ /\ r.hr = "ok" /\ MoreExtents(t)
     /\ file' = r.file /\ extent' = [extent EXCEPT ![t] = @ + 1]
     /\ UNCHANGED <<index, pinned, front, thread, missed>>
  \/ r.hr = "ok" /\ ~MoreExtents(t) /\ GetSample(t, r.file)
  \/ /\ r.hr = "more" /\ Reading(r.file, IF MoreExtents(t) THEN "extent" ELSE "lock")
     /\ UNCHANGED <<places, missed>>
  \/ r.hr = "fail" /\ Quit(r.file) /\ UNCHANGED <<places, missed>>

LoadSample ==
  /\ worker = "load"
  /\ \/ /\ MoreExtents(front) \/ ~pinned[front]
        /\ \E r \in AsyncReadInit(file, ToLoad(front)) : Load(front, r)
     \/ ~MoreExtents(front) /\ pinned[front] /\ GetSample(front, file)
  /\ UNCHANGED <<total, base, down, seeks, peeks>>

(***************************************************************************)
(* ... for a stream that is at its end, or deselected, by now.             *)
(***************************************************************************)
DropRequest ==
  /\ worker = "request" /\ ~down /\ front # NoTrack
  /\ Deselected(front) \/ AtEOS(front)
  /\ front' = NoTrack
  /\ UNCHANGED <<total, file, index, pinned, extent, thread, base, missed, down, seeks, peeks>>

-----------------------------------------------------------------------------
(***************************************************************************)
(* CAsyncRead::Invoke: the read has ended.                                 *)
(***************************************************************************)
Invoke ==
  /\ io \in {"pending", "aborted"}
  /\ \E r \in AsyncReadCompletion(file) : file' = r.file /\ io' = r.hr
  /\ UNCHANGED <<total, places, worker, goal, base, missed, down, seeks, peeks>>

(***************************************************************************)
(* OnAsyncRead, and the state that goes on once all is in the cache.       *)
(***************************************************************************)
Continues(f) ==
  /\ worker' = "request" /\ io' = "none"
  /\ \/ /\ goal \in {"ahead", "parse"} /\ file' = f
        /\ UNCHANGED <<places, missed>>
     \/ /\ goal = "extent" /\ file' = f
        /\ extent' = [extent EXCEPT ![front] = @ + 1]
        /\ UNCHANGED <<index, pinned, front, missed>>
     \/ /\ goal = "lock"
        /\ IF AllThere(f, Block(front))
           THEN /\ file' = Counted(f, Block(front), 1)
                /\ pinned' = [pinned EXCEPT ![front] = TRUE]
                /\ UNCHANGED missed
           ELSE file' = f /\ missed' = TRUE /\ UNCHANGED pinned
        /\ UNCHANGED <<index, extent, front>>
  /\ UNCHANGED goal

OnAsyncRead ==
  /\ worker = "read" /\ io \in {"ok", "more", "fail"}
  /\ \/ /\ down /\ worker' = "request"
        /\ UNCHANGED <<file, places, goal, io, missed>>
     \/ ~down /\ io = "fail" /\ Quit(file) /\ UNCHANGED <<places, missed>>
     \/ ~down /\ io = "ok" /\ Continues(file)
     \/ /\ ~down /\ io = "more"
        /\ \E r \in AsyncReadContinue(file) :
             \/ r.hr = "ok" /\ Continues(r.file)
             \/ r.hr = "more" /\ Reading(r.file, goal) /\ UNCHANGED <<places, missed>>
             \/ r.hr = "fail" /\ Quit(r.file) /\ UNCHANGED <<places, missed>>
  /\ UNCHANGED <<total, base, down, seeks, peeks>>

(***************************************************************************)
(* A request interrupts a read that was ahead of time.                     *)
(***************************************************************************)
Interrupt ==
  /\ worker = "read" /\ goal = "ahead"
  /\ worker' = "cancel"
  /\ UNCHANGED <<total, file, places, goal, io, base, missed, down, seeks, peeks>>

(***************************************************************************)
(* StateAsyncCancel: what the read was for has gone; its page stays.       *)
(***************************************************************************)
(* Mutated form of AsyncReadCancel: the range is not forgotten.            *)
AsyncReadCancelled(f) == f

AsyncReadCancel(f) == NoRange(f)

Cancelled ==
  /\ worker = "cancel" /\ io \in {"ok", "more", "fail"}
  /\ worker' = "request" /\ io' = "none" /\ file' = AsyncReadCancel(file)
  /\ UNCHANGED <<total, places, goal, base, missed, down, seeks, peeks>>

-----------------------------------------------------------------------------
(***************************************************************************)
(* OnCommand for a start or a seek, to the cluster at position c, and for  *)
(* a stop, in any state of the thread: the streams unlock their pages, the *)
(* byte stream is moved, which succeeds, and a read in progress is aborted *)
(* if it can be, and waited for.  Invoke may be waiting for the lock with  *)
(* the result of it already: then the read succeeds after the seek.        *)
(***************************************************************************)
Moved(f, p, avail) == [UnlockAll(f) EXCEPT !.avail = avail, !.at = KeyOf(p)]

Interrupted ==
  /\ worker' = IF worker = "read" THEN "cancel" ELSE worker
  /\ io' = IF io = "pending" THEN "aborted" ELSE io
  /\ pinned' = [t \in Tracks |-> FALSE] /\ extent' = [t \in Tracks |-> 0]
  /\ seeks < MaxSeeks /\ seeks' = seeks + 1

FirstFrom(t, c) ==
  Least({i \in DOMAIN TrackBlocks[t] : TrackBlocks[t][i].cluster >= c}
        \cup {Len(TrackBlocks[t]) + 1})

ClusterStarts ==
  UNION {{TrackBlocks[t][i].cluster : i \in DOMAIN TrackBlocks[t]} : t \in Tracks}

OnStart(c) ==
  /\ worker \notin {"load", "quit"} /\ ~down /\ Interrupted
  /\ file' = Moved(file, c, IF c = Least(ClusterStarts) THEN 0 ELSE c)
  /\ index' = [t \in Tracks |-> FirstFrom(t, c)]
  /\ base' = c
  /\ UNCHANGED <<total, front, goal, missed, down, peeks>>

OnStop ==
  /\ worker \notin {"load", "quit"} /\ ~down /\ Interrupted
  /\ \E t \in Tracks : ~Deselected(t)
  /\ file' = Moved(file, 0, 0)
  /\ index' = [t \in Tracks |-> 0] /\ front' = NoTrack
  /\ base' = 0
  /\ UNCHANGED <<total, goal, missed, down, peeks>>

(***************************************************************************)
(* Shutdown, in another thread, and the worker's end.                      *)
(***************************************************************************)
Shutdown ==
  /\ worker # "load" /\ ~down /\ down' = TRUE
  /\ file' = UnlockAll(file)
  /\ pinned' = [t \in Tracks |-> FALSE]
  /\ io' = IF io = "pending" THEN "aborted" ELSE io
  /\ UNCHANGED <<total, index, extent, front, worker, goal, base, missed, seeks, peeks>>

WorkerEnds ==
  /\ worker = "request" /\ down
  /\ worker' = "quit"
  /\ UNCHANGED <<total, file, places, goal, io, base, missed, down, seeks, peeks>>

ReaderNext ==
  \/ \E r \in Peeks, t \in Tracks \cup {NoTrack} : Parse(r, t)
  \/ \E t \in Tracks : OnRequestSample(t)
  \/ LoadSample \/ DropRequest \/ Invoke \/ OnAsyncRead \/ Interrupt \/ Cancelled
  \/ \E c \in ClusterStarts : OnStart(c)
  \/ OnStop \/ Shutdown \/ WorkerEnds

ReaderSpec == ReaderInit /\ [][ReaderNext]_readerVars

-----------------------------------------------------------------------------
(* The values of the variables.                                            *)
ReaderTypes ==
  /\ index \in [Tracks -> Nat] /\ pinned \in [Tracks -> BOOLEAN]
  /\ extent \in [Tracks -> Nat] /\ front \in Tracks \cup {NoTrack}
  /\ worker \in {"request", "load", "read", "cancel", "quit"}
  /\ goal \in {"ahead", "parse", "extent", "lock"}
  /\ io \in {"none", "pending", "aborted", "ok", "more", "fail"}
  /\ file.length \in {-1, total}

(* A page is free or cached, never both and never lost; no part of the     *)
(* file is held twice, and what is held is all that the file has there.    *)
(* There are never more pages than the file has and the rest of a region.  *)
Pages == DOMAIN file.slots

PagesHeld ==
  /\ file.free \cup file.cache = Pages /\ file.free \cap file.cache = {}
  /\ \A i \in file.cache : file.slots[i].at >= 0
  /\ \A i, j \in Pages :
       file.slots[i].at = file.slots[j].at => i = j \/ file.slots[i] = Blank
  /\ \A i \in Pages : LET s == file.slots[i] IN
       s.at >= 0 /\ s.ref >= 0 =>
         s.at = KeyOf(s.at) /\ s.size = Least({PageBytes, total - s.at}) /\ s.size > 0
  /\ Cardinality(Pages) < Cardinality(KeysOf(0, total + 1)) + RegionPages

(* There is one read at a time, into the page its position is on, and the  *)
(* range asked for is remembered just as long as it is in progress.        *)
OneRead ==
  /\ {i \in Pages : file.slots[i].ref < 0} =
       IF io \in {"pending", "aborted"}
       THEN {i \in file.cache : file.slots[i].at = KeyOf(file.pos)} ELSE {}
  /\ io \in {"pending", "aborted"} => \E i \in Pages : file.slots[i].ref < 0
  /\ worker # "quit" =>
       (file.pos >= 0 /\ file.len > 0 <=> io \in {"pending", "aborted", "more"})
  /\ worker \in {"request", "load"} /\ ~down => io = "none"

(* The count of a page is the number of streams whose current block is     *)
(* locked and lies on it, and a locked block is all in the cache.          *)
LocksCounted ==
  /\ \A i \in Pages : file.slots[i].ref >= 0 =>
       file.slots[i].ref = Cardinality({t \in Tracks : pinned[t] /\ i \in PagesOf(file, Block(t))})
  /\ \A t \in Tracks : pinned[t] => AllThere(file, Block(t))

(* The file is read serially: what the streams still need before the       *)
(* position of the byte stream is in the cache (AsyncReadPage asserts that *)
(* it never has to go back).                                               *)
ReadSerially ==
  PositionsOf(index) # {} =>
    \A k \in KeysOf(Greatest({base, Least(PositionsOf(index))}), file.at) :
      \E i \in file.cache : file.slots[i].at = k

(* Whatever seeks, stops, interrupted and failed reads happen: the reader  *)
(* is in order, and when a request is answered its bytes are there, so     *)
(* that LockPage and Read succeed ("should never happen" in LockCurrBlock). *)
ReaderSound ==
  /\ ReaderTypes
  /\ PagesHeld /\ OneRead /\ LocksCounted /\ ReadSerially
  /\ ~missed
=============================================================================
