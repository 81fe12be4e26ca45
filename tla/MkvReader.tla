----------------------------- MODULE MkvReader ------------------------------
(***************************************************************************)
(* The page cache of the splitter: class MkvReader of                      *)
(* src/webmsplit/mkvreader.cc, with the streams of                         *)
(* src/libmkvparser/mkvparserstream.cc that keep the pages of their        *)
(* current block locked.                                                   *)
(*                                                                         *)
(* The file is read in pages from an asynchronous reader that has the      *)
(* first `avail' of `Total' bytes.  A page is free (in the multimap        *)
(* m_free_pages), cached (in the sorted deque m_cache) or owned by the     *)
(* parser thread while it waits for more of the file.  Every call runs     *)
(* with the filter lock held; the wait gives it up.  The loops of Read and *)
(* LockPages are taken one page per step.                                  *)
(***************************************************************************)
EXTENDS Integers, Sequences, FiniteSets, SequencesExt

CONSTANTS
  Streams,      \* the streams whose blocks are locked
  Blocks,       \* the blocks of each stream, byte ranges [start, size] of the file
  PageSize,     \* m_props.cbBuffer
  NPages,       \* m_props.cBuffers
  Total,        \* length of the file
  ReadsMayFail, \* SyncReadAligned may fail
  MaxConnects,  \* connections of the input pin
  MaxCalls      \* calls of the reader in a behaviour

ASSUME SizesAssumption ==
  /\ PageSize \in Nat \ {0} /\ NPages \in Nat \ {0} /\ Total \in Nat
  /\ MaxConnects \in Nat /\ MaxCalls \in Nat /\ ReadsMayFail \in BOOLEAN
ASSUME BlocksAssumption ==
  /\ IsFiniteSet(Streams)
  /\ \A s \in Streams : Blocks[s] \subseteq [start : Nat, size : Nat \ {0}]

VARIABLES
  pages,      \* m_pages
  pos,        \* Page::GetPos(): what the page's sample holds, -1 without a sample
  cRef,       \* Page::cRef
  freePages,  \* m_free_pages, as [key, page]
  cache,      \* m_cache
  owned,      \* the page Wait owns, NoPage if nobody waits
  avail,      \* what the source says is available
  locked,     \* Stream::m_pLocked of each stream
  op,         \* the call in progress: "none", "read" or "lock"
  cur,        \* its pos
  len,        \* its len
  next,       \* its iterator into m_cache, an index
  fault,      \* why LockPages failed the first time, "none" if it never did
  connects,
  calls

pageVars  == <<pages, pos, cRef, freePages, cache>>
callVars  == <<op, cur, len, next>>
vars == <<pageVars, callVars, owned, avail, locked, fault, connects, calls>>

AllPages == 1 .. NPages * MaxConnects
NoPage   == 0
NoBlock  == [start |-> 0, size |-> 0]

AllBlocks == UNION {Blocks[s] : s \in Streams}

Stop(b)      == b.start + b.size
PagePos(x)   == PageSize * (x \div PageSize)
PageEnd(p)   == pos[p] + PageSize
Entry(p)     == [key |-> pos[p], page |-> p]

Init ==
  /\ pages = {} /\ freePages = {} /\ cache = <<>>
  /\ pos = [p \in AllPages |-> -1] /\ cRef = [p \in AllPages |-> 0]
  /\ owned = NoPage /\ avail = 0
  /\ locked = [s \in Streams |-> NoBlock]
  /\ op = "none" /\ cur = 0 /\ len = 0 /\ next = 1
  /\ fault = "none" /\ connects = 0 /\ calls = 0

-----------------------------------------------------------------------------
(***************************************************************************)
(* SetSource with Commit, and SetSource(0) with Decommit: the pin is       *)
(* connected and disconnected while the filter is stopped.  Neither        *)
(* touches the cache.                                                      *)
(***************************************************************************)
Quiet == op = "none" /\ owned = NoPage /\ fault = "none"

Commit ==
  /\ Quiet /\ pages = {} /\ connects < MaxConnects
  /\ connects' = connects + 1
  /\ pages' = NPages * connects + 1 .. NPages * connects + NPages
  /\ freePages' = {[key |-> -1, page |-> p] : p \in pages'}
  /\ avail' = 0
  /\ UNCHANGED <<pos, cRef, cache, owned, locked, callVars, fault, calls>>

Decommit ==
  /\ Quiet /\ pages # {} /\ \A s \in Streams : locked[s] = NoBlock
  /\ pages' = {} /\ freePages' = {}
  /\ pos' = [p \in AllPages |-> -1]
  /\ UNCHANGED <<cRef, cache, owned, avail, locked, callVars, fault, connects, calls>>

(***************************************************************************)
(* The source gets more of the file.                                       *)
(***************************************************************************)
Download ==
  /\ pages # {} /\ avail < Total
  /\ avail' \in avail + 1 .. Total
  /\ UNCHANGED <<pageVars, callVars, owned, locked, fault, connects, calls>>

-----------------------------------------------------------------------------
(***************************************************************************)
(* std::upper_bound in the cache.                                          *)
(***************************************************************************)
UpperBound(x) ==
  CHOOSE n \in 1 .. Len(cache) + 1 :
    /\ \A i \in 1 .. n - 1 : pos[cache[i]] <= x
    /\ n <= Len(cache) => pos[cache[n]] > x

Hit(x) == UpperBound(x) > 1 /\ x < PageEnd(cache[UpperBound(x) - 1])

(***************************************************************************)
(* The pages UnlockPages visits: from the one that holds the first byte to *)
(* the first one that reaches the end of the block.                        *)
(***************************************************************************)
FirstOf(b) == IF Hit(b.start) THEN UpperBound(b.start) - 1 ELSE UpperBound(b.start)

(* Mutated form of Visited: the last page is left out.                     *)
VisitedButLast(b) ==
  {i \in FirstOf(b) .. Len(cache) : pos[cache[i]] + PageSize < Stop(b)}

Visited(b) ==
  {i \in FirstOf(b) .. Len(cache) :
     \A j \in FirstOf(b) .. i - 1 : PageEnd(cache[j]) < Stop(b)}

UnlockPages(b) ==
  [p \in AllPages |-> IF b # NoBlock /\ (\E i \in Visited(b) : cache[i] = p)
                      THEN cRef[p] - 1 ELSE cRef[p]]

(***************************************************************************)
(* Read of a page: n bytes at x, or what the page that ends at pageEnd has *)
(* of them.                                                                *)
(***************************************************************************)
Advance(x, n, pageEnd) ==
  /\ cur' = IF x + n <= pageEnd THEN x + n ELSE pageEnd
  /\ len' = IF x + n <= pageEnd THEN 0 ELSE x + n - pageEnd

(* Mutated form of Enter: LockPages does not count a page it finds cached. *)
EnterUncounted(o, b, refs) ==
  /\ op' = o /\ next' = UpperBound(b.start)
  /\ cRef' = refs
  /\ IF Hit(b.start)
     THEN Advance(b.start, b.size, PageEnd(cache[UpperBound(b.start) - 1]))
     ELSE cur' = b.start /\ len' = b.size

(***************************************************************************)
(* Read and LockPages up to their loop: the page before the upper bound    *)
(* may hold the first byte.                                                *)
(***************************************************************************)
Enter(o, b, refs) ==
  /\ op' = o /\ next' = UpperBound(b.start)
  /\ IF Hit(b.start)
     THEN LET p == cache[UpperBound(b.start) - 1] IN
          /\ Advance(b.start, b.size, PageEnd(p))
          /\ cRef' = IF o = "lock" THEN [refs EXCEPT ![p] = @ + 1] ELSE refs
     ELSE cur' = b.start /\ len' = b.size /\ cRef' = refs

Call ==
  /\ op = "none" /\ pages # {} /\ fault = "none"
  /\ calls < MaxCalls /\ calls' = calls + 1

(***************************************************************************)
(* Read, called by the parser and by streams for bytes that are available. *)
(***************************************************************************)
Read(b) ==
  /\ Call /\ Stop(b) <= avail
  /\ Enter("read", b, cRef)
  /\ UNCHANGED <<pages, pos, freePages, cache, owned, avail, locked, fault, connects>>

(***************************************************************************)
(* Stream::SetCurr: unlocks the pages of the block that was locked and     *)
(* locks those of the new one, which the parser has handed out.            *)
(***************************************************************************)
SetCurr(s, b) ==
  /\ Call /\ b # locked[s] /\ Stop(b) <= avail
  /\ locked' = [locked EXCEPT ![s] = b]
  /\ Enter("lock", b, UnlockPages(locked[s]))
  /\ UNCHANGED <<pages, pos, freePages, cache, owned, avail, fault, connects>>

(***************************************************************************)
(* Stream::Stop.                                                           *)
(***************************************************************************)
StreamStop(s) ==
  /\ op = "none" /\ locked[s] # NoBlock /\ fault = "none"
  /\ cRef' = UnlockPages(locked[s])
  /\ locked' = [locked EXCEPT ![s] = NoBlock]
  /\ UNCHANGED <<pages, pos, freePages, cache, owned, avail, callVars, fault, connects, calls>>

-----------------------------------------------------------------------------
(***************************************************************************)
(* PurgeOne: the front of the cache, its back, or the last page in it that *)
(* is not locked.  FreeOne locks the page at `next' meanwhile.             *)
(***************************************************************************)
(* Mutated form of Idle: a lock does not matter.                           *)
IdleUnlessNext(i, n) == i # n

Idle(i, n) == i # n /\ (cRef[cache[i]] = 0 \/ (cRef[cache[i]] < 0 /\ i \in {1, Len(cache)}))

Purgeable(n) == {i \in 1 .. Len(cache) : Idle(i, n)}

Victim(n) ==
  IF 1 \in Purgeable(n) THEN 1
  ELSE CHOOSE i \in Purgeable(n) : \A j \in Purgeable(n) : j <= i

(***************************************************************************)
(* FreeOne(n) purges a page when none is free: the cache, the free pages   *)
(* and the iterator after it.                                              *)
(***************************************************************************)
MustPurge(n) == freePages = {} /\ Purgeable(n) # {}

(* Mutated form of FreeOne: the iterator is not looked up again.           *)
FreeOneStaleNext(n) ==
  IF MustPurge(n)
  THEN [cache |-> RemoveAt(cache, Victim(n)),
        free  |-> {Entry(cache[Victim(n)])},
        next  |-> IF n > Len(cache) THEN n - 1 ELSE n]
  ELSE [cache |-> cache, free |-> freePages, next |-> n]

FreeOne(n) ==
  IF MustPurge(n)
  THEN [cache |-> RemoveAt(cache, Victim(n)),
        free  |-> {Entry(cache[Victim(n)])},
        next  |-> IF Victim(n) < n THEN n - 1 ELSE n]
  ELSE [cache |-> cache, free |-> freePages, next |-> n]

(***************************************************************************)
(* The free page InsertPage takes for position x: one that is listed under *)
(* it, or else the first one.  Pages with the same key that hold the same  *)
(* are interchangeable, and the first of them stands for the others.       *)
(***************************************************************************)
OneOfEach(free) ==
  {e \in free : \A f \in free :
     f.key = e.key /\ pos[f.page] = pos[e.page] => e.page <= f.page}

Listed(free, x) == OneOfEach({e \in free : e.key = x})
Lowest(free)    == OneOfEach({e \in free : \A f \in free : e.key <= f.key})
Chosen(free, x) == IF Listed(free, x) # {} THEN Listed(free, x) ELSE Lowest(free)

NotBuffered(x) == x + PageSize <= Total /\ x + PageSize > avail

AtMiss ==
  /\ op # "none" /\ len > 0
  /\ \A i \in 1 .. Len(cache) : i = next => pos[cache[i]] > cur

(***************************************************************************)
(* InsertPage when it succeeds: the page holds its position already, or it *)
(* is read; then the caller takes what it needs of it.                     *)
(***************************************************************************)
InsertPage ==
  LET f == FreeOne(next)
      x == PagePos(cur)
  IN /\ AtMiss
     /\ \E e \in Chosen(f.free, x) :
          /\ pos[e.page] = x \/ ~NotBuffered(x)
          /\ freePages' = f.free \ {e}
          /\ cache' = InsertAt(f.cache, f.next, e.page)
          /\ pos' = [pos EXCEPT ![e.page] = x]
          /\ cRef' = IF op = "lock" THEN [cRef EXCEPT ![e.page] = @ + 1] ELSE cRef
     /\ next' = f.next + 1
     /\ Advance(cur, len, x + PageSize)
     /\ UNCHANGED <<pages, owned, avail, locked, op, fault, connects, calls>>

(***************************************************************************)
(* A call that fails leaves what it has done so far.                       *)
(***************************************************************************)
Fail(why) ==
  /\ op' = "none"
  /\ fault' = IF op = "lock" /\ fault = "none" THEN why ELSE fault
  /\ UNCHANGED <<pages, cRef, owned, avail, locked, cur, len, next, connects, calls>>

InsertPageBusy ==
  /\ AtMiss /\ FreeOne(next).free = {}
  /\ Fail("busy")
  /\ UNCHANGED <<pos, freePages, cache>>

InsertPageNotBuffered ==
  LET f == FreeOne(next)
      x == PagePos(cur)
  IN /\ AtMiss /\ NotBuffered(x)
     /\ \E e \in Chosen(f.free, x) : pos[e.page] # x
     /\ freePages' = f.free /\ cache' = f.cache
     /\ Fail("underflow")
     /\ UNCHANGED pos

(***************************************************************************)
(* The read fails: the page loses its sample, and stays in the multimap    *)
(* under the position it had.                                              *)
(***************************************************************************)
InsertPageReadFails ==
  LET f == FreeOne(next)
      x == PagePos(cur)
  IN /\ ReadsMayFail /\ AtMiss /\ ~NotBuffered(x)
     /\ \E e \in Chosen(f.free, x) :
          pos[e.page] # x /\ pos' = [pos EXCEPT ![e.page] = -1]
     /\ freePages' = f.free /\ cache' = f.cache
     /\ Fail("read")

(***************************************************************************)
(* The next page of the call is cached.                                    *)
(***************************************************************************)
TakeCached ==
  /\ op # "none" /\ len > 0 /\ ~AtMiss
  /\ next' = next + 1
  /\ Advance(cur, len, PageEnd(cache[next]))
  /\ cRef' = IF op = "lock" THEN [cRef EXCEPT ![cache[next]] = @ + 1] ELSE cRef
  /\ UNCHANGED <<pages, pos, freePages, cache, owned, avail, locked, op, fault, connects, calls>>

Return ==
  /\ op # "none" /\ len = 0
  /\ op' = "none"
  /\ UNCHANGED <<pageVars, owned, avail, locked, cur, len, next, fault, connects, calls>>

-----------------------------------------------------------------------------
(***************************************************************************)
(* Wait: the parser thread needs a range that is not available yet.  It    *)
(* takes a free page for the last byte of it and requests that page, and   *)
(* gives up the filter lock until the request completes.                   *)
(***************************************************************************)
(* Mutated form of Wait: the page stays in the multimap.                   *)
WaitStillListed(b) ==
  LET f == FreeOne(Len(cache) + 1) IN
  /\ Call /\ owned = NoPage /\ avail < Stop(b)
  /\ \E e \in Lowest(f.free) :
       /\ owned' = e.page /\ freePages' = f.free
       /\ pos' = [pos EXCEPT ![e.page] = PagePos(Stop(b) - 1)]
  /\ cache' = f.cache
  /\ UNCHANGED <<pages, cRef, callVars, avail, locked, fault, connects>>

Wait(b) ==
  LET f == FreeOne(Len(cache) + 1) IN
  /\ Call /\ owned = NoPage /\ avail < Stop(b)
  /\ \E e \in Lowest(f.free) :
       /\ owned' = e.page /\ freePages' = f.free \ {e}
       /\ pos' = [pos EXCEPT ![e.page] = PagePos(Stop(b) - 1)]
  /\ cache' = f.cache
  /\ UNCHANGED <<pages, cRef, callVars, avail, locked, fault, connects>>

(***************************************************************************)
(* The request has completed, and the lock is seized again.                *)
(***************************************************************************)
WaitReturn ==
  /\ op = "none" /\ owned # NoPage
  /\ avail >= PageEnd(owned) \/ avail = Total
  /\ freePages' = freePages \cup {Entry(owned)}
  /\ owned' = NoPage
  /\ UNCHANGED <<pages, pos, cRef, cache, callVars, avail, locked, fault, connects, calls>>

(***************************************************************************)
(* The request fails or is cancelled by a flush.                           *)
(***************************************************************************)
WaitCancelled ==
  /\ op = "none" /\ owned # NoPage
  /\ pos' = [pos EXCEPT ![owned] = -1]
  /\ freePages' = freePages \cup {[key |-> -1, page |-> owned]}
  /\ owned' = NoPage
  /\ UNCHANGED <<pages, cRef, cache, callVars, avail, locked, fault, connects, calls>>

-----------------------------------------------------------------------------
CallStep ==
  \/ InsertPage \/ InsertPageBusy \/ InsertPageNotBuffered \/ InsertPageReadFails
  \/ TakeCached \/ Return

Next ==
  \/ Commit \/ Decommit \/ Download
  \/ \E b \in AllBlocks : Read(b) \/ Wait(b)
  \/ \E s \in Streams : (\E b \in Blocks[s] : SetCurr(s, b)) \/ StreamStop(s)
  \/ CallStep
  \/ WaitReturn \/ WaitCancelled

Spec == Init /\ [][Next]_vars

-----------------------------------------------------------------------------
(* Every variable holds a value its declaration allows.                    *)
TypeOK ==
  /\ pages \subseteq AllPages
  /\ pos \in [AllPages -> Int] /\ cRef \in [AllPages -> Int]
  /\ freePages \subseteq [key : Int, page : pages]
  /\ cache \in Seq(AllPages)
  /\ owned \in pages \cup {NoPage} /\ avail \in 0 .. Total
  /\ \A s \in Streams : locked[s] \in Blocks[s] \cup {NoBlock}
  /\ op \in {"none", "read", "lock"} /\ cur \in Nat /\ len \in Nat /\ next \in Nat \ {0}
  /\ fault \in {"none", "busy", "underflow", "read"}
  /\ connects \in 0 .. MaxConnects /\ calls \in 0 .. MaxCalls

Cached(p) == \E i \in 1 .. Len(cache) : cache[i] = p
Free(p)   == \E e \in freePages : e.page = p

(* A page is free, cached or owned by the waiting parser thread, never two *)
(* of them and never lost, however the output pins use the reader while    *)
(* the parser waits without the lock.                                      *)
PagesInOnePlace ==
  pages # {} =>
    /\ \A p \in pages : Free(p) \/ Cached(p) \/ owned = p
    /\ \A p \in pages : ~(Free(p) /\ Cached(p)) /\ (owned = p => ~Free(p) /\ ~Cached(p))
    /\ \A e, f \in freePages : e.page = f.page => e = f
    /\ \A i, j \in 1 .. Len(cache) : cache[i] = cache[j] => i = j

(* The cache is sorted, as the binary searches need it, with one page per  *)
(* position, wherever the pages a call inserts displace others.            *)
CacheSorted ==
  pages # {} =>
    /\ \A i \in 1 .. Len(cache) : pos[cache[i]] >= 0 /\ pos[cache[i]] % PageSize = 0
    /\ \A i, j \in 1 .. Len(cache) : i < j => pos[cache[i]] < pos[cache[j]]

(* The iterator of a call in progress separates the pages the call has     *)
(* passed from those ahead of it, also when inserting a page has purged    *)
(* another (Read asserts that pos lies on the page at next).                *)
IteratorValid ==
  op # "none" /\ len > 0 =>
    /\ \A i \in 1 .. Len(cache) : i < next => PageEnd(cache[i]) <= cur
    /\ \A i \in 1 .. Len(cache) : i >= next => cur < PageEnd(cache[i])

Covers(p, b) == b # NoBlock /\ pos[p] < Stop(b) /\ b.start < PageEnd(p)

(* Between calls the reference count of a cached page is the number of     *)
(* streams whose block lies on it, and nothing else is referenced, as long *)
(* as no lock has failed half way (UnlockPages asserts cRef > 0, Decommit  *)
(* that it is 0).                                                          *)
RefsMatchLocks ==
  op = "none" /\ fault = "none" =>
    \A p \in pages :
      cRef[p] = IF Cached(p) THEN Cardinality({s \in Streams : Covers(p, locked[s])}) ELSE 0

(* ... and each byte of a locked block is on a cached page.                *)
LockedResident ==
  op = "none" /\ fault = "none" =>
    \A s \in Streams : \A x \in locked[s].start .. Stop(locked[s]) - 1 :
      \E i \in 1 .. Len(cache) : pos[cache[i]] <= x /\ x < PageEnd(cache[i])

(* The pages that the blocks of the streams lie on, and room for those and *)
(* for two more: the one of the waiting parser thread, and the one that    *)
(* the iterator of a call stands on, which it may not purge.               *)
TouchedPages(lk) ==
  {k \in 0 .. Total : k % PageSize = 0
                      /\ \E s \in Streams : /\ lk[s] # NoBlock
                                           /\ k < Stop(lk[s]) /\ lk[s].start < k + PageSize}

RoomForBlocks ==
  \A lk \in [Streams -> AllBlocks \cup {NoBlock}] :
    (\A s \in Streams : lk[s] \in Blocks[s] \cup {NoBlock}) =>
      Cardinality(TouchedPages(lk)) + 2 <= NPages

(* A lock never fails for want of a page when there is room for the blocks *)
(* of the streams: a stream that moves on gives every page of its last     *)
(* block back.                                                             *)
NeverShortOfPages == fault # "busy"

(* All of it: the pages are where they belong, in order, counted, and      *)
(* enough.                                                                 *)
PagesConsistent ==
  /\ TypeOK
  /\ PagesInOnePlace /\ CacheSorted /\ IteratorValid /\ RefsMatchLocks /\ LockedResident
  /\ NeverShortOfPages

(* A page that a stream has locked keeps what it holds, and stays in the   *)
(* cache, while other streams and the parser take pages for themselves:    *)
(* the stream reads its frames from it later.                              *)
LockedPagesStable ==
  [][\A p \in AllPages :
       cRef[p] > 0 /\ pages' = pages =>
         pos'[p] = pos[p] /\ (\E i \in 1 .. Len(cache') : cache'[i] = p)]_vars

=============================================================================
