--------------------------- MODULE MFSourceProofs ---------------------------
(***************************************************************************)
(* That the streams of the Media Foundation source stay consistent, and    *)
(* that their samples hold the blocks of the file in order, for every      *)
(* file, selection of streams, set of failures and number of calls.        *)
(*                                                                         *)
(* MFInv, the inductive invariant, has a part for each thing the worker    *)
(* relies on: ControlInv (who may wait for what), QueueInv (the queue of   *)
(* commands), StreamsInv (each stream, and all of them against the         *)
(* commands), ParsedInv (how far the file has been read), PlacesParsed     *)
(* (nobody stands at a block that has not been parsed) and FrontInv (what  *)
(* a read under way may assume of the stream in front).  One lemma per     *)
(* action shows that it is kept.                                           *)
(*                                                                         *)
(* SearchInv adds where the search for each stream's next block has got:   *)
(* the blocks gathered are those of the stream from its current one up to  *)
(* there, through every stalled read and across clusters.  With it no      *)
(* sample loses, repeats or reorders a block.                              *)
(***************************************************************************)
EXTENDS MFSource, SequenceTheorems, FiniteSetTheorems, WellFoundedInduction, TLAPS

(* The states of loading, and those of a read on behalf of the request in  *)
(* front: its current block is looked for, its next one, its bytes.        *)
LoadStates  == {"ebml", "headers", "cues", "loadCluster", "parseCluster", "initStreams"}
CurrStates  == {"currInit", "currFinal"}
NextStates  == {"nextInit", "nextNotify", "nextParse"}
FrontStates == {"lock", "extent"} \cup CurrStates \cup NextStates
PlayStates  == {"request"} \cup FrontStates

(* How far the creation of the source has got.                             *)
Unloaded == {"none", "loading", "refused"}
Early    == Unloaded \cup {"loaded", "bad"}

ControlTypes ==
  /\ creation \in {"none", "loading", "loaded", "bad", "done", "failed", "refused",
                   "released"}
  /\ shutdown \in BOOLEAN
  /\ ev \in [{"quit", "cmd", "req", "async"} -> BOOLEAN]
  /\ at \in {"read", "cancel", "request", "quit", "crashed"}
  /\ woken \in {"none", "quit", "cmd", "req", "async"}
  /\ hr \in {"ok", "more", "pending", "fail"}

ControlInv ==
  /\ ControlTypes /\ OneRead
  /\ creation = "none" => at = "read" /\ woken = "none" /\ hr # "pending"
                          /\ ~ev["quit"] /\ ~ev["async"]
  /\ creation = "refused" => at \in {"read", "quit"} /\ hr # "pending"
                             /\ ~ev["async"] /\ woken # "async"
  /\ creation = "loading" => at \in {"read", "quit"}
  /\ creation = "bad" => at = "quit"
  /\ creation = "loaded" => at = "request"
  /\ creation \in Unloaded => ~ev["cmd"] /\ ~ev["req"] /\ woken \notin {"cmd", "req"}
  /\ shutdown => creation \notin Early
  /\ ev["quit"] \/ woken = "quit" => creation \in {"refused", "released"}
  /\ ~(ev["async"] /\ woken = "async")
  /\ woken = "async" => at \in {"read", "cancel"}
  /\ at = "read" => astate \in (IF creation \in Unloaded THEN LoadStates ELSE PlayStates)

(* Before the source is handed over nothing is asked of it.                *)
NothingAsked ==
  creation \in Early => Len(commands) = 1 /\ commands[1].kind = "stop" /\ requests = <<>>

(* What Least chooses.                                                     *)
LEMMA LeastIn ==
  ASSUME NEW S, S \subseteq Nat, S # {}
  PROVE  Least(S) \in S /\ \A y \in S : Least(S) <= y
<1>1. PICK x \in S : \A y \in S : ~(<<y, x>> \in OpToRel(<, Nat))
  BY NatLessThanWellFounded, WFMin
<1>2. ASSUME NEW y \in S PROVE x <= y
  <2>1. <<y, x>> \in Nat \X Nat /\ <<y, x>>[1] = y /\ <<y, x>>[2] = x
    OBVIOUS
  <2>2. ~(y < x)
    BY <1>1, <2>1 DEF OpToRel
  <2> QED
    BY <2>2
<1> QED
  BY <1>2 DEF Least

LEMMA ControlHandler ==
  ASSUME ControlInv, Handler
  PROVE  ControlInv'
<1> USE DEF ControlInv, ControlTypes, OneRead, Unloaded, Early, LoadStates, Signal
<1>1. CASE BeginCreateObject
  BY <1>1 DEF BeginCreateObject, Stall, HaveBytes
<1>2. CASE CancelObjectCreation
  BY <1>2 DEF CancelObjectCreation, disk
<1>3. CASE EndLoad
  BY <1>3 DEF EndLoad, ShutdownSource, disk, PlayStates
<1>4. CASE Release
  BY <1>4 DEF Release, disk
<1> QED
  BY <1>1, <1>2, <1>3, <1>4 DEF Handler

LEMMA ControlReadDone ==
  ASSUME ControlInv, ReadDone
  PROVE  ControlInv'
<1>1. hr = "pending" /\ hr' \in {"ok", "more", "fail"}
  BY DEF ReadDone
<1>2. /\ ev' = [e \in DOMAIN ev |-> ev[e] \/ e \in {"async"}]
      /\ UNCHANGED <<creation, shutdown, at, woken, astate, told>>
  BY DEF ReadDone, Signal, api
<1> QED
  BY <1>1, <1>2 DEF ControlInv, ControlTypes, OneRead, Unloaded, Early

LEMMA ControlPipeline ==
  ASSUME ControlInv, Pipeline
  PROVE  ControlInv'
<1> USE DEF ControlInv, ControlTypes, OneRead, Unloaded, Early, LoadStates, PlayStates,
            Signal, Call, Command, Queue, disk
<1>1. ASSUME NEW pos \in SeekTo, Seek(pos) PROVE ControlInv'
  BY <1>1 DEF Seek
<1>2. ASSUME NEW pos \in SeekTo, NEW desc \in Descs, Start(desc, pos) PROVE ControlInv'
  BY <1>2 DEF Start
<1>3. ASSUME NEW desc \in Restarts, Restart(desc) PROVE ControlInv'
  BY <1>3 DEF Restart
<1>4. CASE Stop
  BY <1>4 DEF Stop
<1>5. CASE Pause
  BY <1>5 DEF Pause
<1>6. CASE SetRate
  BY <1>6 DEF SetRate
<1>7. CASE Shutdown
  BY <1>7 DEF Shutdown, ShutdownSource
<1>8. ASSUME NEW s \in Streams, RequestSample(s) PROVE ControlInv'
  BY <1>8 DEF RequestSample
<1> QED
  BY <1>1, <1>2, <1>3, <1>4, <1>5, <1>6, <1>7, <1>8 DEF Pipeline

(* Waking and the steps that only move the worker.                         *)
LEMMA ControlMoves ==
  ASSUME ControlInv, NothingAsked,
         Wake \/ Quits \/ CommandArrives \/ RequestArrives \/ CancelDone \/ OnAsyncRead
           \/ TurnEnds \/ TurnToCommand
  PROVE  ControlInv'
<1> USE DEF ControlInv, ControlTypes, OneRead, Unloaded, Early, LoadStates, PlayStates,
            FrontStates, CurrStates, NextStates, Go
<1>1. CASE Wake
  <2>1. UNCHANGED <<creation, shutdown, at, hr, astate>>
    BY <1>1 DEF Wake, api, disk
  <2>2. PICK i \in DOMAIN Order[at] :
          ev[Order[at][i]] /\ woken' = Order[at][i] /\ ev' = [ev EXCEPT ![woken'] = FALSE]
    <3> DEFINE set == {i \in DOMAIN Order[at] : ev[Order[at][i]]}
    <3>1. set # {} /\ set \subseteq Nat
      BY <1>1 DEF Wake, Order
    <3>2. Least(set) \in set
      BY <3>1, LeastIn
    <3> QED
      BY <1>1, <3>2 DEF Wake
  <2>3. woken' \in (CASE at = "read" -> {"quit", "cmd", "req", "async"}
                      [] at = "cancel" -> {"quit", "async", "cmd"}
                      [] OTHER -> {"quit", "cmd", "req"})
    BY <1>1, <2>2 DEF Wake, Order
  <2> QED
    BY <1>1, <2>1, <2>2, <2>3 DEF Wake
<1>2. CASE Quits
  BY <1>2 DEF Quits, api, disk
<1>3. CASE CommandArrives
  BY <1>3 DEF CommandArrives, api, disk
<1>4. CASE RequestArrives
  BY <1>4 DEF RequestArrives, api, disk
<1>5. CASE CancelDone
  BY <1>5 DEF CancelDone, Back, Signal, HaveBytes, api
<1>6. CASE OnAsyncRead
  BY <1>6 DEF OnAsyncRead, Back, Signal, Dies, api, disk
<1>7. CASE TurnEnds
  BY <1>7 DEF TurnEnds, Turn, api, disk
<1>8. CASE TurnToCommand
  BY <1>8 DEF TurnToCommand, NothingAsked, Turn, Signal, api, disk
<1> QED
  BY <1>1, <1>2, <1>3, <1>4, <1>5, <1>6, <1>7, <1>8

(* How a step of loading, and of playing, ends.                            *)
LEMMA ControlLoad ==
  ASSUME ControlInv, Load
  PROVE  ControlInv'
<1> USE DEF ControlInv, ControlTypes, OneRead, Unloaded, Early, LoadStates, PlayStates,
            FrontStates, CurrStates, NextStates, Go, Signal, LoadStep, Ready, Loads, LoadFails,
            LoadStalls, LoadComplete, Again, Loop, Pending, Back, Stall, HaveBytes
<1>1. CASE ParseEbmlHeader
  BY <1>1 DEF ParseEbmlHeader
<1>2. CASE ParseSegmentHeaders
  BY <1>2 DEF ParseSegmentHeaders
<1>3. CASE ParseCues
  BY <1>3 DEF ParseCues
<1>4. CASE LoadCluster
  BY <1>4 DEF LoadCluster
<1>5. CASE ParseCluster
  BY <1>5 DEF ParseCluster
<1>6. CASE InitStreams
  BY <1>6 DEF InitStreams
<1> QED
  BY <1>1, <1>2, <1>3, <1>4, <1>5, <1>6 DEF Load

LEMMA ControlIdle ==
  ASSUME ControlInv, NothingAsked, TurnIdle
  PROVE  ControlInv'
<1> USE DEF ControlInv, ControlTypes, OneRead, Unloaded, Early, LoadStates, PlayStates,
            FrontStates, CurrStates, NextStates, Go, Turn, Idle, api, disk
<1>1. CASE ~(~IsStopped /\ Furthest # 0 /\ rate1)
  BY <1>1 DEF TurnIdle
<1>2. CASE ~IsStopped
  <2>1. creation \notin Early
    BY <1>2 DEF TurnIdle, NothingAsked, IsStopped, Last
  <2>2. CASE ParseAhead(Furthest)
    BY <2>1, <2>2 DEF TurnIdle, ParseAhead, HaveBytes, Signal, Pending, Stall, Dies
  <2> QED
    BY <1>1, <1>2, <2>2 DEF TurnIdle
<1> QED
  BY <1>1, <1>2

LEMMA ControlServe ==
  ASSUME ControlInv, NothingAsked, Serve
  PROVE  ControlInv'
<1> USE DEF ControlInv, ControlTypes, OneRead, Unloaded, Early, LoadStates, PlayStates,
            FrontStates, CurrStates, NextStates, Go, Turn, Signal, Again, Loop, Pending,
            Stall, HaveBytes, Dies, Serves, ServesBlock, NothingAsked, Answered, api, disk
<1>1. CASE ServeUnselected
  BY <1>1 DEF ServeUnselected
<1>2. CASE ServeUnplaced
  BY <1>2 DEF ServeUnplaced
<1>3. CASE ServeEnded
  BY <1>3 DEF ServeEnded
<1>4. CASE ServeShort
  BY <1>4 DEF ServeShort
<1>5. CASE ServeNextCluster
  BY <1>5 DEF ServeNextCluster
<1>6. CASE ServeBytes
  BY <1>6 DEF ServeBytes
<1>7. CASE ServeSample
  BY <1>7 DEF ServeSample
<1> QED
  BY <1>1, <1>2, <1>3, <1>4, <1>5, <1>6, <1>7 DEF Serve

LEMMA ControlPlay ==
  ASSUME ControlInv, Play
  PROVE  ControlInv'
<1> USE DEF ControlInv, ControlTypes, OneRead, Unloaded, Early, LoadStates, PlayStates,
            FrontStates, CurrStates, NextStates, Go, Signal, Again, Loop, Pending, Back,
            Stall, HaveBytes, KeepBytes, Dies, PlayStep, Ready, api, disk
<1>1. CASE BytesAreHere
  BY <1>1 DEF BytesAreHere
<1>2. CASE LockCurr
  BY <1>2 DEF LockCurr, OnFront
<1>3. CASE GetSampleExtent
  BY <1>3 DEF GetSampleExtent, OnFront
<1>4. CASE CurrBlockInit
  BY <1>4 DEF CurrBlockInit, GetCurrBlockObject, SetCurrBlockObject
<1>5. CASE CurrBlockFinal
  BY <1>5 DEF CurrBlockFinal, GetCurrBlockObject, SetCurrBlockObject
<1>6. CASE NextInit
  BY <1>6 DEF NextInit
<1>7. CASE NextNotify
  BY <1>7 DEF NextNotify
<1>8. CASE NextParse
  BY <1>8 DEF NextParse
<1> QED
  BY <1>1, <1>2, <1>3, <1>4, <1>5, <1>6, <1>7, <1>8 DEF Play

-----------------------------------------------------------------------------
(* The blocks of the file, those of a stream, and where a stream can stand:*)
(* at a block, nowhere, or at its end.                                     *)
Blocks    == UNION {{c} \X (1 .. Size(c)) : c \in Clusters}
Own(s)    == {b \in Blocks : File[b[1]][b[2]] = s}
Places(s) == Own(s) \cup {NoBlock, EndBlock}

LEMMA FileTypes ==
  ASSUME MFAssumption
  PROVE  /\ Len(File) \in Nat /\ Clusters = 1 .. Len(File)
         /\ \A c \in Clusters : Size(c) \in Nat \ {0} /\ DOMAIN File[c] = 1 .. Size(c)
         /\ \A c \in Clusters : \A i \in 1 .. Size(c) : File[c][i] \in Streams
<1>1. File \in Seq(Seq(Streams)) /\ \A c \in DOMAIN File : File[c] # <<>>
  BY DEF MFAssumption
<1>2. Len(File) \in Nat /\ Clusters = 1 .. Len(File)
  BY <1>1 DEF Clusters
<1>3. ASSUME NEW c \in Clusters
      PROVE  /\ Size(c) \in Nat \ {0} /\ DOMAIN File[c] = 1 .. Size(c)
             /\ \A i \in 1 .. Size(c) : File[c][i] \in Streams
  <2>1. File[c] \in Seq(Streams) /\ File[c] # <<>>
    BY <1>1, <1>2 DEF Clusters
  <2> QED
    BY <2>1 DEF Size
<1> QED
  BY <1>2, <1>3

LEMMA BlockTypes ==
  ASSUME MFAssumption, NEW b \in Blocks
  PROVE  /\ b[1] \in Clusters /\ b[2] \in 1 .. Size(b[1]) /\ b = <<b[1], b[2]>>
         /\ b \in Nat \X Nat /\ IsBlock(b) /\ b # NoBlock /\ b # EndBlock
         /\ b[1] \in 1 .. Len(File) /\ b[2] \in Nat /\ b[2] >= 1
<1>1. PICK c \in Clusters : b \in {c} \X (1 .. Size(c))
  BY DEF Blocks
<1>2. b[1] = c /\ b[2] \in 1 .. Size(c) /\ b = <<b[1], b[2]>>
  BY <1>1
<1>3. c \in 1 .. Len(File) /\ Len(File) \in Nat /\ Size(c) \in Nat
  BY FileTypes
<1> QED
  BY <1>2, <1>3 DEF IsBlock, NoBlock, EndBlock

LEMMA InBlocks ==
  ASSUME MFAssumption, NEW c \in Clusters, NEW i \in 1 .. Size(c)
  PROVE  <<c, i>> \in Blocks
  BY DEF Blocks

LEMMA NoBlockTypes ==
  /\ NoBlock \in Nat \X Nat /\ EndBlock \in Nat \X Nat /\ NoBlock # EndBlock
  /\ ~IsBlock(NoBlock) /\ ~IsBlock(EndBlock)
  BY DEF NoBlock, EndBlock, IsBlock

LEMMA PlaceTypes ==
  ASSUME MFAssumption, NEW s, NEW b \in Places(s)
  PROVE  /\ b \in Nat \X Nat
         /\ IsBlock(b) <=> b \in Own(s)
         /\ IsBlock(b) <=> b # NoBlock /\ b # EndBlock
<1>1. CASE b \in Own(s)
  BY <1>1, BlockTypes, NoBlockTypes DEF Own
<1>2. CASE b \in {NoBlock, EndBlock}
  <2>1. b \notin Own(s)
    BY <1>2, BlockTypes, NoBlockTypes DEF Own
  <2> QED
    BY <1>2, <2>1, NoBlockTypes
<1> QED
  BY <1>1, <1>2 DEF Places

(***************************************************************************)
(* A stream: it holds nothing when it is not selected, it stands at one of *)
(* its own blocks, and has locked no other block than its current one.     *)
(***************************************************************************)
StreamOK(s, t) ==
  /\ t \in StreamState
  /\ t.cpos \in 0 .. Len(File) /\ t.clu \in 0 .. Len(File)
  /\ t.curr \in Places(s) /\ t.next \in Places(s)
  /\ t.locked # NoBlock => t.locked = t.curr
  /\ t.sel # 1 => t.curr = NoBlock /\ t.clu = 0 /\ t.held = 0

(* A command as the pipeline may have queued it.                           *)
CommandSet ==
  [kind : {"start", "seek", "stop", "restart", "pause"},
   desc : SUBSET Streams, pos : Clusters \cup {1}]

LEMMA ShutdownStreamOK ==
  ASSUME NEW s, NEW t, StreamOK(s, t), NEW u, u = ShutdownStream(t)
  PROVE  StreamOK(s, u) /\ u.sel = t.sel /\ u.held = 0
<1>1. NoBlock \in Places(s) /\ NoBlock \in Nat \X Nat
  BY NoBlockTypes DEF Places
<1>2. u \in StreamState
  BY <1>1 DEF StreamOK, ShutdownStream, StreamState
<1>3. /\ u.sel = t.sel /\ u.held = 0 /\ u.locked = NoBlock /\ u.curr = NoBlock /\ u.clu = 0
      /\ u.cpos = t.cpos /\ u.next = t.next
  BY <1>1 DEF StreamOK, ShutdownStream, StreamState
<1>4. 0 \in 0 .. Len(File)
  BY DEF StreamOK
<1> QED
  BY <1>1, <1>2, <1>3, <1>4 DEF StreamOK

(* What the handlers of the commands make of a stream.                     *)
LEMMA DeselectOK ==
  ASSUME NEW s, NEW t, StreamOK(s, t), NEW u, u = Deselect(t)
  PROVE  /\ StreamOK(s, u) /\ u.sel # 1 /\ u.held = 0
         /\ u.sel = 0 \/ u = t
<1>0. NoBlock \in Places(s) /\ NoBlock \in Nat \X Nat /\ <<>> \in Seq(Nat \X Nat)
  BY NoBlockTypes DEF Places
<1>1. CASE t.sel # 1
  BY <1>1 DEF Deselect, StreamOK
<1>2. CASE t.sel = 1
  <2>1. u \in StreamState
    BY <1>0, <1>2 DEF StreamOK, Deselect, StreamState
  <2>2. /\ u.sel = 0 /\ u.held = 0 /\ u.locked = NoBlock /\ u.curr = NoBlock /\ u.clu = 0
        /\ u.cpos = t.cpos /\ u.next = NoBlock
    BY <1>0, <1>2 DEF StreamOK, Deselect, StreamState
  <2>3. 0 \in 0 .. Len(File)
    BY DEF StreamOK
  <2> QED
    BY <1>0, <2>1, <2>2, <2>3 DEF StreamOK
<1> QED
  BY <1>1, <1>2

(* A stream that is placed: nothing of the search for the next block is    *)
(* left.                                                                   *)
Unsearched(t) == t.next = NoBlock /\ t.nidx = 0 /\ t.got = <<>>

LEMMA SetCurrBlockOK ==
  ASSUME MFAssumption, NEW s, NEW t, StreamOK(s, t), NEW b, b \in Places(s), NEW c, c \in 0 .. Len(File), NEW u, u = SetCurrBlock(t, b, c)
  PROVE  /\ StreamOK(s, u) /\ u.sel = 1 /\ ~u.eos /\ u.curr = b /\ u.cpos = c
         /\ Unsearched(u) /\ u.held = t.held
<1>0. NoBlock \in Places(s) /\ NoBlock \in Nat \X Nat /\ <<>> \in Seq(Nat \X Nat) /\ c \in Nat
      /\ b \in Nat \X Nat
  BY NoBlockTypes, PlaceTypes DEF Places, StreamOK
<1>1. u \in StreamState
  BY <1>0 DEF StreamOK, SetCurrBlock, StreamState
<1>2. /\ u.sel = 1 /\ u.held = t.held /\ u.locked = NoBlock /\ u.curr = b /\ u.clu = 0
      /\ u.cpos = c /\ u.next = NoBlock /\ u.nidx = 0 /\ u.got = <<>> /\ ~u.eos
  BY <1>0 DEF StreamOK, SetCurrBlock, StreamState
<1>3. 0 \in 0 .. Len(File)
  BY DEF StreamOK
<1> QED
  BY <1>0, <1>1, <1>2, <1>3 DEF StreamOK, Unsearched

LEMMA ClusterPosIn ==
  ASSUME MFAssumption, NEW c \in CommandSet
  PROVE  ClusterPos(c) \in 0 .. Len(File)
  BY FileTypes DEF ClusterPos, CommandSet

LEMMA StartStreamOK ==
  ASSUME MFAssumption, NEW s, NEW t, StreamOK(s, t), first[s] \in Places(s),
         first[s] # NoBlock, NEW c \in CommandSet, NEW u, u = StartStream(c, s, t)
  PROVE  /\ StreamOK(s, u) /\ (u.sel = 1 <=> s \in c.desc)
         /\ s \notin c.desc => u.held = 0
         /\ s \in c.desc =>
              /\ ~u.eos /\ Unsearched(u) /\ u.held = t.held
              /\ \/ u.curr = first[s] /\ u.cpos = 0
                 \/ u.curr = NoBlock /\ u.cpos # 0
<1>1. CASE s \notin c.desc
  BY <1>1, DeselectOK DEF StartStream
<1>2. CASE s \in c.desc
  <2>1. NoBlock \in Places(s) /\ NoBlock \in Nat \X Nat /\ first[s] \in Nat \X Nat
    BY NoBlockTypes, PlaceTypes DEF Places
  <2>2. ClusterPos(c) \in 0 .. Len(File) /\ 0 \in 0 .. Len(File)
    BY ClusterPosIn DEF StreamOK
  <2>3. CASE ClusterPos(c) = 0
    <3>1. u = SetCurrBlock(t, first[s], 0)
      BY <1>2, <2>3 DEF StartStream
    <3>2. /\ StreamOK(s, u) /\ u.sel = 1 /\ ~u.eos /\ u.curr = first[s]
          /\ u.cpos = 0 /\ Unsearched(u) /\ u.held = t.held
      BY <2>1, <2>2, <3>1, SetCurrBlockOK
    <3> QED
      BY <1>2, <3>2
  <2>4. CASE ClusterPos(c) # 0
    <3>1. u = SetCurrBlock(t, NoBlock, ClusterPos(c))
      BY <1>2, <2>4 DEF StartStream
    <3>2. /\ StreamOK(s, u) /\ u.sel = 1 /\ ~u.eos /\ u.curr = NoBlock
          /\ u.cpos = ClusterPos(c) /\ Unsearched(u) /\ u.held = t.held
      BY <2>1, <2>2, <3>1, SetCurrBlockOK
    <3> QED
      BY <1>2, <2>4, <3>2
  <2> QED
    BY <2>3, <2>4
<1> QED
  BY <1>1, <1>2

LEMMA StopStreamOK ==
  ASSUME NEW s, NEW t, StreamOK(s, t), NEW u, u = StopStream(t)
  PROVE  StreamOK(s, u) /\ u.sel # 1 /\ u.held = 0
<1>0. NoBlock \in Places(s) /\ NoBlock \in Nat \X Nat
  BY NoBlockTypes DEF Places
<1>1. CASE t.sel # 1
  BY <1>1 DEF StopStream, StreamOK
<1>2. CASE t.sel = 1
  <2>1. u \in StreamState
    BY <1>0, <1>2 DEF StreamOK, StopStream, StreamState
  <2>2. /\ u.sel = 0 /\ u.held = 0 /\ u.locked = NoBlock /\ u.curr = NoBlock /\ u.clu = 0
        /\ u.cpos = t.cpos /\ u.next = t.next
    BY <1>0, <1>2 DEF StreamOK, StopStream, StreamState
  <2>3. 0 \in 0 .. Len(File)
    BY DEF StreamOK
  <2> QED
    BY <1>0, <2>1, <2>2, <2>3 DEF StreamOK
<1> QED
  BY <1>1, <1>2

(* Two records of a stream that stand at the same place of the search.     *)
SamePlace(t, u) ==
  /\ u.curr = t.curr /\ u.cpos = t.cpos /\ u.clu = t.clu /\ u.next = t.next
  /\ u.nidx = t.nidx /\ u.group = t.group /\ u.ext = t.ext /\ u.got = t.got

LEMMA RestartStreamOK ==
  ASSUME NEW s, NEW t, StreamOK(s, t), NEW c \in CommandSet, s \in c.desc => t.sel = 1,
         NEW u, u = RestartStream(c, s, t)
  PROVE  /\ StreamOK(s, u) /\ (u.sel = 1 <=> s \in c.desc) /\ u.held = 0
         /\ s \in c.desc => ~u.eos /\ SamePlace(t, u)
<1>1. CASE s \notin c.desc
  BY <1>1, DeselectOK DEF RestartStream
<1>2. CASE s \in c.desc
  <2>1. u = [t EXCEPT !.sel = 1, !.eos = FALSE, !.held = 0]
    BY <1>2 DEF RestartStream
  <2>0. t \in StreamState
    BY DEF StreamOK
  <2>2. u \in StreamState
    BY ONLY <2>0, <2>1 DEF StreamState
  <2>3. u.sel = 1 /\ ~u.eos /\ u.held = 0 /\ u.locked = t.locked /\ SamePlace(t, u)
    BY <2>1 DEF StreamOK, StreamState, SamePlace
  <2> QED
    BY <1>2, <2>2, <2>3 DEF StreamOK, SamePlace
<1> QED
  BY <1>1, <1>2

(* Where a selected stream can be found.                                   *)
Placed(t) == t.sel = 1 => t.curr # NoBlock \/ t.cpos # 0

LEMMA CommandedOK ==
  ASSUME MFAssumption, NEW s, NEW t, StreamOK(s, t), first[s] \in Places(s),
         first[s] # NoBlock, NEW c \in CommandSet, c.kind = "stop" => c.desc = {},
         c.kind = "restart" /\ s \in c.desc => t.sel = 1,
         NEW u, u = Commanded(c, s, t)
  PROVE  /\ StreamOK(s, u)
         /\ c.kind # "pause" => (u.sel = 1 <=> s \in c.desc) /\ (u.sel = 1 => ~u.eos)
         /\ c.kind \in {"seek", "stop", "restart"} => u.held = 0
         /\ c.kind = "start" => u.held = 0 \/ u.held = t.held
         /\ Placed(t) => Placed(u)
         /\ c.kind \in {"start", "seek"} /\ u.sel = 1 =>
              /\ Unsearched(u)
              /\ \/ u.curr = first[s] /\ u.cpos = 0
                 \/ u.curr = NoBlock /\ u.cpos # 0
         /\ c.kind = "restart" /\ u.sel = 1 => SamePlace(t, u)
         /\ c.kind = "pause" => u = t
<1>1. CASE c.kind = "start"
  <2>1. u = StartStream(c, s, t)
    BY <1>1 DEF Commanded
  <2> QED
    BY <1>1, <2>1, StartStreamOK DEF Placed
<1>2. CASE c.kind = "seek"
  <2> DEFINE w == StartStream(c, s, t)
  <2>1. u = [w EXCEPT !.held = 0]
    BY <1>2 DEF Commanded
  <2>2. /\ StreamOK(s, w) /\ (w.sel = 1 <=> s \in c.desc)
        /\ s \in c.desc => /\ ~w.eos /\ Unsearched(w)
                           /\ \/ w.curr = first[s] /\ w.cpos = 0
                              \/ w.curr = NoBlock /\ w.cpos # 0
    BY StartStreamOK
  <2> HIDE DEF w
  <2>3. w \in StreamState
    BY <2>2 DEF StreamOK
  <2>4. u \in StreamState
    BY ONLY <2>1, <2>3 DEF StreamState
  <2>5. /\ u.held = 0 /\ u.sel = w.sel /\ u.locked = w.locked /\ u.curr = w.curr
        /\ u.clu = w.clu /\ u.cpos = w.cpos /\ u.next = w.next /\ u.nidx = w.nidx
        /\ u.got = w.got /\ (u.eos <=> w.eos)
    BY ONLY <2>1, <2>3 DEF StreamState
  <2>6. StreamOK(s, u)
    BY <2>2, <2>4, <2>5 DEF StreamOK
  <2> QED
    BY <1>2, <2>2, <2>5, <2>6 DEF Placed, Unsearched
<1>3. CASE c.kind = "stop"
  <2>1. u = StopStream(t)
    BY <1>3 DEF Commanded
  <2> QED
    BY <1>3, <2>1, StopStreamOK DEF Placed
<1>4. CASE c.kind = "restart"
  <2>1. u = RestartStream(c, s, t)
    BY <1>4 DEF Commanded
  <2> QED
    BY <1>4, <2>1, RestartStreamOK DEF Placed, SamePlace
<1>5. CASE c.kind = "pause"
  BY <1>5 DEF Commanded
<1> QED
  BY <1>1, <1>2, <1>3, <1>4, <1>5 DEF CommandSet

(***************************************************************************)
(* The queue of commands: a start follows a stop and nothing else does, no *)
(* pause follows a pause, and a restart keeps to the streams that will be  *)
(* selected when it is carried out.  SelAt is what is selected after the   *)
(* i-th command, when sel is selected now.                                 *)
(***************************************************************************)
SelAt(q, i, sel) ==
  IF q[i].kind # "pause" THEN q[i].desc ELSE IF i = 1 THEN sel ELSE q[i - 1].desc

Follow(q, i, sel) ==
  /\ q[i].kind \notin {"start", "stop"} => q[i - 1].kind # "stop"
  /\ q[i].kind = "start" => q[i - 1].kind = "stop"
  /\ q[i].kind = "pause" => q[i - 1].kind # "pause"
  /\ q[i].kind = "restart" => q[i].desc \subseteq SelAt(q, i - 1, sel)

QueueOK(q, sel) ==
  /\ q \in Seq(CommandSet) /\ q # <<>>
  /\ \A i \in 1 .. Len(q) : q[i].kind = "stop" => q[i].desc = {}
  /\ \A i \in 2 .. Len(q) : Follow(q, i, sel)
  /\ q[1].kind # "pause" => sel = q[1].desc

LEMMA QueueAppend ==
  ASSUME NEW q, NEW sel, QueueOK(q, sel), NEW c \in CommandSet,
         c.kind = "stop" => c.desc = {},
         c.kind \notin {"start", "stop"} => q[Len(q)].kind # "stop",
         c.kind = "start" => q[Len(q)].kind = "stop",
         c.kind = "pause" => q[Len(q)].kind # "pause",
         c.kind = "restart" => c.desc \subseteq SelAt(q, Len(q), sel)
  PROVE  /\ QueueOK(Append(q, c), sel) /\ Len(Append(q, c)) = Len(q) + 1
         /\ Append(q, c)[Len(q) + 1] = c
         /\ SelAt(Append(q, c), Len(q) + 1, sel) =
              IF c.kind = "pause" THEN SelAt(q, Len(q), sel) ELSE c.desc
<1> DEFINE r == Append(q, c)
<1>1. q \in Seq(CommandSet) /\ Len(q) \in Nat \ {0}
  BY DEF QueueOK
<1>2. /\ r \in Seq(CommandSet) /\ Len(r) = Len(q) + 1 /\ r # <<>> /\ r[Len(q) + 1] = c
      /\ \A i \in 1 .. Len(q) : r[i] = q[i]
  BY <1>1
<1>3. \A i \in 1 .. Len(q) : SelAt(r, i, sel) = SelAt(q, i, sel)
  BY <1>1, <1>2 DEF SelAt
<1> HIDE DEF r
<1>4. ASSUME NEW i \in 2 .. Len(r) PROVE Follow(r, i, sel)
  <2>1. CASE i = Len(q) + 1
    <3>1. r[i] = c /\ i - 1 = Len(q) /\ r[i - 1] = q[Len(q)]
      BY <1>1, <1>2, <2>1
    <3>2. SelAt(r, i - 1, sel) = SelAt(q, Len(q), sel)
      BY <1>1, <1>3, <3>1
    <3> QED
      BY <3>1, <3>2 DEF Follow
  <2>2. CASE i # Len(q) + 1
    <3>1. i \in 2 .. Len(q) /\ i - 1 \in 1 .. Len(q)
      BY <1>1, <1>2, <2>2
    <3>2. Follow(q, i, sel) /\ r[i] = q[i] /\ r[i - 1] = q[i - 1]
          /\ SelAt(r, i - 1, sel) = SelAt(q, i - 1, sel)
      BY <1>1, <1>2, <1>3, <3>1 DEF QueueOK
    <3> QED
      BY <3>2 DEF Follow
  <2> QED
    BY <2>1, <2>2
<1>5. \A i \in 1 .. Len(r) : r[i].kind = "stop" => r[i].desc = {}
  BY <1>1, <1>2 DEF QueueOK
<1>6. r[1].kind # "pause" => sel = r[1].desc
  BY <1>1, <1>2 DEF QueueOK
<1>7. SelAt(r, Len(q) + 1, sel) = IF c.kind = "pause" THEN SelAt(q, Len(q), sel) ELSE c.desc
  BY <1>1, <1>2 DEF SelAt, QueueOK
<1>8. QueueOK(r, sel)
  BY <1>2, <1>4, <1>5, <1>6 DEF QueueOK
<1> QED
  BY <1>2, <1>7, <1>8 DEF r

LEMMA QueueTail ==
  ASSUME NEW q, NEW sel, QueueOK(q, sel), Len(q) > 1, NEW now,
         now = (IF q[2].kind = "pause" THEN sel ELSE q[2].desc)
  PROVE  /\ QueueOK(Tail(q), now) /\ Len(Tail(q)) = Len(q) - 1
         /\ Tail(q)[1] = q[2] /\ Tail(q)[Len(q) - 1] = q[Len(q)]
         /\ SelAt(Tail(q), Len(q) - 1, now) = SelAt(q, Len(q), sel)
<1> DEFINE r == Tail(q)
<1>1. q \in Seq(CommandSet) /\ Len(q) \in Nat \ {0}
  BY DEF QueueOK
<1>2. /\ r \in Seq(CommandSet) /\ Len(r) = Len(q) - 1 /\ r # <<>>
      /\ \A i \in 1 .. Len(q) - 1 : r[i] = q[i + 1]
  <2>1. /\ r \in Seq(CommandSet) /\ Len(r) = Len(q) - 1
        /\ \A i \in 1 .. Len(r) : r[i] = q[i + 1]
    BY <1>1, HeadTailProperties DEF QueueOK
  <2> HIDE DEF r
  <2>2. r # <<>>
    BY <1>1, <2>1
  <2> QED
    BY <2>1, <2>2
<1> HIDE DEF r
<1>3. r[1] = q[2] /\ r[Len(q) - 1] = q[Len(q)]
  BY <1>1, <1>2
<1>4. Follow(q, 2, sel)
  BY <1>1 DEF QueueOK
<1>5. ASSUME NEW i \in 1 .. Len(q) - 1
      PROVE  SelAt(r, i, now) = SelAt(q, i + 1, sel)
  <2>1. CASE i = 1
    BY <1>1, <1>3, <1>4, <2>1 DEF SelAt, QueueOK, Follow
  <2>2. CASE i # 1
    <3>1. r[i] = q[i + 1] /\ r[i - 1] = q[i] /\ i + 1 # 1 /\ (i + 1) - 1 = i
      BY <1>1, <1>2, <2>2
    <3> QED
      BY <2>2, <3>1 DEF SelAt
  <2> QED
    BY <2>1, <2>2
<1>6. ASSUME NEW i \in 2 .. Len(r) PROVE Follow(r, i, now)
  <2>1. /\ i + 1 \in 2 .. Len(q) /\ i - 1 \in 1 .. Len(q) - 1 /\ (i - 1) + 1 = i
        /\ i \in 1 .. Len(q) - 1 /\ (i + 1) - 1 = i
    BY <1>1, <1>2
  <2>2. Follow(q, i + 1, sel) /\ r[i] = q[i + 1] /\ r[i - 1] = q[i]
        /\ SelAt(r, i - 1, now) = SelAt(q, i, sel)
    BY <1>2, <1>5, <2>1 DEF QueueOK
  <2> QED
    BY <2>1, <2>2 DEF Follow
<1>7. \A i \in 1 .. Len(r) : r[i].kind = "stop" => r[i].desc = {}
  <2> SUFFICES ASSUME NEW i \in 1 .. Len(r), r[i].kind = "stop" PROVE r[i].desc = {}
    OBVIOUS
  <2>1. i + 1 \in 1 .. Len(q) /\ r[i] = q[i + 1]
    BY <1>1, <1>2
  <2> QED
    BY <2>1 DEF QueueOK
<1>8. r[1].kind # "pause" => now = r[1].desc
  BY <1>3
<1>9. QueueOK(r, now)
  BY <1>2, <1>6, <1>7, <1>8 DEF QueueOK
<1>10. SelAt(r, Len(q) - 1, now) = SelAt(q, Len(q), sel)
  <2>1. Len(q) - 1 \in 1 .. Len(q) - 1 /\ (Len(q) - 1) + 1 = Len(q)
    BY <1>1
  <2> QED
    BY <1>5, <2>1
<1> QED
  BY <1>2, <1>3, <1>9, <1>10 DEF r

QueueInv ==
  /\ commands \in Seq(CommandSet) /\ requests \in Seq(Streams) /\ asked \subseteq Streams
  /\ ~shutdown => QueueOK(commands, Selected)
  /\ ~shutdown /\ commands[Len(commands)].kind # "stop"
       => asked \subseteq SelAt(commands, Len(commands), Selected)
  /\ NothingAsked
  /\ creation \in {"loaded", "done"} \/ Len(commands) > 1
       => \A s \in Streams : first[s] # NoBlock

StreamsInv ==
  /\ first \in [Streams -> Nat \X Nat] /\ \A s \in Streams : first[s] \in Places(s)
  /\ str \in [Streams -> StreamState] /\ \A s \in Streams : StreamOK(s, str[s])
  /\ HeldOnlyWhenPaused
  /\ ~shutdown => \A s \in Streams : Placed(str[s])
  /\ eop \in BOOLEAN /\ EndOfPresentation

(* A step that selects no stream, and queues and drops no command.         *)
LEMMA QueueKept ==
  ASSUME QueueInv, UNCHANGED <<commands, asked, shutdown, first, creation>>,
         \A s \in Streams : str'[s].sel = str[s].sel, requests' \in Seq(Streams),
         creation \in Early => requests' = <<>>
  PROVE  QueueInv' /\ Selected' = Selected
<1>1. Selected' = Selected
  BY DEF Selected
<1> QED
  BY <1>1 DEF QueueInv, NothingAsked

(* A step that works on one stream.                                        *)
LEMMA StreamUpdate ==
  ASSUME StreamsInv, UNCHANGED <<shutdown, first, commands, eop>>, NEW s \in Streams,
         NEW u, StreamOK(s, u), u.sel = str[s].sel, ~shutdown => Placed(u),
         u.eos <=> str[s].eos,
         u.held > 0 => \/ str[s].held > 0
                       \/ u.sel = 1 /\ ~shutdown /\ commands[1].kind = "pause",
         str' = [str EXCEPT ![s] = u]
  PROVE  /\ StreamsInv'
         /\ \A x \in Streams : str'[x].sel = str[x].sel
<1>1. str \in [Streams -> StreamState] /\ u \in StreamState
  BY DEF StreamsInv, StreamOK
<1>2. /\ str' \in [Streams -> StreamState]
      /\ str'[s] = u /\ \A x \in Streams : x # s => str'[x] = str[x]
  BY <1>1
<1>3. \A x \in Streams : StreamOK(x, str'[x]) /\ (~shutdown => Placed(str'[x]))
  BY <1>2 DEF StreamsInv
<1>4. \A x \in Streams : str'[x].sel = str[x].sel /\ (str'[x].eos <=> str[x].eos)
  BY <1>2
<1>5. HeldOnlyWhenPaused'
  BY <1>2 DEF StreamsInv, HeldOnlyWhenPaused
<1>6. EndOfPresentation'
  BY <1>4 DEF StreamsInv, EndOfPresentation, Selected
<1> QED
  BY <1>2, <1>3, <1>4, <1>5, <1>6 DEF StreamsInv

(* OnCommand.                                                              *)
LEMMA CommandStreams ==
  ASSUME MFAssumption, QueueInv, StreamsInv, ~shutdown, Len(commands) > 1, OnCommand,
         NEW s \in Streams
  PROVE  LET c == commands[2]
             t == str[s]
             u == str'[s]
         IN  /\ c \in CommandSet /\ (c.kind = "stop" => c.desc = {})
             /\ u = Commanded(c, s, t)
             /\ StreamOK(s, u)
             /\ c.kind # "pause" => (u.sel = 1 <=> s \in c.desc) /\ (u.sel = 1 => ~u.eos)
             /\ c.kind \in {"seek", "stop", "restart"} => u.held = 0
             /\ c.kind = "start" => u.held = 0 \/ u.held = t.held
             /\ Placed(u)
             /\ c.kind \in {"start", "seek"} /\ u.sel = 1 =>
                  /\ Unsearched(u)
                  /\ \/ u.curr = first[s] /\ u.cpos = 0
                     \/ u.curr = NoBlock /\ u.cpos # 0
             /\ c.kind = "restart" /\ u.sel = 1 => SamePlace(t, u) /\ t.sel = 1
             /\ c.kind = "pause" => u = t
<1> DEFINE c == commands[2]
<1>1. QueueOK(commands, Selected) /\ Len(commands) \in Nat
  BY DEF QueueInv
<1>2. c \in CommandSet /\ (c.kind = "stop" => c.desc = {}) /\ Follow(commands, 2, Selected)
  BY <1>1 DEF QueueOK
<1>3. c.kind = "restart" /\ s \in c.desc => str[s].sel = 1
  <2>1. c.kind = "restart" => c.desc \subseteq SelAt(commands, 1, Selected)
    BY <1>2 DEF Follow
  <2>2. SelAt(commands, 1, Selected) = Selected
    BY <1>1 DEF SelAt, QueueOK
  <2> QED
    BY <2>1, <2>2 DEF Selected
<1>4. str'[s] = Commanded(c, s, str[s])
  BY DEF OnCommand
<1>5. StreamOK(s, str[s]) /\ first[s] \in Places(s) /\ first[s] # NoBlock /\ Placed(str[s])
  BY DEF StreamsInv, QueueInv
<1> HIDE DEF c
<1>6. /\ StreamOK(s, str'[s])
      /\ c.kind # "pause" => (str'[s].sel = 1 <=> s \in c.desc)
                             /\ (str'[s].sel = 1 => ~str'[s].eos)
      /\ c.kind \in {"seek", "stop", "restart"} => str'[s].held = 0
      /\ c.kind = "start" => str'[s].held = 0 \/ str'[s].held = str[s].held
      /\ Placed(str'[s])
      /\ c.kind \in {"start", "seek"} /\ str'[s].sel = 1 =>
           /\ Unsearched(str'[s])
           /\ \/ str'[s].curr = first[s] /\ str'[s].cpos = 0
              \/ str'[s].curr = NoBlock /\ str'[s].cpos # 0
      /\ c.kind = "restart" /\ str'[s].sel = 1 => SamePlace(str[s], str'[s])
      /\ c.kind = "pause" => str'[s] = str[s]
  BY <1>2, <1>3, <1>4, <1>5, CommandedOK
<1> QED
  BY <1>2, <1>3, <1>4, <1>6 DEF c

LEMMA CommandStep ==
  ASSUME MFAssumption, QueueInv, StreamsInv, creation \notin Early, OnCommand,
         UNCHANGED <<creation, shutdown, asked, first>>
  PROVE  QueueInv' /\ StreamsInv'
<1>1. CASE shutdown
  <2>1. commands' = <<>> /\ UNCHANGED <<requests, str, eop>>
    BY <1>1 DEF OnCommand
  <2>2. QueueInv'
    BY <1>1, <2>1 DEF QueueInv, NothingAsked
  <2>3. StreamsInv'
    BY <1>1, <2>1 DEF StreamsInv, HeldOnlyWhenPaused, EndOfPresentation
  <2> QED
    BY <2>2, <2>3
<1>2. CASE ~shutdown /\ Len(commands) <= 1
  <2>1. UNCHANGED <<commands, requests, str, eop>>
    BY <1>2 DEF OnCommand
  <2> QED
    BY <2>1 DEF QueueInv, NothingAsked, Selected, StreamsInv, HeldOnlyWhenPaused,
                EndOfPresentation
<1>3. CASE ~shutdown /\ Len(commands) > 1
  <2> DEFINE c == commands[2]
  <2>1. /\ commands' = Tail(commands)
        /\ str' = [s \in Streams |-> Commanded(c, s, str[s])]
        /\ requests' = (IF c.kind = "stop" THEN <<>> ELSE requests)
        /\ eop' = (eop /\ c.kind = "pause")
    BY <1>3 DEF OnCommand
  <2>2. QueueOK(commands, Selected) /\ Len(commands) \in Nat
    BY <1>3 DEF QueueInv
  <2>3. c \in CommandSet /\ (c.kind = "stop" => c.desc = {}) /\ Follow(commands, 2, Selected)
    BY <1>3, <2>2 DEF QueueOK
  <2>4. ASSUME NEW s \in Streams
        PROVE  /\ str'[s] = Commanded(c, s, str[s]) /\ StreamOK(s, str'[s])
               /\ c.kind # "pause" => (str'[s].sel = 1 <=> s \in c.desc)
                                      /\ (str'[s].sel = 1 => ~str'[s].eos)
               /\ c.kind \in {"seek", "stop", "restart"} => str'[s].held = 0
               /\ c.kind = "start" => str'[s].held = 0 \/ str'[s].held = str[s].held
               /\ Placed(str'[s])
               /\ c.kind = "pause" => str'[s] = str[s]
    BY <1>3, CommandStreams
  <2>5. Selected' = (IF c.kind = "pause" THEN Selected ELSE c.desc)
    <3>1. CASE c.kind = "pause"
      BY <2>4, <3>1 DEF Selected
    <3>2. CASE c.kind # "pause"
      <4>1. c.desc \subseteq Streams
        BY <2>3 DEF CommandSet
      <4> QED
        BY <2>4, <3>2, <4>1 DEF Selected
    <3> QED
      BY <3>1, <3>2
  <2>6. /\ QueueOK(commands', Selected') /\ Len(commands') = Len(commands) - 1
        /\ commands'[1] = c /\ commands'[Len(commands')] = commands[Len(commands)]
        /\ SelAt(commands', Len(commands'), Selected')
             = SelAt(commands, Len(commands), Selected)
    BY <1>3, <2>1, <2>2, <2>5, QueueTail
  <2>7. requests' \in Seq(Streams)
    BY <2>1 DEF QueueInv
  <2>8. QueueInv'
    <3>1. commands' \in Seq(CommandSet)
      BY <2>6 DEF QueueOK
    <3>2. \A s \in Streams : first'[s] # NoBlock
      BY <1>3 DEF QueueInv
    <3>3. ~shutdown' /\ commands'[Len(commands')].kind # "stop"
            => asked' \subseteq SelAt(commands', Len(commands'), Selected')
      BY <2>6 DEF QueueInv
    <3>4. NothingAsked'
      BY DEF NothingAsked
    <3>5. asked' \subseteq Streams
      BY DEF QueueInv
    <3> QED
      BY <2>6, <2>7, <3>1, <3>2, <3>3, <3>4, <3>5 DEF QueueInv
  <2>9. StreamsInv'
    <3>1. str' \in [Streams -> StreamState]
      BY <2>1, <2>4 DEF StreamOK
    <3>2. \A s \in Streams : StreamOK(s, str'[s]) /\ Placed(str'[s])
      BY <2>4
    <3>3. ASSUME NEW s \in Streams, str'[s].held > 0
          PROVE  str'[s].sel = 1 /\ ~shutdown' /\ commands'[1].kind = "pause"
      <4>1. str'[s].held # 0 /\ str'[s].sel = 1
        BY <3>2, <3>3 DEF StreamOK
      <4>2. c.kind \in {"start", "pause"} /\ (c.kind = "start" => str[s].held > 0)
        BY <2>3, <2>4, <3>3, <4>1 DEF CommandSet
      <4>3. ~(c.kind = "start")
        <5>1. c.kind = "start" => commands[1].kind = "stop"
          BY <2>3 DEF Follow
        <5> QED
          BY <4>2, <5>1 DEF StreamsInv, HeldOnlyWhenPaused
      <4> QED
        BY <1>3, <2>6, <4>1, <4>2, <4>3
    <3>4. EndOfPresentation'
      <4>1. CASE c.kind = "pause"
        <5>1. (eop' <=> eop) /\ \A s \in Streams : (str'[s].eos <=> str[s].eos)
          BY <2>1, <2>4, <4>1
        <5>2. Selected' = Selected /\ eop \in BOOLEAN /\ eop' \in BOOLEAN
          BY <2>1, <2>5, <4>1 DEF StreamsInv
        <5> QED
          BY <1>3, <5>1, <5>2 DEF StreamsInv, EndOfPresentation, Selected
      <4>2. CASE c.kind # "pause"
        <5>1. eop' = FALSE /\ \A s \in Selected' : s \in Streams /\ ~str'[s].eos
          BY <2>1, <2>4, <4>2 DEF Selected
        <5> QED
          BY <5>1 DEF EndOfPresentation
      <4> QED
        BY <4>1, <4>2
    <3>5. eop' \in BOOLEAN
      BY <2>1 DEF StreamsInv
    <3>6. first' \in [Streams -> Nat \X Nat] /\ \A s \in Streams : first'[s] \in Places(s)
      BY DEF StreamsInv
    <3> QED
      BY <3>1, <3>2, <3>3, <3>4, <3>5, <3>6 DEF StreamsInv, HeldOnlyWhenPaused
  <2> QED
    BY <2>8, <2>9
<1>4. Len(commands) \in Nat
  BY DEF QueueInv
<1> QED
  BY <1>1, <1>2, <1>3, <1>4

LEMMA StreamsKept ==
  ASSUME StreamsInv, UNCHANGED <<shutdown, first, commands, eop, str>>
  PROVE  StreamsInv' /\ \A s \in Streams : str'[s].sel = str[s].sel
  BY DEF StreamsInv, HeldOnlyWhenPaused, EndOfPresentation, Selected

LEMMA ShutdownStep ==
  ASSUME MFAssumption, QueueInv, StreamsInv, ShutdownSource, UNCHANGED <<first, commands, eop>>
  PROVE  StreamsInv' /\ shutdown' /\ \A s \in Streams : str'[s].sel = str[s].sel
<1>1. \A s \in Streams : str'[s] = ShutdownStream(str[s])
  BY DEF ShutdownSource
<1>2. ASSUME NEW s \in Streams
      PROVE  StreamOK(s, str'[s]) /\ str'[s].sel = str[s].sel /\ str'[s].held = 0
  <2>1. StreamOK(s, str[s]) /\ str'[s] = ShutdownStream(str[s])
    BY <1>1 DEF StreamsInv
  <2> QED
    BY ONLY <2>1, ShutdownStreamOK
<1>3. str' \in [Streams -> StreamState]
  BY <1>2 DEF ShutdownSource, StreamOK
<1>4. shutdown'
  BY DEF ShutdownSource
<1>5. HeldOnlyWhenPaused' /\ EndOfPresentation'
  BY <1>2, <1>4 DEF HeldOnlyWhenPaused, EndOfPresentation
<1>6. \A s \in Streams : StreamOK(s, str'[s])
  BY <1>2
<1>7. eop' \in BOOLEAN /\ first' \in [Streams -> Nat \X Nat]
      /\ \A s \in Streams : first'[s] \in Places(s)
  BY DEF StreamsInv
<1> QED
  BY <1>2, <1>3, <1>4, <1>5, <1>6, <1>7 DEF StreamsInv

LEMMA StreamsHandler ==
  ASSUME MFAssumption, QueueInv, StreamsInv, ControlInv, Handler
  PROVE  QueueInv' /\ StreamsInv'
<1>1. CASE BeginCreateObject
  <2>1. UNCHANGED <<shutdown, first, commands, eop, str, requests, asked>>
        /\ creation = "none" /\ creation' \in {"loading", "refused"}
    BY <1>1 DEF BeginCreateObject, load
  <2>2. Selected' = Selected
    BY <2>1 DEF Selected
  <2> QED
    BY <2>1, <2>2, StreamsKept DEF QueueInv, NothingAsked, Early, Unloaded
<1>2. CASE CancelObjectCreation
  <2>1. UNCHANGED <<shutdown, first, commands, eop, str, requests, asked, creation>>
    BY <1>2 DEF CancelObjectCreation, load
  <2> QED
    BY <2>1, StreamsKept DEF QueueInv, NothingAsked, Selected
<1>3. CASE EndLoad
  <2>1. UNCHANGED <<first, commands, eop, requests, asked>>
        /\ creation \in {"loaded", "bad"}
    BY <1>3 DEF EndLoad, load
  <2>2. CASE creation = "bad" \/ cancelled
    <3>1. creation' = "failed" /\ ShutdownSource
      BY <1>3, <2>2 DEF EndLoad
    <3>2. StreamsInv' /\ shutdown'
      BY <2>1, <3>1, ShutdownStep
    <3>3. Len(commands) = 1
      BY <2>1 DEF QueueInv, NothingAsked, Early
    <3>4. QueueInv'
      BY <2>1, <3>1, <3>2, <3>3 DEF QueueInv, NothingAsked, Early, Unloaded
    <3> QED
      BY <3>2, <3>4
  <2>3. CASE ~(creation = "bad" \/ cancelled)
    <3>1. creation = "loaded" /\ creation' = "done" /\ UNCHANGED <<shutdown, str>>
      BY <1>3, <2>3 DEF EndLoad
    <3>2. Selected' = Selected
      BY <3>1 DEF Selected
    <3> QED
      BY <2>1, <3>1, <3>2, StreamsKept DEF QueueInv, NothingAsked, Early, Unloaded
  <2> QED
    BY <2>2, <2>3
<1>4. CASE Release
  <2>1. UNCHANGED <<shutdown, first, commands, eop, str, requests, asked>>
        /\ creation \in {"done", "failed"} /\ creation' = "released"
    BY <1>4 DEF Release, load
  <2>2. Selected' = Selected
    BY <2>1 DEF Selected
  <2> QED
    BY <2>1, <2>2, StreamsKept DEF QueueInv, NothingAsked, Early, Unloaded
<1> QED
  BY <1>1, <1>2, <1>3, <1>4 DEF Handler

(* A command is queued.                                                    *)
LEMMA QueueStep ==
  ASSUME MFAssumption, QueueInv, StreamsInv, Command, NEW kind, NEW desc, NEW pos,
         Queue(kind, desc, pos), [kind |-> kind, desc |-> desc, pos |-> pos] \in CommandSet,
         kind = "stop" => desc = {},
         kind = "start" <=> (IsStopped /\ kind # "stop"),
         kind = "pause" => ~IsPaused,
         kind = "restart" => desc \subseteq asked,
         asked' \subseteq Streams,
         kind \in {"start", "restart"} => asked' = desc,
         kind = "seek" => asked' = desc /\ asked' = asked,
         kind \in {"stop", "pause"} => asked' = asked
  PROVE  QueueInv' /\ StreamsInv'
<1> DEFINE c == [kind |-> kind, desc |-> desc, pos |-> pos]
<1>1. /\ UNCHANGED <<shutdown, str, first, eop, creation, requests>> /\ ~shutdown
      /\ commands' = Append(commands, c) /\ creation = "done"
  BY DEF Command, Call, Queue, load
<1>2. QueueOK(commands, Selected) /\ commands \in Seq(CommandSet) /\ Len(commands) \in Nat \ {0}
  BY <1>1 DEF QueueInv, QueueOK
<1>3. c.kind = kind /\ c.desc = desc /\ c \in CommandSet
  OBVIOUS
<1> HIDE DEF c
<1>4. /\ IsStopped <=> commands[Len(commands)].kind = "stop"
      /\ IsPaused <=> commands[Len(commands)].kind = "pause"
  BY DEF IsStopped, IsPaused, Last
<1>5. ~IsStopped => asked \subseteq SelAt(commands, Len(commands), Selected)
  BY <1>1, <1>4 DEF QueueInv
<1>6. /\ QueueOK(commands', Selected) /\ Len(commands') = Len(commands) + 1
      /\ commands'[Len(commands) + 1] = c
      /\ SelAt(commands', Len(commands) + 1, Selected)
           = IF c.kind = "pause" THEN SelAt(commands, Len(commands), Selected) ELSE c.desc
  BY <1>1, <1>2, <1>3, <1>4, <1>5, QueueAppend DEF CommandSet
<1>7. Selected' = Selected
  BY <1>1 DEF Selected
<1>8. ~shutdown' /\ commands'[Len(commands')].kind # "stop"
         => asked' \subseteq SelAt(commands', Len(commands'), Selected')
  BY <1>1, <1>3, <1>4, <1>5, <1>6, <1>7 DEF CommandSet
<1>9. commands' \in Seq(CommandSet) /\ requests' \in Seq(Streams)
  BY <1>1, <1>6 DEF QueueOK, QueueInv
<1>10. NothingAsked' /\ \A s \in Streams : first'[s] # NoBlock
  BY <1>1 DEF NothingAsked, Early, Unloaded, QueueInv
<1>11. QueueInv'
  BY <1>6, <1>7, <1>8, <1>9, <1>10 DEF QueueInv
<1>12. commands'[1] = commands[1]
  BY <1>1, <1>2
<1>13. StreamsInv'
  BY <1>1, <1>12 DEF StreamsInv, HeldOnlyWhenPaused, EndOfPresentation, Selected
<1> QED
  BY <1>11, <1>13

LEMMA StreamsPipeline ==
  ASSUME MFAssumption, QueueInv, StreamsInv, Pipeline
  PROVE  QueueInv' /\ StreamsInv'
<1>0. asked \subseteq Streams /\ \A desc \in Descs \cup Restarts : desc \subseteq Streams
  BY DEF QueueInv, MFAssumption
<1>1. ASSUME NEW pos \in SeekTo, Seek(pos) PROVE QueueInv' /\ StreamsInv'
  <2>1. [kind |-> "seek", desc |-> asked, pos |-> pos] \in CommandSet
    BY <1>0 DEF CommandSet, MFAssumption, Clusters
  <2>2. Command /\ Queue("seek", asked, pos) /\ ~IsStopped /\ asked' = asked
    BY <1>1 DEF Seek
  <2> QED
    BY <1>0, <2>1, <2>2, QueueStep
<1>2. ASSUME NEW pos \in SeekTo, NEW desc \in Descs, Start(desc, pos)
      PROVE  QueueInv' /\ StreamsInv'
  <2>1. [kind |-> "start", desc |-> desc, pos |-> pos] \in CommandSet
    BY <1>0 DEF CommandSet, MFAssumption, Clusters
  <2>2. Command /\ Queue("start", desc, pos) /\ IsStopped /\ asked' = desc
    BY <1>2 DEF Start
  <2> QED
    BY <1>0, <2>1, <2>2, QueueStep
<1>3. ASSUME NEW desc \in Restarts, Restart(desc) PROVE QueueInv' /\ StreamsInv'
  <2>1. [kind |-> "restart", desc |-> desc, pos |-> 1] \in CommandSet
    BY <1>0 DEF CommandSet
  <2>2. Command /\ Queue("restart", desc, 1) /\ ~IsStopped /\ desc \subseteq asked
        /\ asked' = desc
    BY <1>3 DEF Restart
  <2> QED
    BY <1>0, <2>1, <2>2, QueueStep
<1>4. CASE Stop
  <2>1. [kind |-> "stop", desc |-> {}, pos |-> 1] \in CommandSet
    BY DEF CommandSet
  <2>2. Command /\ Queue("stop", {}, 1) /\ asked' = asked
    BY <1>4 DEF Stop
  <2> QED
    BY <1>0, <2>1, <2>2, QueueStep
<1>5. CASE Pause
  <2>1. [kind |-> "pause", desc |-> {}, pos |-> 1] \in CommandSet
    BY DEF CommandSet
  <2>2. Command /\ Queue("pause", {}, 1) /\ ~IsStopped /\ ~IsPaused /\ asked' = asked
    BY <1>5 DEF Pause
  <2> QED
    BY <1>0, <2>1, <2>2, QueueStep
<1>6. CASE SetRate
  <2>1. UNCHANGED <<shutdown, first, commands, eop, str, requests, asked, creation>>
    BY <1>6 DEF SetRate, Command, Call, load
  <2> QED
    BY <2>1, StreamsKept DEF QueueInv, NothingAsked, Selected
<1>7. CASE Shutdown
  <2>1. ShutdownSource /\ UNCHANGED <<first, commands, eop, requests, asked, creation>>
        /\ creation = "done"
    BY <1>7 DEF Shutdown, Command, Call, load
  <2>2. StreamsInv' /\ shutdown'
    BY <2>1, ShutdownStep
  <2>3. QueueInv'
    BY <2>1, <2>2 DEF QueueInv, NothingAsked, Early, Unloaded
  <2> QED
    BY <2>2, <2>3
<1>8. ASSUME NEW s \in Streams, RequestSample(s) PROVE QueueInv' /\ StreamsInv'
  <2>1. /\ UNCHANGED <<shutdown, first, commands, eop, str, asked, creation>>
        /\ creation = "done" /\ requests' = Append(requests, s)
    BY <1>8 DEF RequestSample, Call, load
  <2>2. requests' \in Seq(Streams)
    BY <2>1 DEF QueueInv
  <2>3. \A x \in Streams : str'[x].sel = str[x].sel
    BY <2>1
  <2>4. QueueInv'
    BY <2>1, <2>2, <2>3, QueueKept DEF Early, Unloaded
  <2> QED
    BY <2>1, <2>4, StreamsKept
<1> QED
  BY <1>1, <1>2, <1>3, <1>4, <1>5, <1>6, <1>7, <1>8 DEF Pipeline

(* The worker's steps that carry out no command and work on no stream.     *)
LEMMA StreamsMoves ==
  ASSUME MFAssumption, QueueInv, StreamsInv,
         ReadDone \/ Wake \/ Quits \/ RequestArrives \/ CancelDone \/ OnAsyncRead \/ TurnIdle
           \/ BytesAreHere \/ NextInit \/ NextParse
  PROVE  QueueInv' /\ StreamsInv'
<1>1. UNCHANGED <<shutdown, first, commands, eop, str, requests, asked, creation>>
  <2> USE DEF api, load
  <2>1. CASE ReadDone
    BY <2>1 DEF ReadDone
  <2>2. CASE Wake
    BY <2>2 DEF Wake
  <2>3. CASE Quits
    BY <2>3 DEF Quits
  <2>4. CASE RequestArrives
    BY <2>4 DEF RequestArrives
  <2>5. CASE CancelDone
    BY <2>5 DEF CancelDone
  <2>6. CASE OnAsyncRead
    BY <2>6 DEF OnAsyncRead
  <2>7. CASE TurnIdle
    BY <2>7 DEF TurnIdle
  <2>8. CASE BytesAreHere
    BY <2>8 DEF BytesAreHere, PlayStep
  <2>9. CASE NextInit
    BY <2>9 DEF NextInit, PlayStep
  <2>10. CASE NextParse
    BY <2>10 DEF NextParse, PlayStep
  <2> QED
    BY <2>1, <2>2, <2>3, <2>4, <2>5, <2>6, <2>7, <2>8, <2>9, <2>10
<1>2. requests' \in Seq(Streams) /\ (creation \in Early => requests' = <<>>)
  BY <1>1 DEF QueueInv, NothingAsked
<1>3. \A s \in Streams : str'[s].sel = str[s].sel
  BY <1>1
<1> QED
  BY <1>1, <1>2, <1>3, QueueKept, StreamsKept

LEMMA StreamsCommands ==
  ASSUME MFAssumption, ControlInv, QueueInv, StreamsInv, CommandArrives \/ TurnToCommand
  PROVE  QueueInv' /\ StreamsInv'
<1>1. OnCommand /\ UNCHANGED <<creation, shutdown, asked, first>>
  BY DEF CommandArrives, TurnToCommand, api, load
<1>2. creation \notin Early
  <2>1. CASE CommandArrives
    BY <2>1 DEF CommandArrives, ControlInv, Early, Unloaded
  <2>2. CASE TurnToCommand
    BY <2>2 DEF TurnToCommand, Turn, ControlInv, Early, Unloaded, QueueInv, NothingAsked
  <2> QED
    BY <2>1, <2>2
<1> QED
  BY <1>1, <1>2, CommandStep

LEMMA StreamsTurnEnds ==
  ASSUME MFAssumption, ControlInv, QueueInv, StreamsInv, TurnEnds
  PROVE  QueueInv' /\ StreamsInv'
<1>1. /\ shutdown /\ commands' = <<>> /\ requests' = <<>>
      /\ UNCHANGED <<creation, shutdown, asked, first, str, eop>>
  BY DEF TurnEnds, api, load
<1>2. QueueInv'
  BY <1>1 DEF QueueInv, NothingAsked, ControlInv
<1> QED
  BY <1>1, <1>2 DEF StreamsInv, HeldOnlyWhenPaused, EndOfPresentation

(***************************************************************************)
(* Reading and parsing: no more is parsed of a cluster than there is, the  *)
(* clusters found while loading are the first ones, and a read under way   *)
(* has pages to come.                                                      *)
(***************************************************************************)
ParsedInv ==
  /\ io \in 0 .. MaxPages /\ (hr \in {"pending", "more"} => io > 0)
  /\ want \in 0 .. Len(File) + 1 /\ pCurr \in 0 .. Len(File) /\ pNext \in 0 .. Len(File)
  /\ parsed \in [Clusters -> Int] /\ \A c \in Clusters : parsed[c] \in -1 .. Size(c)
  /\ creation \in Unloaded =>
       \E k \in 0 .. Len(File) : \A c \in Clusters : parsed[c] >= 0 <=> c <= k
  /\ creation \in Unloaded /\ at = "read" =>
       /\ astate \in {"parseCluster", "initStreams"} => Count # 0
       /\ astate = "parseCluster" => ~Complete(Count)

LEMMA CountIs ==
  ASSUME MFAssumption, NEW k \in 0 .. Len(File),
         \A c \in Clusters : parsed[c] >= 0 <=> c <= k
  PROVE  Count = k
<1>1. Len(File) \in Nat /\ Clusters = 1 .. Len(File)
  BY FileTypes
<1>2. {c \in Clusters : parsed[c] >= 0} = 1 .. k
  BY <1>1
<1>3. Cardinality(1 .. k) = k
  BY <1>1, FS_Interval
<1> QED
  BY <1>2, <1>3 DEF Count

LEMMA CountPrime ==
  ASSUME MFAssumption, NEW k \in 0 .. Len(File),
         \A c \in Clusters : parsed'[c] >= 0 <=> c <= k
  PROVE  Count' = k
<1>1. Len(File) \in Nat /\ Clusters = 1 .. Len(File)
  BY FileTypes
<1>2. {c \in Clusters : parsed'[c] >= 0} = 1 .. k
  BY <1>1
<1>3. Cardinality(1 .. k) = k
  BY <1>1, FS_Interval
<1> QED
  BY <1>2, <1>3 DEF Count

(* The clusters found while the source is loaded.                          *)
LEMMA CountTypes ==
  ASSUME MFAssumption, ParsedInv, creation \in Unloaded
  PROVE  /\ Count \in 0 .. Len(File) /\ Len(File) \in Nat /\ Clusters = 1 .. Len(File)
         /\ \A c \in Clusters : parsed[c] >= 0 <=> c <= Count
<1>1. PICK k \in 0 .. Len(File) : \A c \in Clusters : parsed[c] >= 0 <=> c <= k
  BY DEF ParsedInv
<1>2. Count = k
  BY <1>1, CountIs
<1> QED
  BY <1>1, <1>2, FileTypes

(* The first block of s in a cluster, if it has been parsed.               *)
LEMMA FirstOnIn ==
  ASSUME MFAssumption, NEW s, NEW c \in Clusters, NEW n \in Int, n <= Size(c),
         NEW b, b = FirstOn(c, s, n)
  PROVE  /\ b = NoBlock \/ b \in Own(s)
         /\ b # NoBlock => /\ b[1] = c /\ b[2] <= n
                           /\ \A d \in Own(s) : d[1] = c => b[2] <= d[2]
<1> DEFINE mine == {i \in 1 .. n : File[c][i] = s}
<1>1. mine \subseteq Nat /\ \A i \in mine : i \in 1 .. Size(c)
  BY FileTypes
<1>2. CASE mine = {}
  BY <1>2 DEF FirstOn
<1>3. CASE mine # {}
  <2>1. Least(mine) \in mine /\ \A y \in mine : Least(mine) <= y
    BY <1>1, <1>3, LeastIn
  <2>2. b = <<c, Least(mine)>>
    BY <1>3 DEF FirstOn
  <2>3. \A i \in mine : i \in 1 .. Size(c) /\ File[c][i] = s /\ i <= n
    BY <1>1
  <2>4. b \in Own(s) /\ b[1] = c /\ b[2] = Least(mine) /\ b[2] <= n
    <3> HIDE DEF mine
    <3>1. Least(mine) \in 1 .. Size(c) /\ File[c][Least(mine)] = s /\ Least(mine) <= n
      BY <2>1, <2>3
    <3>2. b \in Blocks /\ b[1] = c /\ b[2] = Least(mine)
      BY <2>2, <3>1, InBlocks
    <3> QED
      BY <3>1, <3>2 DEF Own
  <2>5. ASSUME NEW d \in Own(s), d[1] = c PROVE b[2] <= d[2]
    <3>1. d[2] \in 1 .. Size(c) /\ File[c][d[2]] = s
      BY <2>5, BlockTypes DEF Own
    <3>2. CASE d[2] <= n
      <4>1. d[2] \in mine
        BY <3>1, <3>2
      <4> QED
        BY <2>1, <2>4, <4>1
    <3>3. CASE ~(d[2] <= n)
      <4>1. b[2] \in Nat /\ d[2] \in Nat
        BY <2>4, BlockTypes DEF Own
      <4> QED
        BY <2>4, <3>3, <4>1
    <3> QED
      BY <3>2, <3>3
  <2> QED
    BY <2>4, <2>5
<1> QED
  BY <1>2, <1>3

(* Loading: no stream is touched, the first blocks are found.              *)
LEMMA StreamsLoad ==
  ASSUME MFAssumption, ControlInv, QueueInv, StreamsInv, ParsedInv, Load
  PROVE  QueueInv' /\ StreamsInv'
<1>1. /\ UNCHANGED <<shutdown, commands, eop, str, requests, asked>>
      /\ at = "read" /\ astate \in LoadStates /\ woken = "async"
      /\ creation' \in {creation, "loaded", "bad"}
  <2> USE DEF LoadStep, Ready, LoadStates, Loads, LoadStalls, LoadFails, LoadComplete
  <2>1. CASE ParseEbmlHeader
    BY <2>1 DEF ParseEbmlHeader
  <2>2. CASE ParseSegmentHeaders
    BY <2>2 DEF ParseSegmentHeaders
  <2>3. CASE ParseCues
    BY <2>3 DEF ParseCues
  <2>4. CASE LoadCluster
    BY <2>4 DEF LoadCluster
  <2>5. CASE ParseCluster
    BY <2>5 DEF ParseCluster
  <2>6. CASE InitStreams
    BY <2>6 DEF InitStreams
  <2> QED
    BY <2>1, <2>2, <2>3, <2>4, <2>5, <2>6 DEF Load
<1>2. creation = "loading" /\ ~shutdown
  BY <1>1 DEF ControlInv, ControlTypes, Unloaded, Early, LoadStates, PlayStates, FrontStates,
              CurrStates, NextStates
<1>3. Len(commands) = 1 /\ commands[1].kind = "stop" /\ requests = <<>> /\ Selected' = Selected
  BY <1>1, <1>2 DEF QueueInv, NothingAsked, Early, Unloaded, Selected
<1>4. /\ first' \in [Streams -> Nat \X Nat]
      /\ \A s \in Streams : first'[s] \in Places(s)
      /\ creation' = "loaded" => \A s \in Streams : first'[s] # NoBlock
  <2>1. CASE InitStreams
    <3> DEFINE found == [s \in Streams |-> IF first[s] # NoBlock THEN first[s]
                                           ELSE FirstOn(Count, s, parsed[Count])]
               last  == [s \in Streams |-> IF found[s] = NoBlock THEN EndBlock ELSE found[s]]
    <3>1. \/ /\ first' = last
             /\ creation' = "loaded"
          \/ first' = found /\ creation' = creation
      BY <2>1 DEF InitStreams, LoadComplete, Loads
    <3>2. Count \in Clusters /\ parsed[Count] \in Int /\ parsed[Count] <= Size(Count)
      <4>1. Count # 0
        BY <1>2, <2>1 DEF InitStreams, LoadStep, Ready, ParsedInv, Unloaded
      <4>2. Count \in Clusters
        BY <1>2, <4>1, CountTypes DEF Unloaded
      <4> QED
        BY <4>2, FileTypes DEF ParsedInv
    <3>3. \A s \in Streams : found[s] \in Places(s)
      <4> SUFFICES ASSUME NEW s \in Streams PROVE found[s] \in Places(s)
        OBVIOUS
      <4>1. FirstOn(Count, s, parsed[Count]) \in Places(s)
        BY <3>2, FirstOnIn DEF Places
      <4> QED
        BY <4>1 DEF StreamsInv
    <3> HIDE DEF found
    <3>4. \A s \in Streams : last[s] \in Places(s) /\ last[s] # NoBlock
      BY <3>3, NoBlockTypes DEF Places
    <3>5. \A s \in Streams : first'[s] \in Places(s)
      BY <3>1, <3>3, <3>4
    <3>6. \A s \in Streams : first'[s] \in Nat \X Nat
      BY <3>5, PlaceTypes
    <3>7. DOMAIN first' = Streams /\ first' = [s \in Streams |-> first'[s]]
      BY <3>1 DEF found
    <3> QED
      BY <1>2, <3>1, <3>4, <3>5, <3>6, <3>7
  <2>2. CASE ~InitStreams
    <3>1. first' = first /\ creation' # "loaded"
      <4> USE DEF load, LoadStep, Loads, LoadStalls, LoadFails, LoadComplete
      <4>1. CASE ParseEbmlHeader
        BY <1>2, <4>1 DEF ParseEbmlHeader
      <4>2. CASE ParseSegmentHeaders
        BY <1>2, <4>2 DEF ParseSegmentHeaders
      <4>3. CASE ParseCues
        BY <1>2, <4>3 DEF ParseCues
      <4>4. CASE LoadCluster
        BY <1>2, <4>4 DEF LoadCluster
      <4>5. CASE ParseCluster
        BY <1>2, <4>5 DEF ParseCluster
      <4> QED
        BY <2>2, <4>1, <4>2, <4>3, <4>4, <4>5 DEF Load
    <3> QED
      BY <3>1 DEF StreamsInv
  <2> QED
    BY <2>1, <2>2
<1>5. QueueInv'
  <2>1. creation' \in {"loading", "loaded", "bad"}
    BY <1>1, <1>2
  <2>2. NothingAsked'
    BY <1>1, <1>3 DEF NothingAsked
  <2>3. creation' \in {"loaded", "done"} \/ Len(commands') > 1
          => \A s \in Streams : first'[s] # NoBlock
    BY <1>1, <1>3, <1>4, <2>1
  <2> QED
    BY <1>1, <1>3, <2>2, <2>3 DEF QueueInv
<1>6. StreamsInv'
  BY <1>1, <1>4 DEF StreamsInv, HeldOnlyWhenPaused, EndOfPresentation, Selected
<1> QED
  BY <1>5, <1>6

(* A step that parses nothing and does not go on with loading.             *)
LEMMA ParsedKept ==
  ASSUME ParsedInv, UNCHANGED <<parsed, pCurr, pNext>>, want' \in 0 .. Len(File) + 1,
         io' \in 0 .. MaxPages, hr' \in {"pending", "more"} => io' > 0,
         creation' \in Unloaded => creation \in Unloaded /\ (at' = "read" => at = "read" /\ astate' = astate)
  PROVE  ParsedInv'
<1>1. Count' = Count /\ (Complete(Count) <=> Complete(Count)')
  BY DEF Count, Complete
<1> QED
  BY <1>1 DEF ParsedInv

LEMMA ParsedHandler ==
  ASSUME MFAssumption, ControlInv, ParsedInv, Handler \/ Pipeline \/ ReadDone
  PROVE  ParsedInv'
<1>0. Len(File) \in Nat /\ MaxPages \in Nat \ {0}
  BY FileTypes DEF MFAssumption
<1>1. CASE BeginCreateObject
  <2>1. UNCHANGED <<parsed, pCurr, pNext, at, astate>> /\ creation = "none"
    BY <1>1 DEF BeginCreateObject, curs
  <2>2. /\ want' \in 0 .. Len(File) + 1 /\ io' \in 0 .. MaxPages
        /\ hr' \in {"pending", "more"} => io' > 0
    <3>1. CASE Stall(1)
      BY <1>0, <3>1 DEF Stall
    <3>2. CASE HaveBytes
      BY <1>0, <3>2 DEF HaveBytes
    <3> QED
      BY <1>1, <3>1, <3>2 DEF BeginCreateObject, ParsedInv
  <2> QED
    BY <2>1, <2>2, ParsedKept DEF Unloaded
<1>2. CASE CancelObjectCreation \/ EndLoad \/ Release
  <2>1. UNCHANGED <<parsed, pCurr, pNext, at, astate, hr, io, want>>
    BY <1>2 DEF CancelObjectCreation, EndLoad, Release, disk, curs
  <2>2. creation' \in Unloaded => creation \in Unloaded
    BY <1>2 DEF CancelObjectCreation, EndLoad, Release, Unloaded
  <2> QED
    BY <2>1, <2>2, ParsedKept DEF ParsedInv
<1>3. CASE Pipeline
  <2>1. UNCHANGED <<parsed, pCurr, pNext, at, astate, hr, io, want, creation>>
    BY <1>3 DEF Pipeline, Seek, Start, Restart, Stop, Pause, SetRate, Shutdown, RequestSample,
                Command, Call, disk, curs
  <2> QED
    BY <2>1, ParsedKept DEF ParsedInv
<1>4. CASE ReadDone
  <2>1. UNCHANGED <<parsed, pCurr, pNext, at, astate, want, creation>>
    BY <1>4 DEF ReadDone, api, curs
  <2>2. /\ want' \in 0 .. Len(File) + 1 /\ io' \in 0 .. MaxPages
        /\ hr' \in {"pending", "more"} => io' > 0
    BY <1>0, <1>4, <2>1 DEF ReadDone, ParsedInv
  <2> QED
    BY <2>1, <2>2, ParsedKept
<1> QED
  BY <1>1, <1>2, <1>3, <1>4 DEF Handler

LEMMA ParsedMoves ==
  ASSUME MFAssumption, ControlInv, QueueInv, ParsedInv,
         Wake \/ Quits \/ CommandArrives \/ RequestArrives \/ CancelDone \/ OnAsyncRead
           \/ TurnEnds \/ TurnToCommand
  PROVE  ParsedInv'
<1>0. Len(File) \in Nat /\ MaxPages \in Nat \ {0}
  BY FileTypes DEF MFAssumption
<1> USE DEF api, disk, curs, Go
<1>1. CASE Wake \/ Quits \/ CommandArrives \/ RequestArrives
  <2>1. UNCHANGED <<parsed, pCurr, pNext, astate, hr, io, want, creation>>
    BY <1>1 DEF Wake, Quits, CommandArrives, RequestArrives
  <2>2. at' = "read" => at = "read"
    BY <1>1 DEF Wake, Quits, CommandArrives, RequestArrives
  <2> QED
    BY <2>1, <2>2, ParsedKept DEF ParsedInv
<1>2. CASE CancelDone
  BY <1>0, <1>2, ParsedKept DEF CancelDone, Back, HaveBytes
<1>3. CASE OnAsyncRead
  <2>1. /\ UNCHANGED <<parsed, pCurr, pNext, astate, want, io, creation>>
        /\ hr' = hr \/ (hr = "more" /\ hr' = "pending")
    <3>1. CASE shutdown /\ Back /\ UNCHANGED <<told, disk>>
      BY <1>3, <3>1 DEF OnAsyncRead, Back
    <3>2. CASE hr = "fail" /\ Dies(TRUE) /\ UNCHANGED disk
      BY <1>3, <3>2 DEF OnAsyncRead, Dies
    <3>3. CASE /\ hr = "more" /\ hr' = "pending"
               /\ Go("read") /\ UNCHANGED <<told, ev, astate, io, want, parsed>>
      BY <1>3, <3>3 DEF OnAsyncRead
    <3> QED
      BY <1>3, <3>1, <3>2, <3>3 DEF OnAsyncRead
  <2>2. at = "read"
    BY <1>3 DEF OnAsyncRead
  <2> QED
    BY <2>1, <2>2, ParsedKept DEF ParsedInv
<1>4. CASE TurnEnds \/ TurnToCommand
  <2>1. UNCHANGED <<parsed, pCurr, pNext, hr, io, want, creation>> /\ at' # "read"
    BY <1>4 DEF TurnEnds, TurnToCommand
  <2> QED
    BY <2>1, ParsedKept DEF ParsedInv
<1> QED
  BY <1>1, <1>2, <1>3, <1>4

(* Loading: the clusters are found one after the other.                    *)
LEMMA ParsedLoad ==
  ASSUME MFAssumption, ControlInv, ParsedInv, Load
  PROVE  ParsedInv'
<1>0. Len(File) \in Nat /\ MaxPages \in Nat \ {0}
  BY FileTypes DEF MFAssumption
<1> USE DEF LoadStep, Ready, curs
<1>1. /\ at = "read" /\ astate \in LoadStates /\ woken = "async"
      /\ UNCHANGED <<pCurr, pNext>>
  <2>1. \E state \in LoadStates : LoadStep(state)
    BY DEF LoadStates, Load, ParseEbmlHeader, ParseSegmentHeaders, ParseCues, LoadCluster, ParseCluster,
           InitStreams
  <2> QED
    BY <2>1
<1>2. creation = "loading"
  BY <1>1 DEF ControlInv, ControlTypes, Unloaded, Early, LoadStates, PlayStates, FrontStates,
              CurrStates, NextStates
<1>3. /\ Count \in 0 .. Len(File) /\ Clusters = 1 .. Len(File)
      /\ \A c \in Clusters : parsed[c] >= 0 <=> c <= Count
  BY <1>2, CountTypes DEF Unloaded
<1>4. pCurr' \in 0 .. Len(File) /\ pNext' \in 0 .. Len(File)
  BY <1>1 DEF ParsedInv
<1> DEFINE Reads == /\ io' \in 0 .. MaxPages /\ (hr' \in {"pending", "more"} => io' > 0)
                    /\ want' \in 0 .. Len(File) + 1
<1>5. HaveBytes => Reads
  BY <1>0 DEF HaveBytes
<1>6. ASSUME NEW c \in 0 .. Len(File) + 1, Stall(c) PROVE Reads
  BY <1>0, <1>6 DEF Stall
<1>7. ASSUME UNCHANGED parsed, Reads,
             creation' \in Unloaded /\ at' = "read" => astate' \notin {"parseCluster", "initStreams"}
      PROVE  ParsedInv'
  BY <1>2, <1>4, <1>7 DEF ParsedInv, Unloaded
<1>8. ASSUME UNCHANGED <<parsed, astate>>, Reads
      PROVE  ParsedInv'
  <2>1. Count' = Count /\ (Complete(Count) <=> Complete(Count)')
    BY <1>8 DEF Count, Complete
  <2> QED
    BY <1>1, <1>2, <1>4, <1>8, <2>1 DEF ParsedInv, Unloaded
<1>9. LoadFails => Reads /\ creation' = "bad"
  BY <1>5 DEF LoadFails, LoadComplete
<1>10. ASSUME NEW c \in 0 .. Len(File) + 1, LoadStalls(c) PROVE Reads /\ UNCHANGED astate
  BY <1>6, <1>10 DEF LoadStalls, Pending
<1> HIDE DEF Reads
<1>11. CASE ParseEbmlHeader
  <2>1. Loads("headers") => Reads /\ astate' = "headers"
    BY <1>5 DEF Loads, Again, Loop
  <2>2. UNCHANGED parsed
    BY <1>11 DEF ParseEbmlHeader
  <2> QED
    BY <1>7, <1>9, <1>11, <2>1, <2>2 DEF ParseEbmlHeader, Unloaded
<1>12. CASE ParseSegmentHeaders
  <2>1. ASSUME NEW x \in {"cues", "loadCluster"}, Loads(x) PROVE Reads /\ astate' = x
    BY <1>5, <2>1 DEF Loads, Again, Loop
  <2>2. UNCHANGED parsed
    BY <1>12 DEF ParseSegmentHeaders
  <2>3. 1 \in 0 .. Len(File) + 1
    BY <1>0
  <2>4. CASE LoadStalls(1)
    BY <1>8, <1>10, <2>2, <2>3, <2>4
  <2>5. CASE LoadFails
    BY <1>7, <1>9, <2>2, <2>5 DEF Unloaded
  <2>6. CASE Loads("cues") \/ Loads("loadCluster")
    BY <1>7, <2>1, <2>2, <2>6
  <2> QED
    BY <1>12, <2>4, <2>5, <2>6 DEF ParseSegmentHeaders
<1>13. CASE ParseCues
  <2>1. Loads("loadCluster") => Reads /\ astate' = "loadCluster"
    BY <1>5 DEF Loads, Again, Loop
  <2>2. UNCHANGED parsed
    BY <1>13 DEF ParseCues
  <2>3. 1 \in 0 .. Len(File) + 1
    BY <1>0
  <2>4. CASE LoadStalls(1)
    BY <1>8, <1>10, <2>2, <2>3, <2>4
  <2>5. CASE LoadFails
    BY <1>7, <1>9, <2>2, <2>5 DEF Unloaded
  <2>6. CASE Loads("loadCluster")
    BY <1>7, <2>1, <2>2, <2>6
  <2> QED
    BY <1>13, <2>4, <2>5, <2>6 DEF ParseCues
<1>14. CASE LoadCluster
  <2>1. CASE LoadStalls(Count + 1) /\ UNCHANGED parsed
    <3>1. Count + 1 \in 0 .. Len(File) + 1
      BY <1>0, <1>3
    <3> QED
      BY <1>8, <1>10, <2>1, <3>1
  <2>2. CASE LoadFails /\ UNCHANGED parsed
    BY <1>7, <1>9, <2>2 DEF Unloaded
  <2>3. CASE Count = Len(File) /\ LoadComplete(FALSE) /\ UNCHANGED parsed
    <3>1. Reads /\ creation' = "bad"
      BY <1>5, <2>3 DEF LoadComplete
    <3> QED
      BY <1>7, <2>3, <3>1 DEF Unloaded
  <2>4. CASE Count # Len(File) /\ ParseTo(Count + 1, 0) /\ Loads("initStreams")
    <3>1. Count + 1 \in Clusters
      BY <1>0, <1>3, <2>4
    <3>2. /\ parsed' = [parsed EXCEPT ![Count + 1] = 0] /\ Reads /\ creation' = creation
          /\ astate' = "initStreams"
      BY <1>5, <2>4 DEF ParseTo, Loads, Again, Loop
    <3>3. parsed' \in [Clusters -> Int] /\ \A c \in Clusters : parsed'[c] \in -1 .. Size(c)
      BY <3>1, <3>2, FileTypes DEF ParsedInv
    <3>4. \A c \in Clusters : parsed'[c] >= 0 <=> c <= Count + 1
      <4> SUFFICES ASSUME NEW c \in Clusters PROVE parsed'[c] >= 0 <=> c <= Count + 1
        OBVIOUS
      <4>1. Count \in Int /\ c \in Int /\ (parsed[c] >= 0 <=> c <= Count)
        BY <1>0, <1>3
      <4>2. CASE c = Count + 1
        <5>1. parsed'[c] = 0
          BY <3>1, <3>2, <4>2 DEF ParsedInv
        <5> QED
          BY <4>1, <4>2, <5>1
      <4>3. CASE c # Count + 1
        <5>1. parsed'[c] = parsed[c] /\ parsed[c] \in Int
          BY <3>2, <4>3 DEF ParsedInv
        <5> QED
          BY <4>1, <4>3, <5>1
      <4> QED
        BY <4>2, <4>3
    <3>5. Count + 1 \in 0 .. Len(File)
      BY <1>0, <1>3, <2>4
    <3>6. Count' = Count + 1
      BY <3>4, <3>5, CountPrime
    <3>7. Count' # 0
      BY <1>3, <3>6
    <3> QED
      BY <1>4, <3>2, <3>3, <3>4, <3>5, <3>7 DEF ParsedInv, Reads
  <2> QED
    BY <1>14, <2>1, <2>2, <2>3, <2>4 DEF LoadCluster
<1>15. CASE ParseCluster
  <2>0. Count # 0 /\ ~Complete(Count) /\ Count \in Clusters
    BY <1>0, <1>2, <1>3, <1>15 DEF ParseCluster, ParsedInv, Unloaded
  <2>1. CASE LoadStalls(Count) /\ UNCHANGED parsed
    <3>1. Count \in 0 .. Len(File) + 1
      BY <1>0, <1>3
    <3> QED
      BY <1>8, <1>10, <2>1, <3>1
  <2>2. CASE LoadFails /\ UNCHANGED parsed
    BY <1>7, <1>9, <2>2 DEF Unloaded
  <2>3. CASE ParseTo(Count, parsed[Count] + 1) /\ Loads("initStreams")
    <3>1. /\ parsed' = [parsed EXCEPT ![Count] = parsed[Count] + 1] /\ Reads
          /\ creation' = creation /\ astate' = "initStreams"
      BY <1>5, <2>3 DEF ParseTo, Loads, Again, Loop
    <3>2. parsed[Count] \in 0 .. Size(Count) /\ parsed[Count] # Size(Count) /\ Size(Count) \in Nat
      BY <1>3, <2>0, FileTypes DEF ParsedInv, Complete
    <3>3. parsed[Count] + 1 \in 1 .. Size(Count)
      BY <3>2
    <3>4. parsed' \in [Clusters -> Int] /\ \A c \in Clusters : parsed'[c] \in -1 .. Size(c)
      BY <2>0, <3>1, <3>3, FileTypes DEF ParsedInv
    <3>5. \A c \in Clusters : parsed'[c] >= 0 <=> c <= Count
      <4> SUFFICES ASSUME NEW c \in Clusters PROVE parsed'[c] >= 0 <=> c <= Count
        OBVIOUS
      <4>1. Count \in Int /\ c \in Int /\ (parsed[c] >= 0 <=> c <= Count)
        BY <1>0, <1>3
      <4>2. CASE c = Count
        <5>1. parsed'[c] = parsed[Count] + 1
          BY <2>0, <3>1, <4>2 DEF ParsedInv
        <5>2. parsed'[c] >= 0 /\ c <= Count
          BY <3>3, <4>1, <4>2, <5>1, <2>0, FileTypes
        <5> QED
          BY <5>2
      <4>3. CASE c # Count
        <5>1. parsed'[c] = parsed[c]
          BY <3>1, <4>3 DEF ParsedInv
        <5> QED
          BY <4>1, <5>1
      <4> QED
        BY <4>2, <4>3
    <3>6. Count' = Count
      BY <1>3, <3>5, CountPrime
    <3> QED
      BY <1>3, <1>4, <2>0, <3>1, <3>4, <3>5, <3>6 DEF ParsedInv, Reads
  <2> QED
    BY <1>15, <2>1, <2>2, <2>3 DEF ParseCluster
<1>16. CASE InitStreams
  <2>1. UNCHANGED parsed
    BY <1>16 DEF InitStreams
  <2>2. Count # 0
    BY <1>2, <1>16 DEF InitStreams, ParsedInv, Unloaded
  <2>3. CASE LoadComplete(TRUE)
    <3>1. Reads /\ creation' = "loaded"
      BY <1>5, <2>3 DEF LoadComplete
    <3> QED
      BY <1>7, <2>1, <3>1 DEF Unloaded
  <2>4. CASE Loads(IF Complete(Count) THEN "loadCluster" ELSE "parseCluster")
    <3>1. /\ Reads /\ creation' = creation
          /\ astate' = (IF Complete(Count) THEN "loadCluster" ELSE "parseCluster")
      BY <1>5, <2>4 DEF Loads, Again, Loop
    <3>2. Count' = Count /\ (Complete(Count) <=> Complete(Count)')
      BY <2>1 DEF Count, Complete
    <3> QED
      BY <1>3, <1>4, <2>1, <2>2, <3>1, <3>2 DEF ParsedInv, Reads
  <2> QED
    BY <1>16, <2>3, <2>4 DEF InitStreams
<1> QED
  BY <1>11, <1>12, <1>13, <1>14, <1>15, <1>16 DEF Load

(* The number of members of a set of numbers below m, which grows by one   *)
(* at each member.                                                         *)
Rank(S, m) == Cardinality({j \in S : j < m})

LEMMA RankStep ==
  ASSUME NEW S, S \subseteq Nat, IsFiniteSet(S), NEW m \in Nat
  PROVE  /\ Rank(S, m) \in Nat
         /\ Rank(S, m + 1) = Rank(S, m) + (IF m \in S THEN 1 ELSE 0)
<1> DEFINE B == {j \in S : j < m}
<1>0. \A j \in S : j \in Int /\ (j < m + 1 <=> j < m \/ j = m)
  OBVIOUS
<1>1. IsFiniteSet(B)
  BY FS_Subset
<1>2. Cardinality(B) \in Nat
  BY <1>1, FS_CardinalityType
<1>3. CASE m \in S
  <2>0. m \notin B
    OBVIOUS
  <2>1. {j \in S : j < m + 1} = B \cup {m} /\ m \notin B
    BY <1>0, <1>3, <2>0
  <2>2. Cardinality(B \cup {m}) = Cardinality(B) + 1
    BY <1>1, <2>1, FS_AddElement
  <2> QED
    BY <1>2, <1>3, <2>1, <2>2 DEF Rank
<1>4. CASE m \notin S
  <2>1. {j \in S : j < m + 1} = B
    BY <1>0, <1>4
  <2> QED
    BY <1>2, <1>4, <2>1 DEF Rank
<1> QED
  BY <1>3, <1>4

LEMMA RankGrows ==
  ASSUME NEW S, S \subseteq Nat, IsFiniteSet(S), NEW i \in Nat, NEW m \in Nat, i <= m
  PROVE  Rank(S, i) <= Rank(S, m)
<1>0. \A j \in S : j \in Int /\ (j < i => j < m)
  OBVIOUS
<1>1. {j \in S : j < i} \subseteq {j \in S : j < m}
  BY <1>0
<1>2. IsFiniteSet({j \in S : j < m})
  BY FS_Subset
<1> QED
  BY <1>1, <1>2, FS_Subset DEF Rank

(* Every rank has its member.                                              *)
LEMMA RankTaken ==
  ASSUME NEW n \in Nat, NEW S, S \subseteq 1 .. n
  PROVE  /\ IsFiniteSet(S) /\ Cardinality(S) \in Nat
         /\ \A k \in 1 .. Cardinality(S) : \E i \in S : Rank(S, i) = k - 1
         /\ \A i, l \in S : i < l => Rank(S, i) < Rank(S, l)
         /\ \A i \in S : Rank(S, i) \in 0 .. Cardinality(S) - 1
<1>0. \A j \in S : j \in Nat /\ j < n + 1 /\ ~(j < 0)
  OBVIOUS
<1>1. S \subseteq Nat /\ IsFiniteSet(S) /\ Cardinality(S) \in Nat
  <2>1. IsFiniteSet(1 .. n)
    BY FS_Interval
  <2>2. IsFiniteSet(S)
    BY <2>1, FS_Subset
  <2> QED
    BY <1>0, <2>2, FS_CardinalityType
<1>2. ASSUME NEW k \in 1 .. Cardinality(S) PROVE \E i \in S : Rank(S, i) = k - 1
  <2> DEFINE T == {m \in Nat : Rank(S, m) >= k}
  <2>1. {j \in S : j < n + 1} = S
    BY <1>0
  <2>2. Rank(S, n + 1) = Cardinality(S)
    BY <2>1 DEF Rank
  <2>3. n + 1 \in T
    BY <1>1, <2>2
  <2>4. PICK m \in T : \A y \in T : m <= y
    BY <2>3, LeastIn
  <2>5. {j \in S : j < 0} = {}
    BY <1>0
  <2>6. Rank(S, 0) = 0
    BY <2>5, FS_EmptySet DEF Rank
  <2>7. m # 0 /\ m \in Nat /\ Rank(S, m) >= k
    BY <2>4, <2>6
  <2>8. m - 1 \in Nat /\ m - 1 \notin T
    BY <2>4, <2>7
  <2>9. /\ Rank(S, m - 1) \in Nat
        /\ Rank(S, (m - 1) + 1) = Rank(S, m - 1) + (IF m - 1 \in S THEN 1 ELSE 0)
    BY <1>1, <2>8, RankStep
  <2>10. (m - 1) + 1 = m
    BY <2>7
  <2>11. m - 1 \in S /\ Rank(S, m - 1) = k - 1
    BY <2>7, <2>8, <2>9, <2>10
  <2> QED
    BY <2>11
<1>3. ASSUME NEW i \in S, NEW l \in Nat, i < l PROVE Rank(S, i) < Rank(S, l)
  <2>1. Rank(S, i) \in Nat /\ Rank(S, i + 1) = Rank(S, i) + 1
    BY <1>1, RankStep
  <2>2. Rank(S, i + 1) <= Rank(S, l) /\ Rank(S, l) \in Nat
    <3>1. i + 1 \in Nat /\ i + 1 <= l
      BY <1>0, <1>3
    <3> QED
      BY <1>1, <3>1, RankGrows, RankStep
  <2> QED
    BY <2>1, <2>2
<1>4. ASSUME NEW i \in S PROVE Rank(S, i) \in 0 .. Cardinality(S) - 1
  <2>1. Rank(S, i) < Rank(S, n + 1)
    BY <1>1, <1>3
  <2>2. {j \in S : j < n + 1} = S
    BY <1>0
  <2>3. Rank(S, n + 1) = Cardinality(S)
    BY <2>2 DEF Rank
  <2>4. Rank(S, i) \in Nat
    BY <1>1, RankStep
  <2> QED
    BY <1>1, <2>1, <2>3, <2>4
<1> QED
  BY <1>1, <1>2, <1>3, <1>4

(* The blocks of s in a part of a cluster, each of them once and in order. *)
Listed(s, c, i, n, q) ==
  /\ q \in Seq(Own(s))
  /\ \A k \in 1 .. Len(q) : q[k][1] = c /\ i <= q[k][2] /\ q[k][2] <= n
  /\ \A k, l \in 1 .. Len(q) : k < l => q[k][2] < q[l][2]
  /\ \A d \in Own(s) : d[1] = c /\ i <= d[2] /\ d[2] <= n
       => \E k \in 1 .. Len(q) : q[k] = d

LEMMA BlocksListed ==
  ASSUME MFAssumption, NEW s, NEW c \in Clusters, NEW from \in Nat \ {0},
         NEW upto \in Int, upto <= Size(c), NEW q, q = BlocksOf(s, c, from, upto)
  PROVE  Listed(s, c, from, upto, q)
<1> DEFINE mine == {i \in from .. upto : File[c][i] = s}
           At(k) == CHOOSE i \in mine : Cardinality({j \in mine : j < i}) = k - 1
<1>1. Size(c) \in Nat /\ c \in Nat /\ \A i \in mine : i \in 1 .. Size(c) /\ from <= i /\ i <= upto
  BY FileTypes
<1>2. mine \subseteq 1 .. Size(c)
  BY <1>1
<1>3. q = [k \in 1 .. Cardinality(mine) |-> <<c, At(k)>>]
  BY DEF BlocksOf
<1>4. \A i \in mine : <<c, i>> \in Own(s)
  <2> SUFFICES ASSUME NEW i \in mine PROVE <<c, i>> \in Own(s)
    OBVIOUS
  <2>1. <<c, i>> \in Blocks
    BY <1>1, InBlocks
  <2> QED
    BY <2>1 DEF Own
<1>5. \A d \in Own(s) : d[1] = c /\ from <= d[2] /\ d[2] <= upto => d[2] \in mine /\ d = <<c, d[2]>>
  <2> SUFFICES ASSUME NEW d \in Own(s), d[1] = c, from <= d[2], d[2] <= upto
               PROVE  d[2] \in mine /\ d = <<c, d[2]>>
    OBVIOUS
  <2>1. d[2] \in Nat /\ d = <<d[1], d[2]>> /\ File[d[1]][d[2]] = s
    BY BlockTypes DEF Own
  <2> QED
    BY <2>1
<1> HIDE DEF mine
<1>6. /\ Cardinality(mine) \in Nat
      /\ \A k \in 1 .. Cardinality(mine) : \E i \in mine : Rank(mine, i) = k - 1
      /\ \A i, l \in mine : i < l => Rank(mine, i) < Rank(mine, l)
      /\ \A i \in mine : Rank(mine, i) \in 0 .. Cardinality(mine) - 1
  BY <1>1, <1>2, RankTaken
<1>7. \A k \in 1 .. Cardinality(mine) : At(k) \in mine /\ Rank(mine, At(k)) = k - 1
  BY <1>6 DEF Rank
<1> HIDE DEF At
<1>8. Len(q) = Cardinality(mine) /\ \A k \in 1 .. Len(q) : q[k] = <<c, At(k)>>
  BY <1>3, <1>6
<1>9. q \in Seq(Own(s))
  <2>1. \A k \in 1 .. Cardinality(mine) : <<c, At(k)>> \in Own(s)
    BY <1>4, <1>7
  <2>2. q \in [1 .. Cardinality(mine) -> Own(s)]
    BY <1>3, <2>1
  <2> QED
    BY ONLY <1>6, <2>2
<1>10. ASSUME NEW k \in 1 .. Len(q)
       PROVE  q[k][1] = c /\ q[k][2] = At(k) /\ At(k) \in mine /\ Rank(mine, At(k)) = k - 1
  BY <1>7, <1>8
<1>11. ASSUME NEW k \in 1 .. Len(q), NEW l \in 1 .. Len(q), k < l
       PROVE  q[k][2] < q[l][2]
  <2>1. At(k) \in Nat /\ At(l) \in Nat
    BY <1>1, <1>10
  <2>2. ~(At(l) < At(k)) /\ At(l) # At(k)
    BY <1>6, <1>10, <1>11
  <2> QED
    BY <1>10, <2>1, <2>2, SMTT(30)
<1>12. ASSUME NEW d \in Own(s), d[1] = c, from <= d[2], d[2] <= upto
       PROVE  \E k \in 1 .. Len(q) : q[k] = d
  <2>1. d[2] \in mine /\ d = <<c, d[2]>>
    BY <1>5, <1>12
  <2>2. Rank(mine, d[2]) \in 0 .. Cardinality(mine) - 1
    BY <1>6, <2>1
  <2> DEFINE k == Rank(mine, d[2]) + 1
  <2>3. k \in 1 .. Len(q) /\ Rank(mine, d[2]) = k - 1
    BY <1>6, <1>8, <2>2
  <2> HIDE DEF k
  <2>4. At(k) \in mine /\ Rank(mine, At(k)) = k - 1 /\ q[k] = <<c, At(k)>>
    BY <1>7, <1>8, <2>3
  <2>5. At(k) \in Nat /\ d[2] \in Nat
    BY <1>1, <2>1, <2>4
  <2>6. Rank(mine, At(k)) = Rank(mine, d[2]) /\ Rank(mine, d[2]) \in Int
    BY <2>2, <2>3, <2>4
  <2>7. ~(At(k) < d[2])
    BY <1>6, <2>1, <2>4, <2>6
  <2>8. ~(d[2] < At(k))
    BY <1>6, <2>1, <2>4, <2>6
  <2>9. At(k) = d[2]
    BY <2>5, <2>7, <2>8
  <2> QED
    BY <2>1, <2>3, <2>4, <2>9
<1>13. \A k \in 1 .. Len(q) : q[k][1] = c /\ from <= q[k][2] /\ q[k][2] <= upto
  BY <1>1, <1>10
<1> QED
  BY <1>9, <1>11, <1>12, <1>13 DEF Listed

(* The search leaves alone what a stream is and where it stands.           *)
Alike(t, u) ==
  /\ u.sel = t.sel /\ (u.eos <=> t.eos) /\ u.curr = t.curr /\ u.cpos = t.cpos
  /\ u.clu = t.clu /\ u.locked = t.locked /\ u.held = t.held /\ u.got = t.got

LEMMA AlikeOK ==
  ASSUME NEW s, NEW t, StreamOK(s, t), NEW u \in StreamState, Alike(t, u), u.next \in Places(s)
  PROVE  StreamOK(s, u) /\ (Placed(t) => Placed(u))
<1>1. /\ t.cpos \in 0 .. Len(File) /\ t.clu \in 0 .. Len(File) /\ t.curr \in Places(s)
      /\ t.locked # NoBlock => t.locked = t.curr
      /\ t.sel # 1 => t.curr = NoBlock /\ t.clu = 0 /\ t.held = 0
  BY DEF StreamOK
<1> QED
  BY <1>1 DEF StreamOK, Alike, Placed

LEMMA BegunIs ==
  ASSUME MFAssumption, NEW s, NEW t, StreamOK(s, t), NEW u, u = Begun(s, t)
  PROVE  /\ StreamOK(s, u) /\ Alike(t, u) /\ u.next = t.next
         /\ u.nidx \in Nat \ {0} /\ u.group \in Seq(Nat \X Nat)
         /\ t.nidx # 0 => u = t
         /\ t.nidx = 0 => u.nidx = t.curr[2] + 1 /\ u.group = <<t.curr>>
<1>1. CASE t.nidx # 0
  <2>1. u = t
    BY <1>1 DEF Begun
  <2>2. t.nidx \in Nat /\ t.group \in Seq(Nat \X Nat)
    BY DEF StreamOK, StreamState
  <2> QED
    BY <1>1, <2>1, <2>2 DEF Alike
<1>2. CASE t.nidx = 0
  <2>1. t \in StreamState /\ t.next \in Places(s) /\ t.curr \in Nat \X Nat
    BY PlaceTypes DEF StreamOK
  <2>2. t.curr[2] + 1 \in Nat \ {0} /\ <<t.curr>> \in Seq(Nat \X Nat)
    BY <2>1
  <2>3. u = [t EXCEPT !.nidx = t.curr[2] + 1, !.ext = 0, !.group = <<t.curr>>]
    BY <1>2 DEF Begun
  <2>4. u \in StreamState
    BY ONLY <2>1, <2>2, <2>3 DEF StreamState
  <2>5. /\ u.sel = t.sel /\ (u.eos <=> t.eos) /\ u.curr = t.curr /\ u.cpos = t.cpos
        /\ u.clu = t.clu /\ u.locked = t.locked /\ u.held = t.held /\ u.got = t.got
        /\ u.next = t.next /\ u.nidx = t.curr[2] + 1 /\ u.group = <<t.curr>>
    BY ONLY <2>1, <2>3 DEF StreamState
  <2>6. Alike(t, u)
    BY <2>5 DEF Alike
  <2>7. StreamOK(s, u)
    BY <2>1, <2>4, <2>5, <2>6, AlikeOK
  <2> QED
    BY <1>2, <2>2, <2>5, <2>6, <2>7
<1> QED
  BY <1>1, <1>2

(***************************************************************************)
(* What a search of a cluster, parsed up to block n, has made of a stream: *)
(* the next block has not been found, or it is the first one that follows. *)
(***************************************************************************)
NotFound(s, t, c, n, u) ==
  /\ \A i \in t.nidx .. n : ~Follows(s, t.curr, <<c, i>>)
  /\ u.next = t.next /\ u.nidx = (IF n = Size(c) THEN 1 ELSE n + 1)
  /\ u.group = t.group \o BlocksOf(s, c, t.nidx, n)

FoundAt(s, t, c, n, u, i) ==
  /\ i \in t.nidx .. n /\ Follows(s, t.curr, <<c, i>>)
  /\ \A j \in t.nidx .. i - 1 : ~Follows(s, t.curr, <<c, j>>)
  /\ u.next = <<c, i>> /\ <<c, i>> \in Own(s) /\ u.nidx = i
  /\ u.group = t.group \o BlocksOf(s, c, t.nidx, i - 1)

LEMMA ScanIs ==
  ASSUME MFAssumption, NEW s, NEW t, StreamOK(s, t), t.nidx # 0, NEW c \in Clusters,
         NEW n \in Nat, n <= Size(c), NEW u, u = Scan(s, t, c, n)
  PROVE  /\ StreamOK(s, u) /\ Alike(t, u) /\ u.nidx # 0
         /\ NotFound(s, t, c, n, u) \/ \E i \in t.nidx .. n : FoundAt(s, t, c, n, u, i)
<1> DEFINE hits == {i \in t.nidx .. n : Follows(s, t.curr, <<c, i>>)}
           stop == IF hits = {} THEN n + 1 ELSE Least(hits)
           more == BlocksOf(s, c, t.nidx, stop - 1)
           next == IF hits = {} /\ n = Size(c) THEN 1 ELSE stop
           v    == [t EXCEPT !.group = t.group \o more, !.nidx = next]
<1>1. t \in StreamState /\ t.next \in Places(s) /\ Size(c) \in Nat /\ c \in Nat
  BY FileTypes DEF StreamOK
<1>2. t.nidx \in Nat \ {0} /\ t.group \in Seq(Nat \X Nat)
  BY ONLY <1>1, t.nidx # 0 DEF StreamState
<1>3. hits \subseteq Nat
  BY <1>2
<1>4. hits # {} => /\ stop \in t.nidx .. n /\ Follows(s, t.curr, <<c, stop>>)
                   /\ \A j \in t.nidx .. stop - 1 : ~Follows(s, t.curr, <<c, j>>)
  <2>1. SUFFICES ASSUME hits # {} PROVE /\ stop \in hits /\ \A y \in hits : stop <= y
    <3>1. ASSUME stop \in hits, \A y \in hits : stop <= y
          PROVE  /\ stop \in t.nidx .. n /\ Follows(s, t.curr, <<c, stop>>)
                 /\ \A j \in t.nidx .. stop - 1 : ~Follows(s, t.curr, <<c, j>>)
      <4>1. stop \in t.nidx .. n /\ Follows(s, t.curr, <<c, stop>>)
        BY <3>1
      <4>2. ASSUME NEW j \in t.nidx .. stop - 1 PROVE j \notin hits /\ j \in t.nidx .. n
        <5> HIDE DEF hits, stop
        <5>1. j \in t.nidx .. n /\ ~(stop <= j)
          BY <1>2, <4>1
        <5> QED
          BY <3>1, <5>1
      <4> QED
        BY <4>1, <4>2
    <3> QED
      BY <3>1
  <2> QED
    BY <1>3, <2>1, LeastIn
<1>5. stop \in Nat /\ stop - 1 \in Int /\ stop - 1 <= Size(c) /\ stop # 0 /\ next \in Nat \ {0}
  BY <1>1, <1>2, <1>4, SMTT(30)
<1> HIDE DEF hits, stop, next
<1>6. more \in Seq(Own(s))
  BY <1>2, <1>5, BlocksListed DEF Listed
<1>7. Own(s) \subseteq Nat \X Nat
  BY BlockTypes DEF Own
<1>8. more \in Seq(Nat \X Nat)
  BY <1>6, <1>7
<1> HIDE DEF more
<1>9. t.group \o more \in Seq(Nat \X Nat)
  BY <1>2, <1>8
<1>10. v \in StreamState
  BY ONLY <1>1, <1>5, <1>9 DEF StreamState
<1>11. /\ v.sel = t.sel /\ (v.eos <=> t.eos) /\ v.curr = t.curr /\ v.cpos = t.cpos
       /\ v.clu = t.clu /\ v.locked = t.locked /\ v.held = t.held /\ v.got = t.got
       /\ v.next = t.next /\ v.nidx = next /\ v.group = t.group \o more
  BY ONLY <1>1 DEF StreamState
<1>12. CASE hits = {}
  <2>1. u = v
    BY <1>12 DEF Scan, hits, stop, next, more
  <2>2. Alike(t, u)
    BY <1>11, <2>1 DEF Alike
  <2>3. StreamOK(s, u)
    BY <1>1, <1>10, <1>11, <2>1, <2>2, AlikeOK
  <2>4. more = BlocksOf(s, c, t.nidx, n) /\ next = (IF n = Size(c) THEN 1 ELSE n + 1)
    BY <1>12 DEF more, stop, next
  <2>5. \A i \in t.nidx .. n : ~Follows(s, t.curr, <<c, i>>)
    BY <1>12 DEF hits
  <2>6. NotFound(s, t, c, n, u)
    BY <1>11, <2>1, <2>4, <2>5 DEF NotFound
  <2> QED
    BY <1>5, <1>11, <2>1, <2>2, <2>3, <2>6
<1>13. CASE hits # {}
  <2>1. u = Found(v, <<c, stop>>)
    BY <1>13 DEF Scan, hits, stop, next, more
  <2>2. next = stop
    BY <1>13 DEF next
  <2>3. stop \in t.nidx .. n /\ Follows(s, t.curr, <<c, stop>>)
        /\ \A j \in t.nidx .. stop - 1 : ~Follows(s, t.curr, <<c, j>>)
    BY <1>4, <1>13
  <2>4. stop \in 1 .. Size(c)
    BY <1>1, <1>2, <2>3
  <2>5. <<c, stop>> \in Own(s)
    BY <2>3, <2>4, InBlocks DEF Own, Follows
  <2>6. <<c, stop>> \in Nat \X Nat /\ Len(v.group) \in Nat
    BY <1>1, <1>5, <1>9, <1>11
  <2> HIDE DEF v
  <2>7. u \in StreamState
    BY ONLY <1>10, <2>1, <2>6 DEF StreamState, Found
  <2>8. /\ u.sel = v.sel /\ (u.eos <=> v.eos) /\ u.curr = v.curr /\ u.cpos = v.cpos
        /\ u.clu = v.clu /\ u.locked = v.locked /\ u.held = v.held /\ u.got = v.got
        /\ u.next = <<c, stop>> /\ u.nidx = v.nidx /\ u.group = v.group
    BY ONLY <1>10, <2>1 DEF StreamState, Found
  <2>9. Alike(t, u)
    BY <1>11, <2>8 DEF Alike
  <2>10. StreamOK(s, u)
    BY <2>5, <2>7, <2>8, <2>9, AlikeOK DEF Places
  <2>11. FoundAt(s, t, c, n, u, stop)
    BY <1>11, <2>2, <2>3, <2>5, <2>8 DEF FoundAt, more
  <2> QED
    BY <1>5, <1>11, <2>2, <2>3, <2>8, <2>9, <2>10, <2>11
<1> QED
  BY <1>12, <1>13

(* A search that reaches the end of the file.                              *)
LEMMA FoundEnd ==
  ASSUME NEW s, NEW t, StreamOK(s, t), NEW u, u = Found(t, EndBlock)
  PROVE  StreamOK(s, u) /\ Alike(t, u) /\ u.next = EndBlock /\ u.nidx = t.nidx
         /\ u.group = t.group
<1>1. t \in StreamState /\ EndBlock \in Nat \X Nat /\ EndBlock \in Places(s)
  BY NoBlockTypes DEF StreamOK, Places
<1>2. Len(t.group) \in Nat
  BY <1>1 DEF StreamState
<1>3. u \in StreamState
  BY ONLY <1>1, <1>2, u = Found(t, EndBlock) DEF StreamState, Found
<1>4. /\ u.sel = t.sel /\ (u.eos <=> t.eos) /\ u.curr = t.curr /\ u.cpos = t.cpos
      /\ u.clu = t.clu /\ u.locked = t.locked /\ u.held = t.held /\ u.got = t.got
      /\ u.next = EndBlock /\ u.nidx = t.nidx /\ u.group = t.group
  BY ONLY <1>1, u = Found(t, EndBlock) DEF StreamState, Found
<1>5. Alike(t, u)
  BY <1>4 DEF Alike
<1> QED
  BY <1>1, <1>3, <1>4, <1>5, AlikeOK

(* How far a cluster is parsed for a stream that searches it.              *)
LEMMA NeedsIs ==
  ASSUME MFAssumption, NEW s, NEW t, t.nidx \in Nat \ {0}, NEW c \in Clusters
  PROVE  /\ Needs(s, t, c) \in 1 .. Size(c)
         /\ \A i \in t.nidx .. Needs(s, t, c) - 1 : ~Follows(s, t.curr, <<c, i>>)
         /\ Needs(s, t, c) # Size(c) =>
              /\ Needs(s, t, c) \in t.nidx .. Size(c)
              /\ Follows(s, t.curr, <<c, Needs(s, t, c)>>)
<1> DEFINE n    == Needs(s, t, c)
           hits == {i \in t.nidx .. Size(c) : Follows(s, t.curr, <<c, i>>)}
<1>1. Size(c) \in Nat \ {0} /\ n = (IF hits = {} THEN Size(c) ELSE Least(hits))
  BY FileTypes DEF Needs
<1>2. hits \subseteq Nat /\ \A i \in t.nidx .. Size(c) : i \notin hits => ~Follows(s, t.curr, <<c, i>>)
  BY <1>1
<1>3. \A i \in hits : i \in t.nidx .. Size(c) /\ Follows(s, t.curr, <<c, i>>)
  OBVIOUS
<1>6. SUFFICES /\ n \in 1 .. Size(c) /\ \A i \in t.nidx .. n - 1 : ~Follows(s, t.curr, <<c, i>>)
               /\ n # Size(c) => n \in t.nidx .. Size(c) /\ Follows(s, t.curr, <<c, n>>)
  OBVIOUS
<1> HIDE DEF hits, n
<1>4. CASE hits = {}
  <2>1. n = Size(c)
    BY <1>1, <1>4
  <2>2. \A i \in t.nidx .. n - 1 : ~Follows(s, t.curr, <<c, i>>)
    <3>1. ASSUME NEW i \in t.nidx .. n - 1 PROVE i \in t.nidx .. Size(c)
      BY <1>1, <2>1
    <3> QED
      BY <1>2, <1>4, <3>1
  <2> QED
    BY <1>1, <2>1, <2>2
<1>5. CASE hits # {}
  <2>1. n \in hits /\ \A y \in hits : n <= y
    BY <1>1, <1>2, <1>5, LeastIn
  <2>2. n \in t.nidx .. Size(c) /\ Follows(s, t.curr, <<c, n>>)
    BY <1>3, <2>1
  <2>3. ASSUME NEW i \in t.nidx .. n - 1 PROVE ~Follows(s, t.curr, <<c, i>>)
    <3>1. i \in t.nidx .. Size(c) /\ ~(n <= i)
      BY <1>1, <2>2
    <3> QED
      BY <1>2, <2>1, <3>1
  <2>4. n \in 1 .. Size(c)
    BY <1>1, <2>2
  <2>5. \A i \in t.nidx .. n - 1 : ~Follows(s, t.curr, <<c, i>>)
    BY <2>3
  <2> QED
    BY <2>2, <2>4, <2>5
<1> QED
  BY <1>4, <1>5

(* The stream of the request in front, when it has a block.                *)
LEMMA Serving ==
  ASSUME MFAssumption, StreamsInv, NEW s \in Streams, IsBlock(str[s].curr)
  PROVE  /\ StreamOK(s, str[s]) /\ str[s].curr \in Own(s) /\ str[s].curr[1] \in Clusters
         /\ str[s].curr[2] \in 1 .. Size(str[s].curr[1])
         /\ str[s].sel = 1 /\ Begun(s, str[s]).curr = str[s].curr
<1>1. StreamOK(s, str[s])
  BY DEF StreamsInv
<1>2. str[s].curr \in Own(s)
  BY <1>1, PlaceTypes DEF StreamOK
<1>3. str[s].sel = 1
  BY <1>1, NoBlockTypes DEF StreamOK
<1>4. Begun(s, str[s]).curr = str[s].curr
  BY <1>1, BegunIs DEF Alike
<1> QED
  BY <1>1, <1>2, <1>3, <1>4, BlockTypes DEF Own

LEMMA KnownIs ==
  ASSUME MFAssumption, StreamsInv, NEW s \in Streams, IsBlock(str[s].curr),
         NEW t, t = Begun(s, str[s]), NEW c, c = str[s].curr[1], NEW u, u = Known(s)
  PROVE  /\ StreamOK(s, u) /\ Alike(str[s], u)
         /\ str[s].next # NoBlock => u = str[s]
         /\ str[s].next = NoBlock =>
              NotFound(s, t, c, Size(c), u) \/ \E i \in t.nidx .. Size(c) : FoundAt(s, t, c, Size(c), u, i)
<1>1. /\ StreamOK(s, str[s]) /\ c \in Clusters /\ t.curr = str[s].curr
      /\ StreamOK(s, t) /\ Alike(str[s], t) /\ t.nidx # 0
  BY Serving, BegunIs
<1>2. CASE str[s].next # NoBlock
  BY <1>1, <1>2 DEF Known, Alike
<1>3. CASE str[s].next = NoBlock
  <2>1. u = Scan(s, t, c, Size(c))
    BY <1>1, <1>3 DEF Known
  <2>2. Size(c) \in Nat /\ Size(c) <= Size(c)
    BY <1>1, FileTypes
  <2>3. /\ StreamOK(s, u) /\ Alike(t, u)
        /\ NotFound(s, t, c, Size(c), u) \/ \E i \in t.nidx .. Size(c) : FoundAt(s, t, c, Size(c), u, i)
    BY <1>1, <2>1, <2>2, ScanIs
  <2>4. Alike(str[s], u)
    BY <1>1, <2>3 DEF Alike
  <2> QED
    BY <1>3, <2>3, <2>4
<1> QED
  BY <1>2, <1>3

(* The other steps on one stream.                                          *)
LEMMA ExtOK ==
  ASSUME NEW s, NEW t, StreamOK(s, t), NEW e \in Nat, NEW u, u = [t EXCEPT !.ext = e]
  PROVE  StreamOK(s, u) /\ Alike(t, u) /\ u.next = t.next /\ u.nidx = t.nidx
         /\ u.group = t.group /\ u.ext = e
<1>1. t \in StreamState /\ t.next \in Places(s)
  BY DEF StreamOK
<1>2. u \in StreamState
  BY ONLY <1>1, e \in Nat, u = [t EXCEPT !.ext = e] DEF StreamState
<1>3. /\ u.sel = t.sel /\ (u.eos <=> t.eos) /\ u.curr = t.curr /\ u.cpos = t.cpos
      /\ u.clu = t.clu /\ u.locked = t.locked /\ u.held = t.held /\ u.got = t.got
      /\ u.next = t.next /\ u.nidx = t.nidx /\ u.group = t.group /\ u.ext = e
  BY ONLY <1>1, u = [t EXCEPT !.ext = e] DEF StreamState
<1>4. Alike(t, u)
  BY <1>3 DEF Alike
<1> QED
  BY <1>1, <1>2, <1>3, <1>4, AlikeOK

LEMMA LockOK ==
  ASSUME NEW s, NEW t, StreamOK(s, t), NEW u, u = LockCurrBlock(t)
  PROVE  StreamOK(s, u) /\ u.sel = t.sel /\ (u.eos <=> t.eos) /\ u.held = t.held
         /\ SamePlace(t, u)
<1>1. t \in StreamState /\ t.next \in Places(s)
  BY DEF StreamOK
<1>2. u \in StreamState
  BY ONLY <1>1, u = LockCurrBlock(t) DEF StreamState, LockCurrBlock
<1>3. /\ u.sel = t.sel /\ (u.eos <=> t.eos) /\ u.held = t.held /\ u.locked = t.curr
      /\ u.curr = t.curr /\ u.cpos = t.cpos /\ u.clu = t.clu /\ u.next = t.next
      /\ u.nidx = t.nidx /\ u.group = t.group /\ u.ext = t.ext /\ u.got = t.got
  BY ONLY <1>1, u = LockCurrBlock(t) DEF StreamState, LockCurrBlock
<1>4. /\ t.cpos \in 0 .. Len(File) /\ t.clu \in 0 .. Len(File) /\ t.curr \in Places(s)
      /\ t.sel # 1 => t.curr = NoBlock /\ t.clu = 0 /\ t.held = 0
  BY DEF StreamOK
<1> QED
  BY <1>1, <1>2, <1>3, <1>4 DEF StreamOK, SamePlace

LEMMA CluOK ==
  ASSUME MFAssumption, NEW s, NEW t, StreamOK(s, t), t.sel = 1, NEW c, c \in 0 .. Len(File),
         NEW u, u = [t EXCEPT !.clu = c]
  PROVE  /\ StreamOK(s, u) /\ u.sel = t.sel /\ (u.eos <=> t.eos) /\ u.held = t.held
         /\ u.curr = t.curr /\ u.cpos = t.cpos /\ u.clu = c /\ u.next = t.next
         /\ u.nidx = t.nidx /\ u.group = t.group /\ u.got = t.got
<1>1. t \in StreamState /\ c \in Nat
  BY DEF StreamOK
<1>2. u \in StreamState
  BY ONLY <1>1, u = [t EXCEPT !.clu = c] DEF StreamState
<1>3. /\ u.sel = t.sel /\ (u.eos <=> t.eos) /\ u.held = t.held /\ u.locked = t.locked
      /\ u.curr = t.curr /\ u.cpos = t.cpos /\ u.clu = c /\ u.next = t.next
      /\ u.nidx = t.nidx /\ u.group = t.group /\ u.ext = t.ext /\ u.got = t.got
  BY ONLY <1>1, u = [t EXCEPT !.clu = c] DEF StreamState
<1>4. /\ t.cpos \in 0 .. Len(File) /\ t.curr \in Places(s) /\ t.next \in Places(s)
      /\ t.locked # NoBlock => t.locked = t.curr
  BY DEF StreamOK
<1> QED
  BY <1>2, <1>3, <1>4 DEF StreamOK

LEMMA CurrOK ==
  ASSUME MFAssumption, NEW s, NEW t, StreamOK(s, t), t.sel = 1, t.curr = NoBlock,
         NEW b, b \in Places(s), NEW u, u = [t EXCEPT !.curr = b]
  PROVE  /\ StreamOK(s, u) /\ u.sel = t.sel /\ (u.eos <=> t.eos) /\ u.held = t.held
         /\ u.curr = b /\ u.cpos = t.cpos /\ u.clu = t.clu /\ u.next = t.next
         /\ u.nidx = t.nidx /\ u.group = t.group /\ u.got = t.got
<1>1. t \in StreamState /\ b \in Nat \X Nat
  BY PlaceTypes DEF StreamOK
<1>2. u \in StreamState
  BY ONLY <1>1, u = [t EXCEPT !.curr = b] DEF StreamState
<1>3. /\ u.sel = t.sel /\ (u.eos <=> t.eos) /\ u.held = t.held /\ u.locked = t.locked
      /\ u.curr = b /\ u.cpos = t.cpos /\ u.clu = t.clu /\ u.next = t.next
      /\ u.nidx = t.nidx /\ u.group = t.group /\ u.ext = t.ext /\ u.got = t.got
  BY ONLY <1>1, u = [t EXCEPT !.curr = b] DEF StreamState
<1>4. /\ t.cpos \in 0 .. Len(File) /\ t.clu \in 0 .. Len(File) /\ t.next \in Places(s)
      /\ t.locked = NoBlock
  BY DEF StreamOK
<1> QED
  BY <1>2, <1>3, <1>4 DEF StreamOK

LEMMA EosOK ==
  ASSUME NEW s, NEW t, StreamOK(s, t), NEW u, u = [t EXCEPT !.eos = TRUE]
  PROVE  StreamOK(s, u) /\ u.sel = t.sel /\ u.eos /\ u.held = t.held /\ SamePlace(t, u)
<1>1. t \in StreamState
  BY DEF StreamOK
<1>2. u \in StreamState
  BY ONLY <1>1, u = [t EXCEPT !.eos = TRUE] DEF StreamState
<1>3. /\ u.sel = t.sel /\ u.eos /\ u.held = t.held /\ u.locked = t.locked
      /\ u.curr = t.curr /\ u.cpos = t.cpos /\ u.clu = t.clu /\ u.next = t.next
      /\ u.nidx = t.nidx /\ u.group = t.group /\ u.ext = t.ext /\ u.got = t.got
  BY ONLY <1>1, u = [t EXCEPT !.eos = TRUE] DEF StreamState
<1>4. /\ t.cpos \in 0 .. Len(File) /\ t.clu \in 0 .. Len(File) /\ t.next \in Places(s)
      /\ t.curr \in Places(s) /\ (t.locked # NoBlock => t.locked = t.curr)
      /\ t.sel # 1 => t.curr = NoBlock /\ t.clu = 0 /\ t.held = 0
  BY DEF StreamOK
<1> QED
  BY <1>2, <1>3, <1>4 DEF StreamOK, SamePlace

(* A sample has been made of what the search has found.                    *)
Sampled(t, h) ==
  [t EXCEPT !.got = t.group, !.curr = t.next, !.next = NoBlock, !.nidx = 0,
            !.group = <<>>, !.ext = 0, !.locked = NoBlock, !.held = @ + h]

LEMMA SampleOK ==
  ASSUME MFAssumption, NEW s, NEW t, StreamOK(s, t), t.sel = 1, NEW h \in {0, 1},
         NEW u, u = Sampled(t, h)
  PROVE  /\ StreamOK(s, u) /\ u.sel = 1 /\ (u.eos <=> t.eos) /\ u.held = t.held + h
         /\ u.curr = t.next /\ u.cpos = t.cpos /\ u.clu = t.clu /\ u.next = NoBlock
         /\ u.nidx = 0 /\ u.got = t.group
<1>1. t \in StreamState /\ <<>> \in Seq(Nat \X Nat) /\ NoBlock \in Nat \X Nat
      /\ NoBlock \in Places(s)
  BY NoBlockTypes DEF StreamOK, Places
<1>2. u \in StreamState
  <2>1. t.held + h \in Nat /\ t.group \in Seq(Nat \X Nat) /\ t.next \in Nat \X Nat
    BY ONLY <1>1, h \in {0, 1}, SMTT(30) DEF StreamState
  <2>2. u = [t EXCEPT !.got = t.group, !.curr = t.next, !.next = NoBlock, !.nidx = 0,
                      !.group = <<>>, !.ext = 0, !.locked = NoBlock, !.held = t.held + h]
    BY <1>1 DEF StreamState, Sampled
  <2> QED
    BY ONLY <1>1, <2>1, <2>2 DEF StreamState
<1>3. /\ u.sel = t.sel /\ (u.eos <=> t.eos) /\ u.held = t.held + h /\ u.locked = NoBlock
      /\ u.curr = t.next /\ u.cpos = t.cpos /\ u.clu = t.clu /\ u.next = NoBlock
      /\ u.nidx = 0 /\ u.got = t.group
  BY ONLY <1>1, u = Sampled(t, h) DEF StreamState, Sampled
<1>4. /\ t.cpos \in 0 .. Len(File) /\ t.clu \in 0 .. Len(File) /\ t.next \in Places(s)
  BY DEF StreamOK
<1> QED
  BY <1>1, <1>2, <1>3, <1>4 DEF StreamOK

(* A block that a stream stands at, or will, has been parsed.              *)
IsParsed(b) == IsBlock(b) => b[2] <= parsed[b[1]]

PlacesParsed ==
  \A s \in Streams : IsParsed(first[s]) /\ IsParsed(str[s].curr) /\ IsParsed(str[s].next)

(***************************************************************************)
(* While a read is under way on behalf of the request in front, the        *)
(* request is there and cannot take over, and its stream t, unless it was  *)
(* deselected meanwhile, is where the state of the read has left it.       *)
(***************************************************************************)
Waits(t) ==
  /\ astate \in CurrStates => t.curr = NoBlock /\ (t.sel = 1 => t.clu = pCurr /\ t.cpos = pCurr)
  /\ t.sel = 1 /\ astate \notin CurrStates => IsBlock(t.curr)
  /\ t.sel = 1 /\ astate = "extent" => t.ext # 0
  /\ t.sel = 1 /\ astate \in NextStates => t.nidx # 0 /\ t.next = NoBlock
  /\ t.sel = 1 /\ astate = "nextInit" => t.nidx = 1
  /\ t.sel = 1 /\ astate \in {"nextNotify", "nextParse"} /\ pNext # 0
       => t.nidx <= parsed[pNext] + 1

Following ==
  /\ astate \in {"nextNotify", "nextParse"} =>
       /\ pNext = (IF pCurr = Len(File) THEN 0 ELSE pCurr + 1)
       /\ pNext # 0 => parsed[pNext] >= 0
  /\ astate = "nextParse" => pNext \in Clusters /\ ~Complete(pNext)

FrontInv ==
  /\ Crashed => requests # <<>> /\ str[Head(requests)].sel # 1
  /\ at = "read" /\ ~shutdown /\ astate \in FrontStates =>
       /\ requests # <<>> /\ ~interrupt /\ pCurr \in Clusters
       /\ Following /\ Waits(str[Head(requests)])

Grows == \A c \in Clusters : parsed[c] <= parsed'[c]

LEMMA ParseGrows ==
  ASSUME MFAssumption, ParsedInv, NEW c \in Clusters, NEW n \in Int, parsed[c] <= n,
         n <= Size(c), ParseTo(c, n)
  PROVE  /\ parsed' \in [Clusters -> Int] /\ \A d \in Clusters : parsed'[d] \in -1 .. Size(d)
         /\ Grows /\ parsed'[c] = n
<1>1. parsed' = [parsed EXCEPT ![c] = n] /\ parsed \in [Clusters -> Int]
  BY DEF ParseTo, ParsedInv
<1>2. parsed'[c] = n /\ \A d \in Clusters : d # c => parsed'[d] = parsed[d]
  BY <1>1
<1>3. \A d \in Clusters : parsed[d] \in -1 .. Size(d) /\ Size(d) \in Nat
  BY FileTypes DEF ParsedInv
<1>4. \A d \in Clusters : parsed'[d] \in -1 .. Size(d) /\ parsed[d] <= parsed'[d]
  BY <1>2, <1>3
<1> QED
  BY <1>1, <1>2, <1>4 DEF Grows

(* A step of a source that plays.                                          *)
LEMMA ParsedPlaying ==
  ASSUME creation' \notin Unloaded, io' \in 0 .. MaxPages, hr' \in {"pending", "more"} => io' > 0,
         want' \in 0 .. Len(File) + 1, pCurr' \in 0 .. Len(File), pNext' \in 0 .. Len(File),
         parsed' \in [Clusters -> Int], \A c \in Clusters : parsed'[c] \in -1 .. Size(c)
  PROVE  ParsedInv'
  BY DEF ParsedInv

(* How the reads of a step leave the disk.                                 *)
LEMMA DiskReads ==
  ASSUME MFAssumption, ParsedInv
  PROVE  /\ HaveBytes => /\ io' \in 0 .. MaxPages /\ (hr' \in {"pending", "more"} => io' > 0)
                         /\ want' \in 0 .. Len(File) + 1
         /\ KeepBytes => /\ io' \in 0 .. MaxPages /\ (hr' \in {"pending", "more"} => io' > 0)
                         /\ want' \in 0 .. Len(File) + 1
         /\ UNCHANGED <<io, hr, want>> =>
              /\ io' \in 0 .. MaxPages /\ (hr' \in {"pending", "more"} => io' > 0)
              /\ want' \in 0 .. Len(File) + 1
         /\ \A c \in 0 .. Len(File) + 1 : Stall(c) =>
              /\ io' \in 0 .. MaxPages /\ (hr' \in {"pending", "more"} => io' > 0)
              /\ want' \in 0 .. Len(File) + 1
<1>1. MaxPages \in Nat \ {0} /\ Len(File) \in Nat
  BY FileTypes DEF MFAssumption
<1>2. /\ io \in 0 .. MaxPages /\ (hr \in {"pending", "more"} => io > 0)
      /\ want \in 0 .. Len(File) + 1
  BY DEF ParsedInv
<1>3. HaveBytes => /\ io' \in 0 .. MaxPages /\ (hr' \in {"pending", "more"} => io' > 0)
                   /\ want' \in 0 .. Len(File) + 1
  BY <1>1 DEF HaveBytes
<1>4. KeepBytes => /\ io' \in 0 .. MaxPages /\ (hr' \in {"pending", "more"} => io' > 0)
                   /\ want' \in 0 .. Len(File) + 1
  BY <1>1, <1>2 DEF KeepBytes
<1>5. ASSUME NEW c \in 0 .. Len(File) + 1, Stall(c)
      PROVE  /\ io' \in 0 .. MaxPages /\ (hr' \in {"pending", "more"} => io' > 0)
             /\ want' \in 0 .. Len(File) + 1
  BY <1>1, <1>5 DEF Stall
<1> QED
  BY <1>2, <1>3, <1>4, <1>5

(* A step that works on one stream leaves the blocks of all streams parsed.*)
LEMMA PlacesGrow ==
  ASSUME MFAssumption, StreamsInv, ParsedInv, PlacesParsed, Grows,
         parsed' \in [Clusters -> Int], NEW s \in Streams, NEW b, b \in Places(s), IsParsed(b)
  PROVE  IsParsed(b)'
<1>1. CASE IsBlock(b)
  <2>1. b[1] \in Clusters /\ b[2] \in Int
    BY <1>1, PlaceTypes, BlockTypes DEF Own
  <2>2. b[2] <= parsed[b[1]] /\ parsed[b[1]] <= parsed'[b[1]]
    BY <1>1, <2>1 DEF IsParsed, Grows
  <2>3. parsed[b[1]] \in Int /\ parsed'[b[1]] \in Int
    BY <2>1 DEF ParsedInv
  <2>4. b[2] <= parsed'[b[1]]
    BY <2>1, <2>2, <2>3
  <2> QED
    BY <2>4 DEF IsParsed
<1>2. CASE ~IsBlock(b)
  BY <1>2 DEF IsParsed
<1> QED
  BY <1>1, <1>2

LEMMA PlacesKept ==
  ASSUME MFAssumption, StreamsInv, ParsedInv, PlacesParsed, Grows,
         parsed' \in [Clusters -> Int], first' = first,
         \A x \in Streams : (str'[x].curr = str[x].curr \/ IsParsed(str[x].curr)')
                            /\ (str'[x].next = str[x].next \/ IsParsed(str[x].next)')
  PROVE  PlacesParsed'
<1>1. ASSUME NEW x \in Streams
      PROVE  IsParsed(first[x])' /\ IsParsed(str[x].curr)' /\ IsParsed(str[x].next)'
  <2>1. /\ first[x] \in Places(x) /\ str[x].curr \in Places(x) /\ str[x].next \in Places(x)
        /\ IsParsed(first[x]) /\ IsParsed(str[x].curr) /\ IsParsed(str[x].next)
    BY DEF StreamsInv, StreamOK, PlacesParsed
  <2> DEFINE f == first[x]
             p == str[x].curr
             q == str[x].next
  <2>2. ASSUME NEW b, b \in Places(x), IsParsed(b) PROVE IsBlock(b) => b[2] <= parsed'[b[1]]
    BY <2>2, PlacesGrow DEF IsParsed
  <2>3. /\ IsBlock(f) => f[2] <= parsed'[f[1]]
        /\ IsBlock(p) => p[2] <= parsed'[p[1]]
        /\ IsBlock(q) => q[2] <= parsed'[q[1]]
    BY <2>1, <2>2
  <2>4. IsParsed(first[x])'
    BY <2>3 DEF IsParsed
  <2>5. str'[x].curr = p => IsParsed(str[x].curr)'
    BY <2>3 DEF IsParsed
  <2>6. str'[x].next = q => IsParsed(str[x].next)'
    BY <2>3 DEF IsParsed
  <2> QED
    BY <2>4, <2>5, <2>6
<1> QED
  BY <1>1 DEF PlacesParsed

(* What is so while the request in front is served.                        *)
LEMMA ServesFacts ==
  ASSUME MFAssumption, ControlInv, QueueInv, StreamsInv, NEW s \in Streams, Serves(s)
  PROVE  /\ UNCHANGED <<shutdown, first, commands, asked, creation, canSeek, pNext>>
         /\ at = "request" /\ ~shutdown /\ ~interrupt' /\ creation \notin Early
         /\ requests \in Seq(Streams) /\ requests # <<>> /\ s = Head(requests)
         /\ Tail(requests) \in Seq(Streams)
         /\ Len(commands) = 1 /\ (IsPaused <=> commands[1].kind = "pause")
         /\ StreamOK(s, str[s]) /\ Placed(str[s])
<1>1. /\ UNCHANGED <<shutdown, first, commands, asked, creation, canSeek, pNext>>
      /\ at = "request" /\ ~shutdown /\ ~interrupt' /\ requests # <<>> /\ s = Head(requests)
      /\ Len(commands) = 1
  BY DEF Serves, Turn, api, load
<1>2. requests \in Seq(Streams) /\ creation \notin Early
  BY <1>1 DEF QueueInv, NothingAsked
<1>3. Tail(requests) \in Seq(Streams)
  BY <1>1, <1>2
<1>4. IsPaused <=> commands[1].kind = "pause"
  BY <1>1 DEF IsPaused, Last
<1> QED
  BY <1>1, <1>2, <1>3, <1>4 DEF StreamsInv

LEMMA ServedStep ==
  ASSUME MFAssumption, ControlInv, QueueInv, StreamsInv, NEW s \in Streams, Serves(s),
         NEW u, StreamOK(s, u), u.sel = str[s].sel, Placed(u), u.eos <=> str[s].eos,
         u.held > 0 => str[s].held > 0 \/ (u.sel = 1 /\ IsPaused),
         str' = [str EXCEPT ![s] = u], eop' = eop,
         requests' = requests \/ requests' = Tail(requests)
  PROVE  QueueInv' /\ StreamsInv' /\ str'[s] = u /\ \A x \in Streams : x # s => str'[x] = str[x]
<1>1. /\ UNCHANGED <<shutdown, first, commands, asked, creation>> /\ ~shutdown
      /\ creation \notin Early /\ requests' \in Seq(Streams)
      /\ (IsPaused <=> commands[1].kind = "pause")
  BY ServesFacts
<1>2. StreamsInv' /\ \A x \in Streams : str'[x].sel = str[x].sel
  BY <1>1, StreamUpdate
<1>3. QueueInv'
  BY <1>1, <1>2, QueueKept
<1>4. str'[s] = u /\ \A x \in Streams : x # s => str'[x] = str[x]
  BY DEF StreamsInv
<1> QED
  BY <1>2, <1>3, <1>4

LEMMA ServeUnselectedStep ==
  ASSUME MFAssumption, ControlInv, QueueInv, StreamsInv, ParsedInv, PlacesParsed, FrontInv,
         ServeUnselected \/ ServeEnded
  PROVE  QueueInv' /\ StreamsInv' /\ ParsedInv' /\ PlacesParsed' /\ FrontInv'
<1>1. PICK s \in Streams :
        /\ Serves(s) /\ Answered /\ UNCHANGED <<told, astate, disk, pCurr>>
        /\ \/ UNCHANGED <<str, eop>>
           \/ /\ str' = [str EXCEPT ![s].eos = TRUE]
              /\ eop' = (eop \/ \A x \in Selected : str'[x].eos)
              /\ str[s].sel = 1
  BY DEF ServeUnselected, ServeEnded
<1>2. /\ UNCHANGED <<shutdown, first, commands, asked, creation, pNext>>
      /\ at = "request" /\ ~shutdown /\ creation \notin Early
      /\ requests' = Tail(requests) /\ Tail(requests) \in Seq(Streams)
      /\ StreamOK(s, str[s]) /\ Placed(str[s])
  BY <1>1, ServesFacts DEF Answered
<1>3. at' = "request"
  BY <1>1 DEF Answered, Go
<1>4. FrontInv'
  BY <1>3 DEF FrontInv, Crashed
<1>5. ParsedInv'
  BY <1>1, <1>2, ParsedPlaying DEF ParsedInv, disk, Early
<1>6. CASE UNCHANGED <<str, eop>>
  <2>1. StreamsInv' /\ \A x \in Streams : str'[x].sel = str[x].sel
    BY <1>2, <1>6, StreamsKept
  <2>2. QueueInv'
    BY <1>2, <2>1, QueueKept
  <2>3. PlacesParsed'
    BY <1>1, <1>2, <1>6 DEF PlacesParsed, IsParsed, disk
  <2> QED
    BY <1>4, <1>5, <2>1, <2>2, <2>3
<1>7. CASE /\ str' = [str EXCEPT ![s].eos = TRUE] /\ str[s].sel = 1
           /\ eop' = (eop \/ \A x \in Selected : str'[x].eos)
  <2> DEFINE u == [str[s] EXCEPT !.eos = TRUE]
  <2>1. StreamOK(s, u) /\ u.sel = 1 /\ u.eos /\ u.held = str[s].held /\ SamePlace(str[s], u)
    BY <1>2, <1>7, EosOK
  <2>2. str \in [Streams -> StreamState] /\ u \in StreamState
    BY <2>1 DEF StreamsInv, StreamOK
  <2>3. str' = [str EXCEPT ![s] = u]
    BY <1>7
  <2> HIDE DEF u
  <2>4. /\ str' \in [Streams -> StreamState] /\ str'[s] = u
        /\ \A x \in Streams : x # s => str'[x] = str[x]
    BY <2>2, <2>3
  <2>5. \A x \in Streams : /\ str'[x].sel = str[x].sel /\ str'[x].held = str[x].held
                           /\ StreamOK(x, str'[x]) /\ Placed(str'[x])
                           /\ str'[x].curr = str[x].curr /\ str'[x].next = str[x].next
    BY <1>2, <1>7, <2>1, <2>4 DEF StreamsInv, Placed, SamePlace
  <2>6. QueueInv' /\ Selected' = Selected
    BY <1>2, <2>5, QueueKept
  <2>7. HeldOnlyWhenPaused'
    BY <1>2, <2>5 DEF StreamsInv, HeldOnlyWhenPaused
  <2>8. EndOfPresentation' /\ eop' \in BOOLEAN
    <3>1. s \in Selected
      BY <1>7 DEF Selected
    <3>2. eop \in BOOLEAN /\ (eop <=> Selected # {} /\ \A x \in Selected : str[x].eos)
      BY <1>2 DEF StreamsInv, EndOfPresentation
    <3>3. \A x \in Selected : str[x].eos => str'[x].eos
      BY <2>1, <2>4 DEF Selected
    <3>4. (eop \/ \A x \in Selected : str'[x].eos) <=> \A x \in Selected : str'[x].eos
      BY <3>2, <3>3
    <3>5. eop' \in BOOLEAN /\ (eop' <=> \A x \in Selected : str'[x].eos)
      BY <1>7, <3>2, <3>4
    <3>6. \A x \in Selected : str'[x].eos \in BOOLEAN
      BY <2>4 DEF StreamState, Selected
    <3> QED
      BY <2>6, <3>1, <3>5 DEF EndOfPresentation
  <2>9. StreamsInv'
    BY <1>2, <2>4, <2>5, <2>7, <2>8 DEF StreamsInv
  <2>10. PlacesParsed'
    BY <1>1, <1>2, <2>5 DEF PlacesParsed, IsParsed, disk
  <2> QED
    BY <1>4, <1>5, <2>6, <2>9, <2>10
<1> QED
  BY <1>1, <1>6, <1>7

LEMMA ServeUnplacedStep ==
  ASSUME MFAssumption, ControlInv, QueueInv, StreamsInv, ParsedInv, PlacesParsed, FrontInv,
         ServeUnplaced
  PROVE  QueueInv' /\ StreamsInv' /\ ParsedInv' /\ PlacesParsed' /\ FrontInv' /\ at' = "read"
<1>1. PICK s \in Streams :
        /\ Serves(s) /\ str[s].sel = 1 /\ str[s].curr = NoBlock /\ pCurr' = str[s].cpos
        /\ IF pCurr' = 0 THEN Go("crashed") /\ UNCHANGED <<ev, astate, disk, str>>
           ELSE /\ Again("currInit") /\ str' = [str EXCEPT ![s].clu = pCurr']
                /\ ParseTo(pCurr', IF parsed[pCurr'] < 0 THEN 0 ELSE parsed[pCurr'])
        /\ UNCHANGED <<told, requests, eop>>
  BY DEF ServeUnplaced
<1>2. /\ UNCHANGED <<shutdown, first, commands, asked, creation, pNext>>
      /\ at = "request" /\ ~shutdown /\ ~interrupt' /\ creation \notin Early
      /\ requests # <<>> /\ s = Head(requests)
      /\ StreamOK(s, str[s]) /\ Placed(str[s])
  BY <1>1, ServesFacts
<1> DEFINE p == str[s].cpos
<1>3. p # 0 /\ p \in 0 .. Len(File) /\ pCurr' = p
  BY <1>1, <1>2 DEF Placed, StreamOK
<1>4. p \in Clusters /\ Size(p) \in Nat /\ parsed[p] \in -1 .. Size(p)
  BY <1>3, FileTypes DEF ParsedInv
<1> HIDE DEF p
<1>5. /\ at' = "read" /\ astate' = "currInit" /\ HaveBytes
      /\ str' = [str EXCEPT ![s].clu = p]
      /\ ParseTo(p, IF parsed[p] < 0 THEN 0 ELSE parsed[p])
  BY <1>1, <1>3 DEF Again, Loop, Go
<1>6. /\ parsed' \in [Clusters -> Int] /\ \A d \in Clusters : parsed'[d] \in -1 .. Size(d)
      /\ Grows
  <2> DEFINE n == IF parsed[p] < 0 THEN 0 ELSE parsed[p]
  <2>1. n \in Int /\ parsed[p] <= n /\ n <= Size(p)
    BY <1>4
  <2>2. ParseTo(p, n)
    BY <1>5
  <2> HIDE DEF n
  <2> QED
    BY <1>4, <2>1, <2>2, ParseGrows
<1>7. ParsedInv'
  BY <1>2, <1>3, <1>5, <1>6, DiskReads, ParsedPlaying DEF ParsedInv, Early
<1> DEFINE u == [str[s] EXCEPT !.clu = p]
<1>8. /\ StreamOK(s, u) /\ u.sel = 1 /\ (u.eos <=> str[s].eos) /\ u.held = str[s].held
      /\ u.curr = NoBlock /\ u.cpos = p /\ u.clu = p /\ u.next = str[s].next
  <2>1. StreamOK(s, str[s]) /\ str[s].sel = 1 /\ str[s].curr = NoBlock /\ str[s].cpos = p
    BY <1>1, <1>2 DEF p
  <2>2. p \in 0 .. Len(File)
    BY <1>3
  <2> HIDE DEF u
  <2>3. u = [str[s] EXCEPT !.clu = p]
    BY DEF u
  <2>4. /\ StreamOK(s, u) /\ u.sel = str[s].sel /\ (u.eos <=> str[s].eos) /\ u.held = str[s].held
        /\ u.curr = str[s].curr /\ u.cpos = str[s].cpos /\ u.clu = p /\ u.next = str[s].next
    BY <2>1, <2>2, <2>3, CluOK
  <2> QED
    BY <2>1, <2>4
<1>9. str' = [str EXCEPT ![s] = u]
  BY <1>5
<1> HIDE DEF u
<1>10. QueueInv' /\ StreamsInv' /\ str'[s] = u /\ \A x \in Streams : x # s => str'[x] = str[x]
  BY <1>1, <1>2, <1>3, <1>8, <1>9, ServedStep, ZenonT(40) DEF Placed
<1>11. PlacesParsed'
  <2>1. \A x \in Streams : str'[x].curr = str[x].curr /\ str'[x].next = str[x].next
    BY <1>1, <1>8, <1>10
  <2> QED
    BY <1>2, <1>6, <2>1, PlacesKept
<1>12. FrontInv'
  <2>1. str'[Head(requests')] = u
    BY <1>1, <1>2, <1>10
  <2>2. Waits(str[Head(requests)])'
    BY <1>3, <1>5, <1>8, <2>1 DEF Waits, CurrStates, NextStates
  <2>3. requests' # <<>> /\ ~interrupt' /\ pCurr' \in Clusters
    BY <1>1, <1>2, <1>3, <1>4
  <2>4. Following' /\ ~Crashed'
    BY <1>5 DEF Following, Crashed
  <2> QED
    BY <2>2, <2>3, <2>4 DEF FrontInv
<1> QED
  BY <1>5, <1>7, <1>10, <1>11, <1>12

(* What is so of the cluster that is searched for the next block.          *)
LEMMA SearchFacts ==
  ASSUME MFAssumption, ControlInv, QueueInv, StreamsInv, ParsedInv, PlacesParsed,
         NEW s \in Streams, ServesBlock(s)
  PROVE  LET t == Begun(s, str[s])
             c == str[s].curr[1]
         IN  /\ Serves(s) /\ str[s].sel = 1 /\ IsBlock(str[s].curr) /\ pCurr' = c /\ eop' = eop
             /\ StreamOK(s, t) /\ Alike(str[s], t) /\ t.next = str[s].next
             /\ t.nidx \in Nat \ {0} /\ t.curr[1] = c
             /\ c \in Clusters /\ c \in 0 .. Len(File) + 1
             /\ str[s].curr[2] \in 1 .. Size(c) /\ str[s].curr[2] <= parsed[c]
             /\ parsed[c] \in 1 .. Size(c) /\ Size(c) \in Nat \ {0}
<1> DEFINE t == Begun(s, str[s])
           c == str[s].curr[1]
<1>1. Serves(s) /\ str[s].sel = 1 /\ IsBlock(str[s].curr) /\ pCurr' = c /\ eop' = eop
  BY DEF ServesBlock
<1>2. /\ StreamOK(s, str[s]) /\ c \in Clusters
      /\ str[s].curr[2] \in 1 .. Size(c) /\ t.curr = str[s].curr
  BY <1>1, Serving
<1>3. StreamOK(s, t) /\ Alike(str[s], t) /\ t.next = str[s].next /\ t.nidx \in Nat \ {0}
  BY <1>2, BegunIs
<1>4. Size(c) \in Nat \ {0} /\ c \in 0 .. Len(File) + 1
  BY <1>2, FileTypes
<1>5. str[s].curr[2] <= parsed[c] /\ parsed[c] \in -1 .. Size(c)
  BY <1>1, <1>2 DEF PlacesParsed, IsParsed, ParsedInv
<1>6. parsed[c] \in 1 .. Size(c)
  BY ONLY <1>2, <1>4, <1>5
<1> QED
  BY <1>1, <1>2, <1>3, <1>4, <1>5, <1>6

LEMMA ServeShortStep ==
  ASSUME MFAssumption, ControlInv, QueueInv, StreamsInv, ParsedInv, PlacesParsed, FrontInv,
         ServeShort
  PROVE  QueueInv' /\ StreamsInv' /\ ParsedInv' /\ PlacesParsed' /\ FrontInv'
<1>1. PICK s \in Streams :
        /\ ServesBlock(s) /\ str[s].next = NoBlock
        /\ LET t == Begun(s, str[s])
               c == t.curr[1]
           IN  \/ \E n \in ShortOf(c, Needs(s, t, c)) :
                    /\ ParseTo(c, n) /\ str' = [str EXCEPT ![s] = Scan(s, t, c, n)]
                    /\ Pending("request", c) /\ UNCHANGED told
               \/ /\ \E tells \in BOOLEAN : Dies(tells)
                  /\ UNCHANGED <<disk, str>>
        /\ UNCHANGED requests
  BY DEF ServeShort
<1> DEFINE t == Begun(s, str[s])
           c == t.curr[1]
           m == Needs(s, t, c)
<1>2. /\ Serves(s) /\ str[s].sel = 1 /\ IsBlock(str[s].curr) /\ pCurr' = c /\ eop' = eop
      /\ StreamOK(s, t) /\ Alike(str[s], t) /\ t.next = str[s].next /\ t.nidx \in Nat \ {0}
      /\ c \in Clusters /\ c \in 0 .. Len(File) + 1 /\ parsed[c] \in 1 .. Size(c)
      /\ Size(c) \in Nat \ {0} /\ m \in 1 .. Size(c)
  <2>1. ServesBlock(s)
    BY <1>1
  <2>2. c = str[s].curr[1] /\ c \in Clusters /\ t.nidx \in Nat \ {0}
    BY <2>1, SearchFacts
  <2>3. m \in 1 .. Size(c)
    BY <2>2, NeedsIs
  <2> QED
    BY <2>1, <2>2, <2>3, SearchFacts
<1>0. t = Begun(s, str[s]) /\ c = t.curr[1] /\ m = Needs(s, t, c)
  OBVIOUS
<1> HIDE DEF t, c, m
<1>3. /\ UNCHANGED <<shutdown, first, commands, asked, creation, pNext>>
      /\ ~shutdown /\ creation \notin Early /\ StreamOK(s, str[s]) /\ Placed(str[s])
  BY <1>2, ServesFacts
<1>4. CASE \E n \in ShortOf(c, m) :
             /\ ParseTo(c, n) /\ str' = [str EXCEPT ![s] = Scan(s, t, c, n)]
             /\ Pending("request", c) /\ UNCHANGED told
  <2>1. PICK n \in ShortOf(c, m) :
             /\ ParseTo(c, n) /\ str' = [str EXCEPT ![s] = Scan(s, t, c, n)]
             /\ Pending("request", c)
    BY <1>4
  <2>2. n \in Nat /\ parsed[c] <= n /\ n <= Size(c)
    BY <1>2, <2>1 DEF ShortOf
  <2> DEFINE u == Scan(s, t, c, n)
  <2>3. /\ StreamOK(s, u) /\ Alike(t, u)
        /\ NotFound(s, t, c, n, u) \/ \E i \in t.nidx .. n : FoundAt(s, t, c, n, u, i)
    BY <1>2, <2>2, ScanIs
  <2>4. Alike(str[s], u)
    BY <1>2, <2>3 DEF Alike
  <2>5. /\ parsed' \in [Clusters -> Int] /\ \A d \in Clusters : parsed'[d] \in -1 .. Size(d)
        /\ Grows /\ parsed'[c] = n
    BY <1>2, <2>1, <2>2, ParseGrows
  <2>6. u.next = str[s].next \/ (IsBlock(u.next) => u.next[2] <= parsed'[u.next[1]])
    <3>1. CASE NotFound(s, t, c, n, u)
      BY <1>2, <3>1 DEF NotFound
    <3>2. ASSUME NEW i \in t.nidx .. n, FoundAt(s, t, c, n, u, i)
          PROVE  u.next[2] <= parsed'[u.next[1]]
      <4>1. u.next = <<c, i>>
        BY <3>2 DEF FoundAt
      <4>2. i <= n
        BY <1>2, <2>2
      <4> QED
        BY <2>5, <4>1, <4>2
    <3> QED
      BY <2>3, <3>1, <3>2
  <2> HIDE DEF u
  <2>7. at' = "read" /\ astate' = "request" /\ Stall(c)
    BY <2>1 DEF Pending, Go
  <2>8. str' = [str EXCEPT ![s] = u]
    BY <2>1 DEF u
  <2>9. QueueInv' /\ StreamsInv' /\ str'[s] = u /\ \A x \in Streams : x # s => str'[x] = str[x]
    BY <1>1, <1>2, <1>3, <2>3, <2>4, <2>8, ServedStep DEF Alike, Placed
  <2>10. pCurr' \in 0 .. Len(File) /\ pNext' \in 0 .. Len(File)
    BY <1>2, <1>3, FileTypes DEF ParsedInv
  <2>11. ParsedInv'
    BY <1>2, <1>3, <2>5, <2>7, <2>10, DiskReads, ParsedPlaying DEF Early
  <2>12. PlacesParsed'
    <3>1. str'[s].curr = str[s].curr /\ (str'[s].next = str[s].next \/ IsParsed(str[s].next)')
      BY <2>4, <2>6, <2>9 DEF Alike, IsParsed
    <3> QED
      BY <1>3, <2>5, <2>9, <3>1, PlacesKept
  <2>13. FrontInv'
    BY <2>7 DEF FrontInv, Crashed, FrontStates, CurrStates, NextStates
  <2> QED
    BY <2>9, <2>11, <2>12, <2>13
<1>5. CASE /\ \E tells \in BOOLEAN : Dies(tells)
           /\ UNCHANGED <<disk, str>>
  <2>1. at' = "quit" /\ UNCHANGED <<parsed, io, hr, want, str>>
    BY <1>5 DEF Dies, Go, disk
  <2>2. pCurr' \in 0 .. Len(File) /\ pNext' \in 0 .. Len(File)
    BY <1>2, <1>3, FileTypes DEF ParsedInv
  <2>3. ParsedInv'
    BY <1>3, <2>1, <2>2, ParsedPlaying DEF ParsedInv, Early
  <2>4. StreamsInv' /\ \A x \in Streams : str'[x].sel = str[x].sel
    BY <1>2, <1>3, <2>1, StreamsKept
  <2>5. QueueInv'
    BY <1>1, <1>3, <2>4, QueueKept DEF QueueInv
  <2>6. PlacesParsed'
    BY <1>3, <2>1 DEF PlacesParsed, IsParsed
  <2>7. FrontInv'
    BY <2>1 DEF FrontInv, Crashed
  <2> QED
    BY <2>3, <2>4, <2>5, <2>6, <2>7
<1> QED
  BY <1>0, <1>1, <1>4, <1>5

LEMMA ServeNextClusterStep ==
  ASSUME MFAssumption, ControlInv, QueueInv, StreamsInv, ParsedInv, PlacesParsed, FrontInv,
         ServeNextCluster
  PROVE  QueueInv' /\ StreamsInv' /\ ParsedInv' /\ PlacesParsed' /\ FrontInv'
<1>1. PICK s \in Streams :
        /\ ServesBlock(s) /\ str[s].next = NoBlock
        /\ LET t == Begun(s, str[s])
               c == t.curr[1]
               u == Scan(s, t, c, Size(c))
           IN  /\ u.next = NoBlock /\ str' = [str EXCEPT ![s] = u]
               /\ ParseTo(c, Size(c)) /\ Again("nextInit")
        /\ UNCHANGED <<told, requests>>
  BY DEF ServeNextCluster
<1> DEFINE t == Begun(s, str[s])
           c == t.curr[1]
           u == Scan(s, t, c, Size(c))
<1>2. /\ Serves(s) /\ str[s].sel = 1 /\ IsBlock(str[s].curr) /\ pCurr' = c /\ eop' = eop
      /\ StreamOK(s, t) /\ Alike(str[s], t) /\ t.next = str[s].next /\ t.nidx \in Nat \ {0}
      /\ c \in Clusters /\ c \in 0 .. Len(File) + 1 /\ parsed[c] \in 1 .. Size(c)
      /\ Size(c) \in Nat \ {0}
  <2>1. ServesBlock(s)
    BY <1>1
  <2>2. c = str[s].curr[1]
    BY <2>1, SearchFacts
  <2> QED
    BY <2>1, <2>2, SearchFacts
<1>0. t = Begun(s, str[s]) /\ c = t.curr[1]
  OBVIOUS
<1> HIDE DEF t, c
<1>3. /\ UNCHANGED <<shutdown, first, commands, asked, creation, pNext>>
      /\ ~shutdown /\ ~interrupt' /\ creation \notin Early /\ StreamOK(s, str[s]) /\ Placed(str[s])
      /\ requests # <<>> /\ s = Head(requests)
  BY <1>2, ServesFacts
<1>4. /\ u.next = NoBlock /\ str' = [str EXCEPT ![s] = u] /\ requests' = requests
      /\ ParseTo(c, Size(c)) /\ at' = "read" /\ astate' = "nextInit" /\ HaveBytes
  BY <1>0, <1>1 DEF Again, Loop, Go
<1>5. /\ StreamOK(s, u) /\ Alike(t, u)
      /\ NotFound(s, t, c, Size(c), u) \/ \E i \in t.nidx .. Size(c) : FoundAt(s, t, c, Size(c), u, i)
  <2>1. Size(c) \in Nat /\ Size(c) <= Size(c)
    BY <1>2
  <2> QED
    BY <1>2, <2>1, ScanIs
<1> HIDE DEF u
<1>6. Alike(str[s], u)
  BY <1>2, <1>5 DEF Alike
<1>7. NotFound(s, t, c, Size(c), u)
  <2> QED
    <3>1. ASSUME NEW i \in t.nidx .. Size(c), FoundAt(s, t, c, Size(c), u, i) PROVE FALSE
      <4>1. <<c, i>> \in Own(s) /\ u.next = <<c, i>>
        BY <3>1 DEF FoundAt
      <4> QED
        BY <1>4, <4>1, BlockTypes DEF Own
    <3> QED
      BY <1>5, <3>1
<1>8. u.nidx = 1
  BY <1>7 DEF NotFound
<1>9. /\ parsed' \in [Clusters -> Int] /\ \A d \in Clusters : parsed'[d] \in -1 .. Size(d)
      /\ Grows
  <2>1. Size(c) \in Int /\ parsed[c] <= Size(c) /\ Size(c) <= Size(c)
    BY <1>2
  <2> QED
    BY <1>2, <1>4, <2>1, ParseGrows
<1>10. QueueInv' /\ StreamsInv' /\ str'[s] = u /\ \A x \in Streams : x # s => str'[x] = str[x]
  BY <1>2, <1>3, <1>4, <1>5, <1>6, ServedStep DEF Alike, Placed
<1>11. pCurr' \in 0 .. Len(File) /\ pNext' \in 0 .. Len(File)
  BY <1>2, <1>3, FileTypes DEF ParsedInv
<1>12. ParsedInv'
  BY <1>3, <1>4, <1>9, <1>11, DiskReads, ParsedPlaying DEF Early
<1>13. PlacesParsed'
  <2>1. str'[s].curr = str[s].curr /\ str'[s].next = str[s].next
    BY <1>1, <1>4, <1>6, <1>10 DEF Alike
  <2> QED
    BY <1>3, <1>9, <1>10, <2>1, PlacesKept
<1>14. FrontInv'
  <2>1. str'[Head(requests')] = u
    BY <1>3, <1>4, <1>10
  <2>2. IsBlock(u.curr)
    BY <1>2, <1>6 DEF Alike
  <2>3. Waits(str[Head(requests)])'
    BY <1>4, <1>8, <2>1, <2>2 DEF Waits, CurrStates, NextStates
  <2>4. Following' /\ ~Crashed'
    BY <1>4 DEF Following, Crashed
  <2> QED
    BY <1>2, <1>3, <1>4, <2>3, <2>4 DEF FrontInv
<1> QED
  BY <1>10, <1>12, <1>13, <1>14

(* A known next block has been parsed.                                     *)
LEMMA KnownFacts ==
  ASSUME MFAssumption, ControlInv, QueueInv, StreamsInv, ParsedInv, PlacesParsed,
         NEW s \in Streams, ServesBlock(s), Known(s).next # NoBlock, ParsedFor(s)
  PROVE  /\ StreamOK(s, Known(s)) /\ Alike(str[s], Known(s)) /\ Known(s).sel = 1
         /\ IsBlock(Known(s).curr) /\ Placed(Known(s))
         /\ parsed' \in [Clusters -> Int] /\ \A d \in Clusters : parsed'[d] \in -1 .. Size(d)
         /\ Grows
         /\ IsBlock(Known(s).next) => Known(s).next[2] <= parsed'[Known(s).next[1]]
<1> DEFINE t == Begun(s, str[s])
           c == str[s].curr[1]
           k == Known(s)
           m == Needs(s, t, c)
<1>1. /\ str[s].sel = 1 /\ IsBlock(str[s].curr) /\ t.nidx \in Nat \ {0} /\ t.curr[1] = c
      /\ c \in Clusters /\ parsed[c] \in 1 .. Size(c) /\ Size(c) \in Nat \ {0}
  BY SearchFacts
<1>2. /\ StreamOK(s, k) /\ Alike(str[s], k)
      /\ str[s].next # NoBlock => k = str[s]
      /\ str[s].next = NoBlock =>
           NotFound(s, t, c, Size(c), k) \/ \E i \in t.nidx .. Size(c) : FoundAt(s, t, c, Size(c), k, i)
  BY <1>1, KnownIs
<1>3. k.sel = 1 /\ IsBlock(k.curr) /\ Placed(k)
  BY <1>1, <1>2, NoBlockTypes DEF Alike, Placed
<1>4. CASE str[s].next # NoBlock
  <2>1. parsed' = parsed /\ k = str[s]
    BY <1>2, <1>4 DEF ParsedFor
  <2>2. parsed \in [Clusters -> Int] /\ \A d \in Clusters : parsed[d] \in -1 .. Size(d)
    BY DEF ParsedInv
  <2>3. \A d \in Clusters : parsed[d] <= parsed[d]
    BY <2>2
  <2>4. IsBlock(k.next) => k.next[2] <= parsed'[k.next[1]]
    BY <2>1 DEF PlacesParsed, IsParsed
  <2> QED
    BY <1>2, <1>3, <2>1, <2>2, <2>3, <2>4 DEF Grows
<1>5. CASE str[s].next = NoBlock
  <2> DEFINE n == IF m > parsed[c] THEN m ELSE parsed[c]
  <2>1. ParseTo(c, n)
    BY <1>1, <1>5 DEF ParsedFor
  <2>2. /\ m \in 1 .. Size(c)
        /\ m # Size(c) => m \in t.nidx .. Size(c) /\ Follows(s, t.curr, <<c, m>>)
    BY <1>1, NeedsIs
  <2>3. n \in Int /\ parsed[c] <= n /\ n <= Size(c) /\ m <= n
    BY <1>1, <2>2
  <2> HIDE DEF n
  <2>4. /\ parsed' \in [Clusters -> Int] /\ \A d \in Clusters : parsed'[d] \in -1 .. Size(d)
        /\ Grows /\ parsed'[c] = n
    BY <1>1, <2>1, <2>3, ParseGrows
  <2>5. t.next = NoBlock
    BY <1>5, SearchFacts
  <2>6. PICK i \in t.nidx .. Size(c) : FoundAt(s, t, c, Size(c), k, i)
    BY <1>2, <1>5, <2>5 DEF NotFound
  <2> HIDE DEF t, c, k, m
  <2>7. k.next = <<c, i>> /\ i \in Nat /\ i <= Size(c)
        /\ \A j \in t.nidx .. i - 1 : ~Follows(s, t.curr, <<c, j>>)
    BY <1>1, <2>6 DEF FoundAt
  <2>8. i <= m
    <3>1. SUFFICES ASSUME m < i PROVE FALSE
      BY <2>2, <2>7
    <3>2. m \in t.nidx .. i - 1 /\ Follows(s, t.curr, <<c, m>>)
      BY <1>1, <2>2, <2>7, <3>1
    <3> QED
      BY <2>7, <3>2
  <2>9. k.next[2] <= parsed'[k.next[1]]
    BY <2>2, <2>3, <2>4, <2>7, <2>8
  <2> QED
    BY <1>2, <1>3, <2>4, <2>9 DEF k
<1> QED
  BY <1>4, <1>5

LEMMA ServeBytesStep ==
  ASSUME MFAssumption, ControlInv, QueueInv, StreamsInv, ParsedInv, PlacesParsed, FrontInv,
         ServeBytes
  PROVE  QueueInv' /\ StreamsInv' /\ ParsedInv' /\ PlacesParsed' /\ FrontInv'
<1>1. PICK s \in Streams :
        /\ ServesBlock(s) /\ Known(s).next # NoBlock /\ ParsedFor(s) /\ requests' = requests
        /\ \/ \E e \in 1 .. Known(s).ext :
                /\ str' = [str EXCEPT ![s] = [Known(s) EXCEPT !.ext = e]]
                /\ Pending("extent", 0)
           \/ /\ str' = [str EXCEPT ![s] = [Known(s) EXCEPT !.ext = 0]]
              /\ Pending("lock", 0)
           \/ Dies(TRUE) /\ UNCHANGED <<io, hr, want, str>>
  BY DEF ServeBytes
<1> DEFINE k == Known(s)
           c == str[s].curr[1]
<1>2. /\ StreamOK(s, k) /\ Alike(str[s], k) /\ k.sel = 1 /\ IsBlock(k.curr) /\ Placed(k)
      /\ parsed' \in [Clusters -> Int] /\ \A d \in Clusters : parsed'[d] \in -1 .. Size(d)
      /\ Grows
      /\ IsBlock(k.next) => k.next[2] <= parsed'[k.next[1]]
  BY <1>1, KnownFacts
<1>3. Serves(s) /\ c \in Clusters /\ pCurr' = c /\ eop' = eop
  BY <1>1, SearchFacts
<1> HIDE DEF k, c
<1>4. /\ UNCHANGED <<shutdown, first, commands, asked, creation, pNext>>
      /\ ~shutdown /\ ~interrupt' /\ creation \notin Early /\ requests # <<>> /\ s = Head(requests)
  BY <1>3, ServesFacts
<1>5. pCurr' \in 0 .. Len(File) /\ pNext' \in 0 .. Len(File) /\ 0 \in 0 .. Len(File) + 1
  BY <1>3, <1>4, FileTypes, SMTT(30) DEF ParsedInv
<1>6. ASSUME NEW e \in Nat, NEW state \in {"extent", "lock"}, state = "extent" => e # 0,
             str' = [str EXCEPT ![s] = [k EXCEPT !.ext = e]], Pending(state, 0)
      PROVE  QueueInv' /\ StreamsInv' /\ ParsedInv' /\ PlacesParsed' /\ FrontInv'
  <2> DEFINE u == [k EXCEPT !.ext = e]
  <2>1. StreamOK(s, u) /\ Alike(k, u) /\ u.next = k.next /\ u.ext = e
    BY <1>2, ExtOK
  <2>2. str' = [str EXCEPT ![s] = u]
    BY <1>6
  <2> HIDE DEF u
  <2>3. Alike(str[s], u) /\ Placed(u)
    BY <1>2, <2>1 DEF Alike, Placed
  <2>4. at' = "read" /\ astate' = state /\ Stall(0)
    BY <1>6 DEF Pending, Go
  <2>5. QueueInv' /\ StreamsInv' /\ str'[s] = u /\ \A x \in Streams : x # s => str'[x] = str[x]
    BY <1>1, <1>3, <2>1, <2>2, <2>3, ServedStep DEF Alike
  <2>6. ParsedInv'
    BY <1>2, <1>4, <1>5, <2>4, DiskReads, ParsedPlaying DEF Early
  <2>7. PlacesParsed'
    <3>1. str'[s].curr = str[s].curr /\ IsParsed(str[s].next)'
      BY <1>2, <2>1, <2>3, <2>5 DEF Alike, IsParsed
    <3> QED
      BY <1>2, <1>4, <2>5, <3>1, PlacesKept
  <2>8. FrontInv'
    <3>1. str'[Head(requests')] = u
      BY <1>1, <1>4, <2>5
    <3>2. IsBlock(u.curr)
      BY <1>2, <2>1 DEF Alike
    <3>3. Waits(str[Head(requests)])'
      BY <1>6, <2>1, <2>4, <3>1, <3>2 DEF Waits, CurrStates, NextStates
    <3>4. Following' /\ ~Crashed'
      BY <2>4 DEF Following, Crashed
    <3> QED
      BY <1>1, <1>3, <1>4, <3>3, <3>4 DEF FrontInv
  <2> QED
    BY <2>5, <2>6, <2>7, <2>8
<1>7. CASE \E e \in 1 .. k.ext :
             /\ str' = [str EXCEPT ![s] = [k EXCEPT !.ext = e]]
             /\ Pending("extent", 0)
  <2>1. PICK e \in 1 .. k.ext :
             /\ str' = [str EXCEPT ![s] = [k EXCEPT !.ext = e]]
             /\ Pending("extent", 0)
    BY <1>7
  <2>2. k.ext \in Nat
    BY <1>2 DEF StreamOK, StreamState
  <2>3. e \in Nat /\ e # 0
    BY <2>2
  <2> QED
    BY <1>6, <2>1, <2>3
<1>8. CASE str' = [str EXCEPT ![s] = [k EXCEPT !.ext = 0]] /\ Pending("lock", 0)
  BY <1>6, <1>8
<1>9. CASE Dies(TRUE) /\ UNCHANGED <<io, hr, want, str>>
  <2>1. at' = "quit" /\ UNCHANGED <<io, hr, want, str>>
    BY <1>9 DEF Dies, Go
  <2>2. ParsedInv'
    BY <1>2, <1>4, <1>5, <2>1, DiskReads, ParsedPlaying DEF Early
  <2>3. StreamsInv' /\ \A x \in Streams : str'[x].sel = str[x].sel
    BY <1>3, <1>4, <2>1, StreamsKept
  <2>4. QueueInv'
    BY <1>1, <1>4, <2>3, QueueKept DEF QueueInv
  <2>5. PlacesParsed'
    BY <1>2, <1>4, <2>1, PlacesKept
  <2>6. FrontInv'
    BY <2>1 DEF FrontInv, Crashed
  <2> QED
    BY <2>2, <2>3, <2>4, <2>5, <2>6
<1> QED
  BY <1>1, <1>7, <1>8, <1>9 DEF k

LEMMA ServeSampleStep ==
  ASSUME MFAssumption, ControlInv, QueueInv, StreamsInv, ParsedInv, PlacesParsed, FrontInv,
         ServeSample
  PROVE  QueueInv' /\ StreamsInv' /\ ParsedInv' /\ PlacesParsed' /\ FrontInv'
<1> DEFINE h == IF IsPaused THEN 1 ELSE 0
<1>1. PICK s \in Streams :
        /\ ServesBlock(s) /\ Known(s).next # NoBlock /\ ParsedFor(s) /\ Answered /\ HaveBytes
        /\ str' = [str EXCEPT ![s] =
                     [Known(s) EXCEPT
                        !.got = Known(s).group, !.curr = Known(s).next, !.next = NoBlock,
                        !.nidx = 0, !.group = <<>>, !.ext = 0, !.locked = NoBlock,
                        !.held = @ + h]]
  BY DEF ServeSample
<1> DEFINE k == Known(s)
           c == str[s].curr[1]
           u == Sampled(k, h)
<1>2. /\ StreamOK(s, k) /\ Alike(str[s], k) /\ k.sel = 1
      /\ parsed' \in [Clusters -> Int] /\ \A d \in Clusters : parsed'[d] \in -1 .. Size(d)
      /\ Grows /\ k.next # NoBlock
      /\ IsBlock(k.next) => k.next[2] <= parsed'[k.next[1]]
  BY <1>1, KnownFacts
<1>3. Serves(s) /\ c \in Clusters /\ pCurr' = c /\ eop' = eop /\ str[s].sel = 1
  BY <1>1, SearchFacts
<1>4. /\ UNCHANGED <<shutdown, first, commands, asked, creation, pNext>>
      /\ ~shutdown /\ creation \notin Early
  BY <1>3, ServesFacts
<1>5. requests' = Tail(requests) /\ at' = "request"
  BY <1>1 DEF Answered, Go
<1>6. h \in {0, 1} /\ (h = 1 => IsPaused) /\ h \in Nat
  OBVIOUS
<1>7. str' = [str EXCEPT ![s] = u]
  BY <1>1 DEF Sampled
<1>14. u = Sampled(k, h)
  OBVIOUS
<1> HIDE DEF h, k, c, u
<1>8. /\ StreamOK(s, u) /\ u.sel = 1 /\ (u.eos <=> k.eos) /\ u.held = k.held + h
      /\ u.curr = k.next /\ u.next = NoBlock
  <2>1. StreamOK(s, k) /\ k.sel = 1 /\ h \in {0, 1}
    BY <1>2, <1>6
  <2>2. StreamOK(s, Sampled(k, h))
    BY <2>1, SampleOK
  <2> QED
    BY <1>14, <2>1, <2>2, SampleOK
<1>9. /\ u.sel = str[s].sel /\ Placed(u) /\ (u.eos <=> str[s].eos)
      /\ u.held > 0 => str[s].held > 0 \/ (u.sel = 1 /\ IsPaused)
  <2>1. k.held = str[s].held /\ (k.eos <=> str[s].eos) /\ k.held \in Nat
    BY <1>2 DEF Alike, StreamOK, StreamState
  <2> QED
    BY <1>2, <1>3, <1>6, <1>8, <2>1 DEF Placed
<1>10. QueueInv' /\ StreamsInv' /\ str'[s] = u /\ \A x \in Streams : x # s => str'[x] = str[x]
  BY <1>3, <1>5, <1>7, <1>8, <1>9, ServedStep
<1>11. ParsedInv'
  <2>1. pCurr' \in 0 .. Len(File) /\ pNext' \in 0 .. Len(File)
    BY <1>3, <1>4, FileTypes DEF ParsedInv
  <2> QED
    BY <1>1, <1>2, <1>4, <2>1, DiskReads, ParsedPlaying DEF Early
<1>12. PlacesParsed'
  <2>1. IsParsed(str[s].curr)' /\ IsParsed(str[s].next)'
    BY <1>2, <1>8, <1>10, NoBlockTypes DEF IsParsed
  <2> QED
    BY <1>2, <1>4, <1>10, <2>1, PlacesKept
<1>13. FrontInv'
  BY <1>5 DEF FrontInv, Crashed
<1> QED
  BY <1>10, <1>11, <1>12, <1>13

(* The five parts of the invariant below that are not the control.         *)
Consistent == QueueInv /\ StreamsInv /\ ParsedInv /\ PlacesParsed /\ FrontInv

LEMMA ServeStep ==
  ASSUME MFAssumption, ControlInv, Consistent, Serve
  PROVE  Consistent'
<1>0. QueueInv /\ StreamsInv /\ ParsedInv /\ PlacesParsed /\ FrontInv
  BY DEF Consistent
<1>1. CASE ServeUnselected \/ ServeEnded
  BY <1>0, <1>1, ServeUnselectedStep DEF Consistent
<1>2. CASE ServeUnplaced
  BY <1>0, <1>2, ServeUnplacedStep DEF Consistent
<1>3. CASE ServeShort
  BY <1>0, <1>3, ServeShortStep DEF Consistent
<1>4. CASE ServeNextCluster
  BY <1>0, <1>4, ServeNextClusterStep DEF Consistent
<1>5. CASE ServeBytes
  BY <1>0, <1>5, ServeBytesStep DEF Consistent
<1>6. CASE ServeSample
  BY <1>0, <1>6, ServeSampleStep DEF Consistent
<1> QED
  BY <1>1, <1>2, <1>3, <1>4, <1>5, <1>6 DEF Serve

(* The furthest cluster a selected stream is at is one.                    *)
LEMMA FurthestIn ==
  ASSUME MFAssumption, StreamsInv
  PROVE  Furthest = 0 \/ Furthest \in Clusters
<1> DEFINE here == {str[s].curr[1] : s \in {x \in Selected : IsBlock(str[x].curr)}}
<1>1. here \subseteq Clusters
  <2>1. ASSUME NEW s \in Selected, IsBlock(str[s].curr) PROVE str[s].curr[1] \in Clusters
    BY <2>1, Serving DEF Selected
  <2> QED
    BY <2>1
<1>2. Furthest = (IF here = {} THEN 0 ELSE CHOOSE c \in here : \A d \in here : d <= c)
  BY DEF Furthest
<1> HIDE DEF here
<1>3. CASE here # {}
  <2>1. Len(File) \in Nat /\ \A c \in here : c \in 1 .. Len(File)
    BY <1>1, FileTypes
  <2> DEFINE gaps == {g \in 0 .. Len(File) : Len(File) - g \in here}
  <2>2. gaps \subseteq Nat
    BY <2>1
  <2>3. PICK c \in here : TRUE
    BY <1>3
  <2>4. Len(File) - c \in gaps
    BY <2>1, <2>3
  <2>5. Least(gaps) \in gaps /\ \A g \in gaps : Least(gaps) <= g
    BY <2>2, <2>4, LeastIn
  <2>6. ASSUME NEW d \in here PROVE d <= Len(File) - Least(gaps)
    <3>1. Len(File) - d \in gaps
      BY <2>1, <2>6
    <3>2. Least(gaps) <= Len(File) - d /\ Least(gaps) \in Int /\ d \in Int
      BY <2>1, <2>2, <2>5, <3>1
    <3> HIDE DEF gaps
    <3> QED
      BY <2>1, <3>2
  <2>7. \E m \in here : \A d \in here : d <= m
    BY <2>5, <2>6
  <2> QED
    BY <1>1, <1>2, <1>3, <2>7
<1> QED
  BY <1>2, <1>3

LEMMA TurnIdleStep ==
  ASSUME MFAssumption, ControlInv, Consistent, TurnIdle
  PROVE  Consistent'
<1>0. QueueInv /\ StreamsInv /\ ParsedInv /\ PlacesParsed /\ FrontInv
  BY DEF Consistent
<1>1. /\ UNCHANGED <<shutdown, first, commands, asked, creation, requests, str, pCurr, pNext, eop>>
      /\ at = "request" /\ creation \notin Unloaded
  BY DEF TurnIdle, Idle, Turn, api, load, curs, ControlInv, Unloaded
<1>2. QueueInv' /\ StreamsInv'
  BY <1>0, StreamsMoves
<1>3. pCurr' \in 0 .. Len(File) /\ pNext' \in 0 .. Len(File)
  BY <1>0, <1>1 DEF ParsedInv
<1>4. CASE UNCHANGED disk /\ at' # "read" /\ at' # "crashed"
  <2>1. ParsedInv' /\ PlacesParsed'
    BY <1>0, <1>1, <1>4 DEF ParsedInv, PlacesParsed, IsParsed, disk
  <2>2. FrontInv'
    BY <1>4 DEF FrontInv, Crashed
  <2> QED
    BY <1>2, <2>1, <2>2 DEF Consistent
<1>5. CASE ParseAhead(Furthest) /\ Furthest # 0
  <2> DEFINE c == Furthest
             e == IF Complete(c) THEN c + 1 ELSE c
  <2>1. c \in Clusters /\ c \in 1 .. Len(File) /\ Len(File) \in Nat /\ Clusters = 1 .. Len(File)
    BY <1>0, <1>5, FurthestIn, FileTypes
  <2> HIDE DEF c
  <2>2. e \in 1 .. Len(File) + 1
    BY <2>1
  <2>3. \/ at' = "request" /\ UNCHANGED disk
        \/ /\ e \in Clusters /\ ~Complete(e) /\ at' = "request"
           /\ ParseTo(e, parsed[e] + (IF parsed[e] < 0 THEN 2 ELSE 1)) /\ HaveBytes
        \/ Pending("request", e) /\ UNCHANGED parsed
        \/ at' = "quit" /\ UNCHANGED disk
    BY <1>5 DEF ParseAhead, Go, Dies, c
  <2> HIDE DEF e
  <2>4. CASE /\ e \in Clusters /\ ~Complete(e) /\ at' = "request"
             /\ ParseTo(e, parsed[e] + (IF parsed[e] < 0 THEN 2 ELSE 1)) /\ HaveBytes
    <3> DEFINE n == parsed[e] + (IF parsed[e] < 0 THEN 2 ELSE 1)
    <3>1. parsed[e] \in -1 .. Size(e) /\ Size(e) \in Nat \ {0} /\ parsed[e] # Size(e)
      BY <1>0, <2>4, FileTypes DEF ParsedInv, Complete
    <3>2. n \in Int /\ parsed[e] <= n /\ n <= Size(e)
      BY <3>1
    <3>3. ParseTo(e, n)
      BY <2>4
    <3> HIDE DEF n
    <3>4. /\ parsed' \in [Clusters -> Int] /\ \A d \in Clusters : parsed'[d] \in -1 .. Size(d)
          /\ Grows
      BY <1>0, <2>4, <3>2, <3>3, ParseGrows
    <3>5. ParsedInv'
      BY <1>0, <1>1, <1>3, <2>4, <3>4, DiskReads, ParsedPlaying
    <3>6. PlacesParsed'
      BY <1>0, <1>1, <3>4, PlacesKept
    <3>7. FrontInv'
      BY <2>4 DEF FrontInv, Crashed
    <3> QED
      BY <1>2, <3>5, <3>6, <3>7 DEF Consistent
  <2>5. CASE Pending("request", e) /\ UNCHANGED parsed
    <3>1. at' = "read" /\ astate' = "request" /\ Stall(e) /\ e \in 0 .. Len(File) + 1
      BY <2>1, <2>2, <2>5 DEF Pending, Go
    <3>2. parsed' \in [Clusters -> Int] /\ \A d \in Clusters : parsed'[d] \in -1 .. Size(d)
      BY <1>0, <2>5 DEF ParsedInv
    <3>3. ParsedInv'
      BY <1>0, <1>1, <1>3, <3>1, <3>2, DiskReads, ParsedPlaying
    <3>4. PlacesParsed'
      BY <1>0, <1>1, <2>5 DEF PlacesParsed, IsParsed
    <3>5. FrontInv'
      BY <3>1 DEF FrontInv, Crashed, FrontStates, CurrStates, NextStates
    <3> QED
      BY <1>2, <3>3, <3>4, <3>5 DEF Consistent
  <2> QED
    BY <1>4, <2>3, <2>4, <2>5
<1> QED
  BY <1>4, <1>5 DEF TurnIdle, Go

(* What is so while a read on behalf of the request in front is under way. *)
LEMMA PlayFacts ==
  ASSUME MFAssumption, ControlInv, Consistent, NEW state \in FrontStates, PlayStep(state)
  PROVE  /\ UNCHANGED <<shutdown, first, commands, asked, creation, requests, interrupt, eop>>
         /\ ~shutdown /\ at = "read" /\ astate = state /\ creation \notin Early
         /\ requests # <<>> /\ requests \in Seq(Streams) /\ Head(requests) \in Streams
         /\ ~interrupt /\ pCurr \in Clusters
         /\ Following /\ Waits(str[Head(requests)])
         /\ StreamOK(Head(requests), str[Head(requests)]) /\ Placed(str[Head(requests)])
<1>1. /\ UNCHANGED <<shutdown, first, commands, asked, creation, requests, interrupt, eop>>
      /\ ~shutdown /\ at = "read" /\ astate = state
  BY DEF PlayStep, Ready, api, load
<1>2. creation \notin Early
  BY <1>1 DEF ControlInv, ControlTypes, Early, Unloaded, LoadStates, FrontStates, CurrStates,
              NextStates
<1>3. /\ requests # <<>> /\ ~interrupt /\ pCurr \in Clusters
      /\ Following /\ Waits(str[Head(requests)])
  BY <1>1 DEF Consistent, FrontInv
<1>4. requests \in Seq(Streams) /\ Head(requests) \in Streams
  BY <1>3 DEF Consistent, QueueInv
<1>5. StreamOK(Head(requests), str[Head(requests)]) /\ Placed(str[Head(requests)])
  BY <1>1, <1>4 DEF Consistent, StreamsInv
<1> QED
  BY <1>1, <1>2, <1>3, <1>4, <1>5

LEMMA PlayedStep ==
  ASSUME MFAssumption, ControlInv, Consistent, NEW state \in FrontStates, PlayStep(state),
         NEW s, s = Head(requests), NEW u, StreamOK(s, u), u.sel = str[s].sel, Placed(u),
         u.eos <=> str[s].eos, u.held = str[s].held, str' = [str EXCEPT ![s] = u]
  PROVE  QueueInv' /\ StreamsInv' /\ str'[s] = u /\ \A x \in Streams : x # s => str'[x] = str[x]
<1>1. /\ UNCHANGED <<shutdown, first, commands, asked, creation, requests, eop>>
      /\ ~shutdown /\ creation \notin Early /\ requests \in Seq(Streams) /\ s \in Streams
  BY PlayFacts
<1>2. QueueInv /\ StreamsInv
  BY DEF Consistent
<1>3. StreamsInv' /\ \A x \in Streams : str'[x].sel = str[x].sel
  BY <1>1, <1>2, StreamUpdate
<1>4. QueueInv'
  BY <1>1, <1>2, <1>3, QueueKept
<1>5. str'[s] = u /\ \A x \in Streams : x # s => str'[x] = str[x]
  BY <1>1, <1>2 DEF StreamsInv
<1> QED
  BY <1>3, <1>4, <1>5

LEMMA PlayedNothing ==
  ASSUME MFAssumption, ControlInv, Consistent, NEW state \in FrontStates, PlayStep(state),
         str' = str
  PROVE  QueueInv' /\ StreamsInv'
<1>1. /\ UNCHANGED <<shutdown, first, commands, asked, creation, requests, eop>>
      /\ ~shutdown /\ creation \notin Early /\ requests \in Seq(Streams)
  BY PlayFacts
<1>2. QueueInv /\ StreamsInv
  BY DEF Consistent
<1>3. StreamsInv' /\ \A x \in Streams : str'[x].sel = str[x].sel
  BY <1>1, <1>2, StreamsKept
<1>4. QueueInv'
  BY <1>1, <1>2, <1>3, QueueKept
<1> QED
  BY <1>3, <1>4

LEMMA BytesAreHereStep ==
  ASSUME MFAssumption, ControlInv, Consistent, BytesAreHere
  PROVE  Consistent'
<1>1. /\ UNCHANGED <<shutdown, first, commands, asked, creation, requests, str, parsed, pCurr, pNext>>
      /\ creation \notin Unloaded /\ at' = "request" /\ KeepBytes
  BY DEF BytesAreHere, PlayStep, Ready, api, load, curs, Back, Go, ControlInv, ControlTypes,
         Unloaded, LoadStates
<1>2. QueueInv' /\ StreamsInv'
  BY StreamsMoves DEF Consistent
<1>3. ParsedInv'
  BY <1>1, DiskReads, ParsedPlaying DEF Consistent, ParsedInv
<1>4. PlacesParsed' /\ FrontInv'
  BY <1>1 DEF Consistent, PlacesParsed, IsParsed, FrontInv, Crashed
<1> QED
  BY <1>2, <1>3, <1>4 DEF Consistent

LEMMA OnFrontStep ==
  ASSUME MFAssumption, ControlInv, Consistent, LockCurr \/ GetSampleExtent
  PROVE  Consistent'
<1>0. QueueInv /\ StreamsInv /\ ParsedInv /\ PlacesParsed /\ FrontInv
  BY DEF Consistent
<1> DEFINE s == Head(requests)
<1>1. PICK state, after :
        OnFront(state, after) /\ \/ state = "lock" /\ after = [x \in Streams |-> LockCurrBlock(str[x])]
                                 \/ state = "extent" /\ after = [x \in Streams |-> ExtentDone(str[x])]
  BY DEF LockCurr, GetSampleExtent
<1>2. state \in FrontStates /\ PlayStep(state) /\ state \notin CurrStates
  BY <1>1 DEF OnFront, FrontStates, CurrStates
<1>3. /\ UNCHANGED <<shutdown, first, commands, asked, creation, requests, interrupt, eop>>
      /\ ~shutdown /\ at = "read" /\ astate = state /\ creation \notin Early
      /\ requests # <<>> /\ requests \in Seq(Streams) /\ s \in Streams
      /\ Waits(str[s]) /\ StreamOK(s, str[s]) /\ Placed(str[s])
  BY <1>2, PlayFacts
<1>4. /\ KeepBytes /\ UNCHANGED <<parsed, pCurr, pNext>>
      /\ \/ str[s].curr = NoBlock /\ at' = "crashed" /\ UNCHANGED str
         \/ str[s].curr # NoBlock /\ at' = "request" /\ str' = [str EXCEPT ![s] = after[s]]
  BY <1>1, <1>3 DEF OnFront, Go, Back, curs
<1>5. ParsedInv'
  BY <1>0, <1>3, <1>4, DiskReads, ParsedPlaying DEF ParsedInv, Early
<1> HIDE DEF s
<1>6. CASE str[s].curr = NoBlock /\ at' = "crashed" /\ UNCHANGED str
  <2>1. str[s].sel # 1
    BY <1>2, <1>3, <1>6, NoBlockTypes DEF Waits
  <2>2. FrontInv'
    BY <1>3, <1>6, <2>1 DEF FrontInv, Crashed, s
  <2>3. QueueInv' /\ StreamsInv'
    BY <1>2, <1>6, PlayedNothing
  <2>4. PlacesParsed'
    BY <1>0, <1>3, <1>4, <1>6 DEF PlacesParsed, IsParsed
  <2> QED
    BY <1>5, <2>2, <2>3, <2>4 DEF Consistent
<1>7. CASE str[s].curr # NoBlock /\ at' = "request" /\ str' = [str EXCEPT ![s] = after[s]]
  <2> DEFINE u == after[s]
  <2>0. /\ state = "lock" => u = LockCurrBlock(str[s])
        /\ state = "extent" => u = ExtentDone(str[s])
        /\ str' = [str EXCEPT ![s] = u]
    BY <1>1, <1>3, <1>7
  <2> HIDE DEF u
  <2>1. /\ StreamOK(s, u) /\ u.sel = str[s].sel /\ (u.eos <=> str[s].eos)
        /\ u.held = str[s].held /\ u.curr = str[s].curr /\ u.next = str[s].next
        /\ u.cpos = str[s].cpos
    <3>1. CASE state = "lock"
      <4>1. u = LockCurrBlock(str[s]) /\ StreamOK(s, str[s])
        BY <1>3, <2>0, <3>1
      <4>2. /\ StreamOK(s, u) /\ u.sel = str[s].sel /\ (u.eos <=> str[s].eos)
            /\ u.held = str[s].held /\ SamePlace(str[s], u)
        BY <4>1, LockOK
      <4> QED
        BY <4>2 DEF SamePlace
    <3>2. CASE state = "extent"
      <4>1. u = ExtentDone(str[s])
        BY <2>0, <3>2
      <4>2. str[s].sel = 1
        BY <1>3, <1>7 DEF StreamOK
      <4>3. str[s].ext \in Nat
        BY <1>3 DEF StreamOK, StreamState
      <4>4. str[s].ext - 1 \in Nat
        BY <1>3, <3>2, <4>2, <4>3 DEF Waits
      <4>5. u = [str[s] EXCEPT !.ext = str[s].ext - 1]
        BY <4>1 DEF ExtentDone
      <4> QED
        BY <1>3, <4>4, <4>5, ExtOK DEF Alike
    <3> QED
      BY <1>1, <3>1, <3>2
  <2>3. s = Head(requests) /\ Placed(u)
    BY <1>3, <2>1 DEF s, Placed
  <2>4. QueueInv' /\ StreamsInv' /\ str'[s] = u /\ \A x \in Streams : x # s => str'[x] = str[x]
    BY <1>2, <2>0, <2>1, <2>3, PlayedStep, ZenonT(40)
  <2>5. PlacesParsed'
    <3>1. \A x \in Streams : str'[x].curr = str[x].curr /\ str'[x].next = str[x].next
      BY <2>1, <2>4
    <3> QED
      BY <1>0, <1>3, <1>4, <3>1 DEF PlacesParsed, IsParsed
  <2>6. FrontInv'
    BY <1>7 DEF FrontInv, Crashed
  <2> QED
    BY <1>5, <2>4, <2>5, <2>6 DEF Consistent
<1> QED
  BY <1>4, <1>6, <1>7

LEMMA CurrBlockFound ==
  ASSUME MFAssumption, ControlInv, Consistent, NEW state \in CurrStates, PlayStep(state),
         GetCurrBlockObject(parsed'[pCurr]), HaveBytes \/ KeepBytes, UNCHANGED <<pCurr, pNext>>,
         parsed' \in [Clusters -> Int], \A d \in Clusters : parsed'[d] \in -1 .. Size(d), Grows
  PROVE  Consistent'
<1>0. QueueInv /\ StreamsInv /\ ParsedInv /\ PlacesParsed /\ FrontInv
  BY DEF Consistent
<1> DEFINE s == Head(requests)
           n == parsed'[pCurr]
<1>1. state \in FrontStates
  BY DEF FrontStates
<1>2. /\ UNCHANGED <<shutdown, first, commands, asked, creation, requests, interrupt, eop>>
      /\ ~shutdown /\ at = "read" /\ astate = state /\ creation \notin Early
      /\ requests # <<>> /\ s \in Streams /\ ~interrupt /\ pCurr \in Clusters
      /\ Waits(str[s]) /\ StreamOK(s, str[s]) /\ Placed(str[s])
  BY <1>1, PlayFacts
<1>3. /\ str[s].curr = NoBlock /\ (str[s].sel = 1 => str[s].clu = pCurr /\ str[s].cpos = pCurr)
  BY <1>2 DEF Waits
<1>4. ParsedInv'
  <2>1. pCurr' \in 0 .. Len(File) /\ pNext' \in 0 .. Len(File)
    BY <1>0 DEF ParsedInv
  <2> QED
    BY <1>0, <1>2, <2>1, DiskReads, ParsedPlaying DEF Early
<1>5. pCurr # 0 /\ n \in Int /\ n <= Size(pCurr)
  BY <1>2, FileTypes
<1> HIDE DEF s
<1>6. CASE str[s].clu = 0
  <2>1. str[s].sel # 1
    BY <1>3, <1>5, <1>6
  <2>2. at' = "crashed" /\ UNCHANGED str
    BY <1>2, <1>6 DEF GetCurrBlockObject, Go, s
  <2>3. FrontInv'
    BY <1>2, <2>1, <2>2 DEF FrontInv, Crashed, s
  <2>4. QueueInv' /\ StreamsInv'
    BY <1>1, <2>2, PlayedNothing
  <2>5. PlacesParsed'
    BY <1>0, <1>2, <2>2, PlacesKept
  <2> QED
    BY <1>4, <2>3, <2>4, <2>5 DEF Consistent
<1>7. CASE str[s].clu # 0
  <2>1. str[s].sel = 1 /\ str[s].clu = pCurr
    BY <1>2, <1>3, <1>7 DEF StreamOK
  <2> DEFINE b == FirstOn(pCurr, s, n)
             e == IF b # NoBlock THEN b ELSE IF n = Size(pCurr) THEN EndBlock ELSE NoBlock
  <2>2. /\ b = NoBlock \/ b \in Own(s)
        /\ b # NoBlock => b[1] = pCurr /\ b[2] <= n
    BY <1>2, <1>5, FirstOnIn
  <2>3. e \in Places(s) /\ (IsBlock(e) => e[2] <= parsed'[e[1]])
    BY <1>5, <2>2, NoBlockTypes DEF Places
  <2>4. IF e = NoBlock THEN at' = "read" /\ astate' = "currInit" /\ UNCHANGED str
        ELSE at' = "request" /\ str' = [str EXCEPT ![s].curr = e]
    BY <1>2, <1>7, <2>1 DEF GetCurrBlockObject, SetCurrBlockObject, Loop, Back, Go, s
  <2> HIDE DEF e, b
  <2>5. CASE e = NoBlock
    <3>1. at' = "read" /\ astate' = "currInit" /\ UNCHANGED str
      BY <2>4, <2>5
    <3>2. FrontInv'
      <4>1. Waits(str[Head(requests)])'
        BY <1>2, <1>3, <3>1 DEF Waits, CurrStates, NextStates, s
      <4>2. Following' /\ ~Crashed'
        BY <3>1 DEF Following, Crashed
      <4> QED
        BY <1>2, <4>1, <4>2 DEF FrontInv
    <3>3. QueueInv' /\ StreamsInv'
      BY <1>1, <3>1, PlayedNothing
    <3>4. PlacesParsed'
      BY <1>0, <1>2, <3>1, PlacesKept
    <3> QED
      BY <1>4, <3>2, <3>3, <3>4 DEF Consistent
  <2>6. CASE e # NoBlock
    <3> DEFINE u == [str[s] EXCEPT !.curr = e]
    <3>1. at' = "request" /\ str' = [str EXCEPT ![s] = u]
      BY <2>4, <2>6
    <3>2. /\ StreamOK(s, u) /\ u.sel = str[s].sel /\ (u.eos <=> str[s].eos)
          /\ u.held = str[s].held /\ u.curr = e /\ u.next = str[s].next
      BY <1>2, <1>3, <2>1, <2>3, CurrOK
    <3>3. Placed(u) /\ s = Head(requests)
      BY <2>6, <3>2 DEF Placed, s
    <3> HIDE DEF u
    <3>4. QueueInv' /\ StreamsInv' /\ str'[s] = u /\ \A x \in Streams : x # s => str'[x] = str[x]
      BY <1>1, <3>1, <3>2, <3>3, PlayedStep
    <3>5. PlacesParsed'
      <4>1. \A x \in Streams : (str'[x].curr = str[x].curr \/ IsParsed(str[x].curr)')
                               /\ str'[x].next = str[x].next
        BY <1>2, <2>3, <3>2, <3>4 DEF IsParsed
      <4> QED
        BY <1>0, <1>2, <3>4, <4>1, PlacesKept
    <3>6. FrontInv'
      BY <3>1 DEF FrontInv, Crashed
    <3> QED
      BY <1>4, <3>4, <3>5, <3>6 DEF Consistent
  <2> QED
    BY <2>5, <2>6
<1> QED
  BY <1>6, <1>7

(* A step that dies.                                                       *)
LEMMA PlayDies ==
  ASSUME MFAssumption, ControlInv, Consistent, NEW state \in FrontStates, PlayStep(state),
         UNCHANGED <<parsed, io, hr, want, str, pCurr>>, pNext' \in 0 .. Len(File), at' = "quit"
  PROVE  Consistent'
<1>1. QueueInv' /\ StreamsInv'
  BY PlayedNothing
<1>2. UNCHANGED <<first, creation>> /\ creation \notin Unloaded
  BY PlayFacts DEF Early
<1>3. ParsedInv'
  BY <1>2, ParsedPlaying DEF Consistent, ParsedInv
<1>4. PlacesParsed'
  BY <1>2 DEF Consistent, PlacesParsed, IsParsed
<1>5. FrontInv'
  BY DEF FrontInv, Crashed
<1> QED
  BY <1>1, <1>3, <1>4, <1>5 DEF Consistent

LEMMA CurrBlockStep ==
  ASSUME MFAssumption, ControlInv, Consistent, CurrBlockInit \/ CurrBlockFinal
  PROVE  Consistent'
<1>0. ParsedInv
  BY DEF Consistent
<1>1. CASE CurrBlockInit
  <2>1. PlayStep("currInit") /\ "currInit" \in CurrStates /\ "currInit" \in FrontStates
        /\ UNCHANGED <<pCurr, pNext>>
    BY <1>1 DEF CurrBlockInit, CurrStates, FrontStates, curs
  <2>2. /\ UNCHANGED <<shutdown, first, commands, asked, creation, requests, interrupt, eop>>
        /\ ~shutdown /\ creation \notin Early /\ requests # <<>> /\ ~interrupt
        /\ pCurr \in Clusters /\ Waits(str[Head(requests)]) /\ astate = "currInit"
    BY <2>1, PlayFacts
  <2> DEFINE n == IF Complete(pCurr) THEN parsed[pCurr] ELSE parsed[pCurr] + 1
  <2>3. CASE ParseTo(pCurr, n) /\ GetCurrBlockObject(n) /\ HaveBytes
    <3>1. n \in Int /\ parsed[pCurr] <= n /\ n <= Size(pCurr)
      BY <1>0, <2>2, FileTypes DEF ParsedInv, Complete
    <3> HIDE DEF n
    <3>2. /\ parsed' \in [Clusters -> Int] /\ \A d \in Clusters : parsed'[d] \in -1 .. Size(d)
          /\ Grows /\ parsed'[pCurr] = n
      BY <1>0, <2>2, <2>3, <3>1, ParseGrows
    <3>3. GetCurrBlockObject(parsed'[pCurr])
      BY <2>3, <3>2
    <3> QED
      BY <2>1, <2>3, <3>2, <3>3, CurrBlockFound
  <2>4. CASE Pending("currFinal", pCurr) /\ UNCHANGED <<parsed, str>>
    <3>1. at' = "read" /\ astate' = "currFinal" /\ Stall(pCurr) /\ pCurr \in 0 .. Len(File) + 1
      BY <2>2, <2>4, FileTypes DEF Pending, Go
    <3>2. QueueInv' /\ StreamsInv'
      BY <2>1, <2>4, PlayedNothing
    <3>3. ParsedInv'
      <4>1. /\ parsed' \in [Clusters -> Int] /\ \A d \in Clusters : parsed'[d] \in -1 .. Size(d)
            /\ pCurr' \in 0 .. Len(File) /\ pNext' \in 0 .. Len(File)
        BY <1>0, <2>1, <2>4 DEF ParsedInv
      <4> QED
        BY <1>0, <2>2, <3>1, <4>1, DiskReads, ParsedPlaying DEF Early
    <3>4. PlacesParsed'
      BY <2>2, <2>4 DEF Consistent, PlacesParsed, IsParsed
    <3>5. FrontInv'
      <4>1. Waits(str[Head(requests)])'
        BY <2>1, <2>2, <2>4, <3>1 DEF Waits, CurrStates, NextStates
      <4>2. Following' /\ ~Crashed'
        BY <3>1 DEF Following, Crashed
      <4> QED
        BY <2>1, <2>2, <4>1, <4>2 DEF FrontInv
    <3> QED
      BY <3>2, <3>3, <3>4, <3>5 DEF Consistent
  <2>5. CASE Dies(TRUE) /\ UNCHANGED <<disk, str>>
    <3>1. at' = "quit" /\ UNCHANGED <<parsed, io, hr, want, str>> /\ pNext' \in 0 .. Len(File)
      BY <1>0, <2>1, <2>5 DEF Dies, Go, disk, ParsedInv
    <3> QED
      BY <2>1, <3>1, PlayDies
  <2> QED
    BY <1>1, <2>3, <2>4, <2>5 DEF CurrBlockInit
<1>2. CASE CurrBlockFinal
  <2>1. /\ PlayStep("currFinal") /\ "currFinal" \in CurrStates /\ "currFinal" \in FrontStates
        /\ UNCHANGED <<pCurr, pNext, parsed>> /\ KeepBytes /\ GetCurrBlockObject(parsed'[pCurr])
    BY <1>2 DEF CurrBlockFinal, CurrStates, FrontStates, curs
  <2>2. /\ parsed' \in [Clusters -> Int] /\ \A d \in Clusters : parsed'[d] \in -1 .. Size(d)
        /\ Grows
    <3>1. \A d \in Clusters : parsed[d] <= parsed[d]
      BY <1>0 DEF ParsedInv
    <3> QED
      BY <1>0, <2>1, <3>1 DEF ParsedInv, Grows
  <2> QED
    BY <2>1, <2>2, CurrBlockFound
<1> QED
  BY <1>1, <1>2

LEMMA NextInitStep ==
  ASSUME MFAssumption, ControlInv, Consistent, NextInit
  PROVE  Consistent'
<1>0. ParsedInv /\ StreamsInv /\ PlacesParsed
  BY DEF Consistent
<1> DEFINE d == pCurr + 1
<1>1. /\ PlayStep("nextInit") /\ "nextInit" \in FrontStates /\ UNCHANGED <<pCurr, str>>
      /\ \/ /\ pNext' = (IF d > Len(File) THEN 0 ELSE d) /\ Again("nextNotify")
            /\ IF d > Len(File) \/ parsed[d] >= 0 THEN UNCHANGED parsed ELSE ParseTo(d, 0)
         \/ Pending("nextInit", d) /\ UNCHANGED <<parsed, pNext>>
         \/ Dies(TRUE) /\ UNCHANGED <<disk, pNext>>
  BY DEF NextInit, FrontStates, NextStates
<1>2. /\ UNCHANGED <<shutdown, first, commands, asked, creation, requests, interrupt, eop>>
      /\ ~shutdown /\ creation \notin Early /\ requests # <<>> /\ ~interrupt
      /\ pCurr \in Clusters /\ Waits(str[Head(requests)]) /\ astate = "nextInit"
  BY <1>1, PlayFacts
<1>3. QueueInv' /\ StreamsInv'
  BY <1>1, PlayedNothing
<1>4. Len(File) \in Nat /\ pCurr \in 1 .. Len(File) /\ Clusters = 1 .. Len(File)
      /\ pCurr' \in 0 .. Len(File) /\ d \in 0 .. Len(File) + 1
  BY <1>1, <1>2, FileTypes
<1>5. CASE /\ pNext' = (IF d > Len(File) THEN 0 ELSE d) /\ Again("nextNotify")
           /\ IF d > Len(File) \/ parsed[d] >= 0 THEN UNCHANGED parsed ELSE ParseTo(d, 0)
  <2>1. at' = "read" /\ astate' = "nextNotify" /\ HaveBytes
    BY <1>5 DEF Again, Loop, Go
  <2>2. pNext' = (IF pCurr = Len(File) THEN 0 ELSE d) /\ pNext' \in 0 .. Len(File)
        /\ (d > Len(File) <=> pCurr = Len(File))
    BY <1>4, <1>5
  <2>3. /\ parsed' \in [Clusters -> Int] /\ \A c \in Clusters : parsed'[c] \in -1 .. Size(c)
        /\ Grows /\ (pNext' # 0 => parsed'[pNext'] >= 0)
    <3>1. CASE UNCHANGED parsed /\ (d > Len(File) \/ parsed[d] >= 0)
      <4>1. /\ parsed \in [Clusters -> Int] /\ \A c \in Clusters : parsed[c] \in -1 .. Size(c)
        BY <1>0 DEF ParsedInv
      <4>2. \A c \in Clusters : parsed[c] <= parsed[c]
        BY <4>1
      <4>3. pNext' # 0 => parsed'[pNext'] >= 0
        BY <2>2, <3>1
      <4> QED
        BY <3>1, <4>1, <4>2, <4>3 DEF Grows
    <3>2. CASE ParseTo(d, 0) /\ ~(d > Len(File)) /\ ~(parsed[d] >= 0)
      <4>1. d \in Clusters /\ pNext' = d
        BY <1>4, <2>2, <3>2
      <4>2. parsed[d] \in Int /\ parsed[d] <= 0 /\ 0 <= Size(d) /\ 0 \in Int
        BY <1>0, <3>2, <4>1, FileTypes DEF ParsedInv
      <4> QED
        BY <1>0, <3>2, <4>1, <4>2, ParseGrows
    <3> QED
      BY <1>5, <3>1, <3>2
  <2>4. ParsedInv'
    BY <1>0, <1>2, <1>4, <2>1, <2>2, <2>3, DiskReads, ParsedPlaying DEF Early
  <2>5. PlacesParsed'
    BY <1>0, <1>1, <1>2, <2>3, PlacesKept
  <2>6. Following'
    BY <1>1, <2>1, <2>2, <2>3 DEF Following
  <2>7. Waits(str[Head(requests)])'
    <3> DEFINE t == str[Head(requests)]
    <3>1. /\ str'[Head(requests')] = t
          /\ t.sel = 1 => IsBlock(t.curr) /\ t.nidx = 1 /\ t.next = NoBlock
      BY <1>1, <1>2 DEF Waits, CurrStates, NextStates
    <3>2. t.sel = 1 /\ pNext' # 0 => t.nidx <= parsed'[pNext'] + 1
      <4>1. pNext' # 0 => parsed'[pNext'] \in Int /\ parsed'[pNext'] >= 0
        BY <1>4, <2>2, <2>3
      <4> QED
        BY <3>1, <4>1
    <3> HIDE DEF t
    <3> QED
      BY <2>1, <3>1, <3>2 DEF Waits, CurrStates, NextStates
  <2>8. FrontInv'
    BY <1>1, <1>2, <2>1, <2>6, <2>7 DEF FrontInv, Crashed
  <2> QED
    BY <1>3, <2>4, <2>5, <2>8 DEF Consistent
<1>6. CASE Pending("nextInit", d) /\ UNCHANGED <<parsed, pNext>>
  <2>1. at' = "read" /\ astate' = "nextInit" /\ Stall(d)
    BY <1>6 DEF Pending, Go
  <2>2. /\ parsed' \in [Clusters -> Int] /\ \A c \in Clusters : parsed'[c] \in -1 .. Size(c)
        /\ pNext' \in 0 .. Len(File)
    BY <1>0, <1>6 DEF ParsedInv
  <2>3. ParsedInv'
    BY <1>0, <1>2, <1>4, <2>1, <2>2, DiskReads, ParsedPlaying DEF Early
  <2>4. PlacesParsed'
    BY <1>0, <1>1, <1>2, <1>6 DEF PlacesParsed, IsParsed
  <2>5. Waits(str[Head(requests)])' /\ Following'
    BY <1>1, <1>2, <1>6, <2>1 DEF Waits, Following, CurrStates, NextStates
  <2>6. FrontInv'
    BY <1>1, <1>2, <2>1, <2>5 DEF FrontInv, Crashed
  <2> QED
    BY <1>3, <2>3, <2>4, <2>6 DEF Consistent
<1>7. CASE Dies(TRUE) /\ UNCHANGED <<disk, pNext>>
  <2>1. at' = "quit" /\ UNCHANGED <<parsed, io, hr, want, str, pCurr>> /\ pNext' \in 0 .. Len(File)
    BY <1>0, <1>1, <1>7 DEF Dies, Go, disk, ParsedInv
  <2> QED
    BY <1>1, <2>1, PlayDies
<1> QED
  BY <1>1, <1>5, <1>6, <1>7

LEMMA NextParseStep ==
  ASSUME MFAssumption, ControlInv, Consistent, NextParse
  PROVE  Consistent'
<1>0. ParsedInv /\ StreamsInv /\ PlacesParsed
  BY DEF Consistent
<1>1. /\ PlayStep("nextParse") /\ "nextParse" \in FrontStates /\ UNCHANGED <<pCurr, pNext, str>>
      /\ \/ ParseTo(pNext, parsed[pNext] + 1) /\ Again("nextNotify")
         \/ Pending("nextParse", pNext) /\ UNCHANGED parsed
         \/ Dies(TRUE) /\ UNCHANGED disk
  BY DEF NextParse, FrontStates, NextStates, curs
<1>2. /\ UNCHANGED <<shutdown, first, commands, asked, creation, requests, interrupt, eop>>
      /\ ~shutdown /\ creation \notin Early /\ requests # <<>> /\ ~interrupt /\ Following
      /\ pCurr \in Clusters /\ Waits(str[Head(requests)]) /\ astate = "nextParse"
      /\ StreamOK(Head(requests), str[Head(requests)])
  BY <1>1, PlayFacts
<1>3. QueueInv' /\ StreamsInv'
  BY <1>1, PlayedNothing
<1>4. /\ pCurr' \in 0 .. Len(File) /\ pNext' \in 0 .. Len(File) /\ pNext \in 0 .. Len(File) + 1
      /\ pNext \in Clusters /\ ~Complete(pNext) /\ parsed[pNext] >= 0
      /\ pNext = (IF pCurr = Len(File) THEN 0 ELSE pCurr + 1) /\ pNext # 0
  BY <1>0, <1>1, <1>2, FileTypes, SMTT(30) DEF Following, ParsedInv
<1>5. parsed[pNext] \in 0 .. Size(pNext) - 1 /\ Size(pNext) \in Nat
  BY <1>0, <1>4, FileTypes DEF ParsedInv, Complete
<1> DEFINE t == str[Head(requests)]
<1>6. /\ str'[Head(requests')] = t /\ t.nidx \in Nat
      /\ t.sel = 1 => IsBlock(t.curr) /\ t.nidx # 0 /\ t.next = NoBlock /\ t.nidx <= parsed[pNext] + 1
  BY <1>1, <1>2, <1>4 DEF Waits, CurrStates, NextStates, StreamOK, StreamState
<1> HIDE DEF t
<1>7. CASE ParseTo(pNext, parsed[pNext] + 1) /\ Again("nextNotify")
  <2>1. at' = "read" /\ astate' = "nextNotify" /\ HaveBytes
    BY <1>7 DEF Again, Loop, Go
  <2>2. /\ parsed' \in [Clusters -> Int] /\ \A c \in Clusters : parsed'[c] \in -1 .. Size(c)
        /\ Grows /\ parsed'[pNext] = parsed[pNext] + 1
    <3>1. parsed[pNext] + 1 \in Int /\ parsed[pNext] <= parsed[pNext] + 1
          /\ parsed[pNext] + 1 <= Size(pNext)
      BY <1>5
    <3> QED
      BY <1>0, <1>4, <1>7, <3>1, ParseGrows
  <2>3. ParsedInv'
    BY <1>0, <1>2, <1>4, <2>1, <2>2, DiskReads, ParsedPlaying DEF Early
  <2>4. PlacesParsed'
    BY <1>0, <1>1, <1>2, <2>2, PlacesKept
  <2>6. Following'
    <3>1. parsed'[pNext'] >= 0 /\ pNext' = (IF pCurr' = Len(File) THEN 0 ELSE pCurr' + 1)
      BY <1>1, <1>4, <1>5, <2>2
    <3> QED
      BY <2>1, <3>1 DEF Following
  <2>7. t.sel = 1 => t.nidx <= parsed'[pNext'] + 1
    BY <1>1, <1>5, <1>6, <2>2
  <2>8. Waits(str[Head(requests)])'
    BY <1>6, <2>1, <2>7 DEF Waits, CurrStates, NextStates
  <2>9. FrontInv'
    BY <1>1, <1>2, <2>1, <2>6, <2>8 DEF FrontInv, Crashed
  <2> QED
    BY <1>3, <2>3, <2>4, <2>9 DEF Consistent
<1>8. CASE Pending("nextParse", pNext) /\ UNCHANGED parsed
  <2>1. at' = "read" /\ astate' = "nextParse" /\ Stall(pNext)
    BY <1>8 DEF Pending, Go
  <2>2. /\ parsed' \in [Clusters -> Int] /\ \A c \in Clusters : parsed'[c] \in -1 .. Size(c)
    BY <1>0, <1>8 DEF ParsedInv
  <2>3. ParsedInv'
    BY <1>0, <1>2, <1>4, <2>1, <2>2, DiskReads, ParsedPlaying DEF Early
  <2>4. PlacesParsed'
    BY <1>0, <1>1, <1>2, <1>8 DEF PlacesParsed, IsParsed
  <2>5. Waits(str[Head(requests)])'
    BY <1>1, <1>6, <1>8, <2>1 DEF Waits, CurrStates, NextStates
  <2>6. Following'
    BY <1>1, <1>2, <1>8, <2>1 DEF Following, Complete
  <2>7. FrontInv'
    BY <1>1, <1>2, <2>1, <2>5, <2>6 DEF FrontInv, Crashed
  <2> QED
    BY <1>3, <2>3, <2>4, <2>7 DEF Consistent
<1>9. CASE Dies(TRUE) /\ UNCHANGED disk
  <2>1. at' = "quit" /\ UNCHANGED <<parsed, io, hr, want, str, pCurr>> /\ pNext' \in 0 .. Len(File)
    BY <1>0, <1>1, <1>9 DEF Dies, Go, disk, ParsedInv
  <2> QED
    BY <1>1, <2>1, PlayDies
<1> QED
  BY <1>1, <1>7, <1>8, <1>9

LEMMA NextNotifyStep ==
  ASSUME MFAssumption, ControlInv, Consistent, NextNotify
  PROVE  Consistent'
<1>0. ParsedInv /\ StreamsInv /\ PlacesParsed
  BY DEF Consistent
<1> DEFINE s == Head(requests)
           t == str[s]
           u == NotifyNext(s, t)
<1>1. /\ PlayStep("nextNotify") /\ "nextNotify" \in FrontStates /\ UNCHANGED <<parsed, pNext>>
  BY DEF NextNotify, FrontStates, NextStates
<1>2. /\ UNCHANGED <<shutdown, first, commands, asked, creation, requests, interrupt, eop>>
      /\ ~shutdown /\ creation \notin Early /\ requests # <<>> /\ s \in Streams /\ ~interrupt
      /\ pCurr \in Clusters /\ Following /\ Waits(t) /\ astate = "nextNotify"
      /\ StreamOK(s, t) /\ Placed(t)
  BY <1>1, PlayFacts
<1>3. IF t.curr = NoBlock
      THEN at' = "crashed" /\ KeepBytes /\ UNCHANGED <<pCurr, str>>
      ELSE /\ str' = [str EXCEPT ![s] = u]
           /\ IF u.next # NoBlock THEN at' = "request" /\ KeepBytes /\ UNCHANGED pCurr
              ELSE IF Complete(pNext)
                   THEN at' = "read" /\ astate' = "nextInit" /\ HaveBytes /\ pCurr' = pNext
                   ELSE at' = "read" /\ astate' = "nextParse" /\ HaveBytes /\ UNCHANGED pCurr
  BY <1>2 DEF NextNotify, Back, Again, Loop, Go
<1>4. /\ parsed' = parsed /\ parsed \in [Clusters -> Int]
      /\ \A c \in Clusters : parsed[c] \in -1 .. Size(c)
      /\ pCurr \in 0 .. Len(File) /\ pNext \in 0 .. Len(File)
  BY <1>0, <1>1 DEF ParsedInv
<1>5. ParsedInv'
  <2>1. pCurr' \in 0 .. Len(File) /\ (HaveBytes \/ KeepBytes)
    BY <1>3, <1>4
  <2> QED
    BY <1>0, <1>1, <1>2, <1>4, <2>1, DiskReads, ParsedPlaying DEF Early
<1>6. /\ pNext = (IF pCurr = Len(File) THEN 0 ELSE pCurr + 1)
      /\ pNext # 0 => pNext \in Clusters /\ parsed[pNext] \in Nat /\ parsed[pNext] <= Size(pNext)
  <2>1. /\ pNext = (IF pCurr = Len(File) THEN 0 ELSE pCurr + 1)
        /\ pNext # 0 => parsed[pNext] >= 0
    BY <1>2 DEF Following
  <2>2. pNext # 0 => pNext \in Clusters
    BY <1>4, FileTypes
  <2> QED
    BY <1>4, <2>1, <2>2, FileTypes
<1> HIDE DEF s, t, u
<1>7. CASE t.curr = NoBlock
  <2>1. t.sel # 1
    BY <1>2, <1>7, NoBlockTypes DEF Waits, CurrStates
  <2>2. FrontInv'
    BY <1>2, <1>3, <1>7, <2>1 DEF FrontInv, Crashed, s, t
  <2>3. QueueInv' /\ StreamsInv'
    BY <1>1, <1>3, <1>7, PlayedNothing
  <2>4. PlacesParsed'
    BY <1>0, <1>2, <1>3, <1>4, <1>7 DEF PlacesParsed, IsParsed
  <2> QED
    BY <1>5, <2>2, <2>3, <2>4 DEF Consistent
<1>8. CASE t.curr # NoBlock
  <2>1. t.sel = 1 /\ IsBlock(t.curr) /\ t.nidx # 0 /\ t.next = NoBlock
    BY <1>2, <1>8 DEF Waits, StreamOK, CurrStates, NextStates
  <2>4. /\ StreamOK(s, u) /\ Alike(t, u) /\ (IsBlock(u.next) => u.next[2] <= parsed[u.next[1]])
        /\ u.next = NoBlock =>
             /\ pNext # 0 /\ u.nidx = (IF Complete(pNext) THEN 1 ELSE parsed[pNext] + 1)
    <3>1. CASE pNext = 0
      <4>1. u = Found(t, EndBlock)
        BY <3>1 DEF u, NotifyNext
      <4> QED
        BY <1>2, <4>1, FoundEnd, NoBlockTypes
    <3>2. CASE pNext # 0
      <4> DEFINE n == parsed[pNext]
      <4>1. u = Scan(s, t, pNext, n)
        BY <3>2 DEF u, NotifyNext
      <4>2. pNext \in Clusters /\ n \in Nat /\ n <= Size(pNext)
        BY <1>6, <3>2
      <4> HIDE DEF n
      <4>3. /\ StreamOK(s, u) /\ Alike(t, u)
            /\ NotFound(s, t, pNext, n, u) \/ \E i \in t.nidx .. n : FoundAt(s, t, pNext, n, u, i)
        BY <1>2, <2>1, <4>1, <4>2, ScanIs
      <4>4. CASE NotFound(s, t, pNext, n, u)
        <5>1. u.next = NoBlock /\ u.nidx = (IF n = Size(pNext) THEN 1 ELSE n + 1)
          BY <2>1, <4>4 DEF NotFound
        <5> QED
          BY <3>2, <4>3, <5>1, NoBlockTypes DEF n, Complete
      <4>5. ASSUME NEW i \in t.nidx .. n, FoundAt(s, t, pNext, n, u, i)
            PROVE  u.next # NoBlock /\ u.next[2] <= parsed[u.next[1]]
        <5>1. u.next = <<pNext, i>> /\ u.next \in Own(s)
          BY <4>5 DEF FoundAt
        <5>2. t.nidx \in Nat
          BY <1>2 DEF StreamOK, StreamState
        <5>3. i <= n
          BY <4>2, <5>2
        <5> QED
          BY <5>1, <5>3, BlockTypes DEF Own, n
      <4> QED
        BY <4>3, <4>4, <4>5
    <3> QED
      BY <3>1, <3>2
  <2>5. str' = [str EXCEPT ![s] = u]
    BY <1>3, <1>8
  <2>6. QueueInv' /\ StreamsInv' /\ str'[s] = u /\ \A x \in Streams : x # s => str'[x] = str[x]
    <3>1. Placed(u) /\ u.sel = str[s].sel /\ (u.eos <=> str[s].eos) /\ u.held = str[s].held
          /\ s = Head(requests)
      BY <1>2, <2>4 DEF Placed, Alike, t, s
    <3> QED
      BY <1>1, <2>4, <2>5, <3>1, PlayedStep
  <2>7. PlacesParsed'
    <3>1. \A x \in Streams : str'[x].curr = str[x].curr
                             /\ (str'[x].next = str[x].next \/ IsParsed(str[x].next)')
      BY <1>4, <2>4, <2>6 DEF Alike, IsParsed, t
    <3>2. \A c \in Clusters : parsed[c] <= parsed'[c]
      BY <1>4
    <3> QED
      BY <1>0, <1>2, <1>4, <3>1, <3>2, PlacesKept DEF Grows
  <2>8. FrontInv'
    <3>1. CASE u.next # NoBlock
      BY <1>3, <1>8, <3>1 DEF FrontInv, Crashed
    <3>2. CASE u.next = NoBlock
      <4>1. /\ pNext # 0 /\ u.nidx = (IF Complete(pNext) THEN 1 ELSE parsed[pNext] + 1)
            /\ at' = "read" /\ u.sel = 1 /\ IsBlock(u.curr)
            /\ str'[Head(requests')] = u
        BY <1>2, <1>3, <1>8, <2>1, <2>4, <2>6, <3>2 DEF Alike, s, t
      <4>2. CASE Complete(pNext)
        <5>1. astate' = "nextInit" /\ pCurr' = pNext /\ u.nidx = 1
          BY <1>3, <1>8, <3>2, <4>1, <4>2
        <5>2. Waits(str[Head(requests)])' /\ Following'
          BY <3>2, <4>1, <5>1 DEF Waits, Following, CurrStates, NextStates
        <5> QED
          BY <1>2, <1>6, <4>1, <5>1, <5>2 DEF FrontInv, Crashed
      <4>3. CASE ~Complete(pNext)
        <5>1. astate' = "nextParse" /\ pCurr' = pCurr /\ u.nidx = parsed[pNext] + 1
              /\ pNext' = pNext /\ parsed' = parsed /\ parsed[pNext] \in Nat
          BY <1>1, <1>3, <1>6, <1>8, <3>2, <4>1, <4>3
        <5>2. Waits(str[Head(requests)])'
          <6>1. u.nidx # 0 /\ u.nidx <= parsed'[pNext'] + 1
            BY <5>1
          <6> QED
            BY <3>2, <4>1, <5>1, <6>1 DEF Waits, CurrStates, NextStates
        <5>3. Following'
          BY <1>2, <1>6, <4>1, <4>3, <5>1 DEF Following, Complete
        <5> QED
          BY <1>2, <4>1, <5>1, <5>2, <5>3 DEF FrontInv, Crashed
      <4> QED
        BY <4>2, <4>3
    <3> QED
      BY <3>1, <3>2
  <2> QED
    BY <1>5, <2>6, <2>7, <2>8 DEF Consistent
<1> QED
  BY <1>7, <1>8

(* A step that leaves the read under way, and the request in front, alone. *)
LEMMA FrontKept ==
  ASSUME FrontInv, UNCHANGED <<parsed, pCurr, pNext, interrupt>>,
         at' = "crashed" => at = "crashed",
         at' = "read" => at = "read" /\ astate' = astate, shutdown => shutdown',
         requests # <<>> => requests' # <<>> /\ Head(requests') = Head(requests),
         at' = "crashed" /\ requests # <<>> =>
           (str'[Head(requests)].sel = 1 <=> str[Head(requests)].sel = 1),
         at' = "read" /\ ~shutdown' /\ requests # <<>> =>
           str'[Head(requests)] = str[Head(requests)]
  PROVE  FrontInv'
<1>1. Crashed' => requests' # <<>> /\ str'[Head(requests')].sel # 1
  BY DEF FrontInv, Crashed
<1>2. ASSUME at' = "read", ~shutdown', astate' \in FrontStates
      PROVE  /\ requests' # <<>> /\ ~interrupt' /\ pCurr' \in Clusters
             /\ Following' /\ Waits(str[Head(requests)])'
  <2>1. /\ requests # <<>> /\ ~interrupt /\ pCurr \in Clusters
        /\ Following /\ Waits(str[Head(requests)])
    BY <1>2 DEF FrontInv
  <2>2. requests' # <<>> /\ str'[Head(requests')] = str[Head(requests)]
    BY <1>2, <2>1
  <2>3. Following'
    BY <1>2, <2>1 DEF Following, Complete
  <2>4. Waits(str[Head(requests)])'
    BY <1>2, <2>1, <2>2 DEF Waits
  <2> QED
    BY <2>1, <2>2, <2>3, <2>4
<1> QED
  BY <1>1, <1>2 DEF FrontInv

LEMMA HeadAppend ==
  ASSUME NEW S, NEW q \in Seq(S), NEW e \in S, q # <<>>
  PROVE  Append(q, e) # <<>> /\ Head(Append(q, e)) = Head(q)
<1>1. Len(q) >= 1
  BY EmptySeq
<1> QED
  BY <1>1

LEMMA PlacesOutside ==
  ASSUME MFAssumption, StreamsInv, PlacesParsed, UNCHANGED <<parsed, first>>,
         \A s \in Streams : /\ str'[s].curr \in {str[s].curr, first[s], NoBlock}
                            /\ str'[s].next \in {str[s].next, NoBlock}
  PROVE  PlacesParsed'
<1>1. ASSUME NEW s \in Streams
      PROVE  IsParsed(first[s])' /\ IsParsed(str[s].curr)' /\ IsParsed(str[s].next)'
  BY NoBlockTypes DEF PlacesParsed, IsParsed, IsBlock
<1> QED
  BY <1>1 DEF PlacesParsed

LEMMA ShutdownPlace ==
  ASSUME NEW t \in StreamState, NEW u, u = ShutdownStream(t)
  PROVE  u.curr = NoBlock /\ u.next = t.next /\ u.sel = t.sel
BY ONLY t \in StreamState, u = ShutdownStream(t) DEF ShutdownStream, StreamState

(* What the handler and the pipeline leave to the worker.                  *)
LEMMA OutsideFacts ==
  ASSUME Handler \/ Pipeline
  PROVE  /\ UNCHANGED <<parsed, first, pCurr, pNext, interrupt, at, astate>>
         /\ requests' = requests \/ \E s \in Streams : requests' = Append(requests, s)
         /\ \/ str' = str /\ shutdown' = shutdown
            \/ shutdown' /\ \A s \in Streams : str'[s] = ShutdownStream(str[s])
<1> DEFINE Left ==
      /\ UNCHANGED <<parsed, first, pCurr, pNext, interrupt, at, astate>>
      /\ requests' = requests \/ \E s \in Streams : requests' = Append(requests, s)
      /\ \/ str' = str /\ shutdown' = shutdown
         \/ shutdown' /\ \A s \in Streams : str'[s] = ShutdownStream(str[s])
<1> USE DEF Command, Call, Queue, disk, curs, load
<1>1. CASE Handler
  BY <1>1 DEF Handler, BeginCreateObject, CancelObjectCreation, EndLoad, Release, ShutdownSource
<1>2. ASSUME NEW pos \in SeekTo, Seek(pos) PROVE Left
  BY <1>2 DEF Seek
<1>3. ASSUME NEW pos \in SeekTo, NEW desc \in Descs, Start(desc, pos) PROVE Left
  BY <1>3 DEF Start
<1>4. ASSUME NEW desc \in Restarts, Restart(desc) PROVE Left
  BY <1>4 DEF Restart
<1>5. CASE Stop
  BY <1>5 DEF Stop
<1>6. CASE Pause
  BY <1>6 DEF Pause
<1>7. CASE SetRate
  BY <1>7 DEF SetRate
<1>8. CASE Shutdown
  BY <1>8 DEF Shutdown, ShutdownSource
<1>9. ASSUME NEW s \in Streams, RequestSample(s) PROVE Left
  BY <1>9 DEF RequestSample
<1> QED
  BY <1>1, <1>2, <1>3, <1>4, <1>5, <1>6, <1>7, <1>8, <1>9 DEF Pipeline

LEMMA HandlerStep ==
  ASSUME MFAssumption, ControlInv, Consistent, Handler
  PROVE  Consistent'
<1>0. QueueInv /\ StreamsInv /\ ParsedInv /\ PlacesParsed /\ FrontInv
  BY DEF Consistent
<1>1. /\ UNCHANGED <<parsed, first, pCurr, pNext, interrupt, at, astate, requests>>
      /\ \/ str' = str /\ shutdown' = shutdown
         \/ shutdown' /\ \A s \in Streams : str'[s] = ShutdownStream(str[s])
  BY OutsideFacts DEF Handler, BeginCreateObject, CancelObjectCreation, EndLoad, Release
<1>3. ASSUME NEW s \in Streams
      PROVE  /\ str'[s].curr \in {str[s].curr, NoBlock} /\ str'[s].next = str[s].next
             /\ str'[s].sel = str[s].sel
  <2>1. str[s] \in StreamState
    BY <1>0 DEF StreamsInv, StreamOK
  <2>2. CASE str' = str
    BY <2>2
  <2>3. CASE str'[s] = ShutdownStream(str[s])
    BY <2>1, <2>3, ShutdownPlace
  <2> QED
    BY <1>0, <1>1, <2>2, <2>3
<1>4. PlacesParsed'
  BY <1>0, <1>1, <1>3, PlacesOutside
<1>5. requests # <<>> => Head(requests) \in Streams
  BY <1>0 DEF QueueInv
<1>6. FrontInv'
  BY <1>0, <1>1, <1>3, <1>5, FrontKept
<1> QED
  BY <1>0, <1>4, <1>6, StreamsHandler, ParsedHandler DEF Consistent

LEMMA PipelineStep ==
  ASSUME MFAssumption, ControlInv, Consistent, Pipeline
  PROVE  Consistent'
<1>0. QueueInv /\ StreamsInv /\ ParsedInv /\ PlacesParsed /\ FrontInv
  BY DEF Consistent
<1>1. /\ UNCHANGED <<parsed, first, pCurr, pNext, interrupt, at, astate>>
      /\ requests' = requests \/ \E s \in Streams : requests' = Append(requests, s)
      /\ \/ str' = str /\ shutdown' = shutdown
         \/ shutdown' /\ \A s \in Streams : str'[s] = ShutdownStream(str[s])
  BY OutsideFacts
<1>2. ASSUME NEW s \in Streams
      PROVE  /\ str'[s].curr \in {str[s].curr, NoBlock} /\ str'[s].next = str[s].next
             /\ str'[s].sel = str[s].sel
  <2>1. str[s] \in StreamState
    BY <1>0 DEF StreamsInv, StreamOK
  <2>2. CASE str' = str
    BY <2>2
  <2>3. CASE str'[s] = ShutdownStream(str[s])
    BY <2>1, <2>3, ShutdownPlace
  <2> QED
    BY <1>0, <1>1, <2>2, <2>3
<1>3. PlacesParsed'
  BY <1>0, <1>1, <1>2, PlacesOutside
<1>4. requests \in Seq(Streams) /\ (requests # <<>> => Head(requests) \in Streams)
  BY <1>0 DEF QueueInv
<1>5. requests # <<>> => requests' # <<>> /\ Head(requests') = Head(requests)
  BY <1>1, <1>4, HeadAppend
<1>6. FrontInv'
  BY <1>0, <1>1, <1>2, <1>4, <1>5, FrontKept
<1> QED
  BY <1>0, <1>3, <1>6, StreamsPipeline, ParsedHandler DEF Consistent

(* The worker's waits, and the end of its turn.                            *)
LEMMA MovesFacts ==
  ASSUME ReadDone \/ Wake \/ Quits \/ RequestArrives \/ CancelDone \/ OnAsyncRead \/ TurnEnds
  PROVE  /\ UNCHANGED <<parsed, first, str, shutdown, pCurr, pNext, interrupt>>
         /\ requests' = requests \/ at' = "quit"
         /\ at' = "crashed" => at = "crashed"
         /\ at' = "read" => at = "read" /\ astate' = astate
         /\ at' = "cancel" => at = "cancel" \/ (at = "read" /\ interrupt)
         /\ at' = "request" => at \in {"cancel", "request"} \/ shutdown
<1> USE DEF api, disk, load, curs, Go, Back, Dies, HaveBytes
<1>1. CASE ReadDone
  BY <1>1 DEF ReadDone
<1>2. CASE Wake
  BY <1>2 DEF Wake
<1>3. CASE Quits
  BY <1>3 DEF Quits
<1>4. CASE RequestArrives
  BY <1>4 DEF RequestArrives
<1>5. CASE CancelDone
  BY <1>5 DEF CancelDone
<1>6. CASE OnAsyncRead
  BY <1>6 DEF OnAsyncRead
<1>7. CASE TurnEnds
  BY <1>7 DEF TurnEnds
<1> QED
  BY <1>1, <1>2, <1>3, <1>4, <1>5, <1>6, <1>7

LEMMA MovesStep ==
  ASSUME MFAssumption, ControlInv, Consistent,
         ReadDone \/ Wake \/ Quits \/ RequestArrives \/ CancelDone \/ OnAsyncRead \/ TurnEnds
  PROVE  Consistent'
<1>0. QueueInv /\ StreamsInv /\ ParsedInv /\ PlacesParsed /\ FrontInv
  BY DEF Consistent
<1>1. QueueInv' /\ StreamsInv'
  BY <1>0, StreamsMoves, StreamsTurnEnds
<1>2. ParsedInv'
  BY <1>0, ParsedHandler, ParsedMoves
<1>3. /\ UNCHANGED <<parsed, first, str, shutdown, pCurr, pNext, interrupt>>
      /\ requests' = requests \/ at' = "quit"
      /\ at' = "crashed" => at = "crashed"
      /\ at' = "read" => at = "read" /\ astate' = astate
  BY MovesFacts
<1>4. PlacesParsed'
  BY <1>0, <1>3, PlacesOutside
<1>5. FrontInv'
  <2>1. CASE requests' = requests
    BY <1>0, <1>3, <2>1, FrontKept
  <2>2. CASE at' = "quit"
    BY <2>2 DEF FrontInv, Crashed
  <2> QED
    BY <1>3, <2>1, <2>2
<1> QED
  BY <1>1, <1>2, <1>4, <1>5 DEF Consistent

(* A command leaves the next block of a stream or forgets it.              *)
LEMMA CommandedNext ==
  ASSUME NEW c \in CommandSet, NEW s, NEW t \in StreamState, NEW u, u = Commanded(c, s, t),
         StartStream(c, s, t) \in StreamState
  PROVE  u.next \in {t.next, NoBlock}
<1>1. ASSUME NEW b, NEW d, NEW v, v = SetCurrBlock(t, b, d) PROVE v.next = NoBlock
  BY <1>1 DEF SetCurrBlock, StreamState
<1>2. Deselect(t).next \in {t.next, NoBlock}
  BY DEF Deselect, StreamState
<1>3. StopStream(t).next = t.next
  BY DEF StopStream, StreamState
<1>4. StartStream(c, s, t).next \in {t.next, NoBlock}
  BY <1>1, <1>2 DEF StartStream
<1>5. c.kind = "seek" => u.next = StartStream(c, s, t).next
  <2>1. c.kind = "seek" => u = [StartStream(c, s, t) EXCEPT !.held = 0]
    BY DEF Commanded
  <2>2. ASSUME NEW v \in StreamState PROVE [v EXCEPT !.held = 0].next = v.next
    BY DEF StreamState
  <2> QED
    BY <2>1, <2>2
<1>6. RestartStream(c, s, t).next \in {t.next, NoBlock}
  BY <1>2 DEF RestartStream, SetCurrBlock, StreamState
<1> QED
  BY <1>3, <1>4, <1>5, <1>6 DEF Commanded, CommandSet

LEMMA CommandsStep ==
  ASSUME MFAssumption, ControlInv, Consistent, CommandArrives \/ TurnToCommand
  PROVE  Consistent'
<1>0. QueueInv /\ StreamsInv /\ ParsedInv /\ PlacesParsed /\ FrontInv
  BY DEF Consistent
<1>1. QueueInv' /\ StreamsInv'
  BY <1>0, StreamsCommands
<1>2. ParsedInv'
  BY <1>0, ParsedMoves
<1>3. /\ OnCommand /\ UNCHANGED <<parsed, first, shutdown, pCurr, pNext, interrupt, astate>>
      /\ \/ at' = "cancel" \/ at' = "request" \/ (at = "read" /\ at' = "read" /\ ~Cancels)
  BY DEF CommandArrives, TurnToCommand, api, disk, load, curs, Go
<1>4. CASE str' = str /\ requests' = requests
  <2>1. PlacesParsed'
    BY <1>0, <1>3, <1>4, PlacesOutside
  <2>2. FrontInv'
    BY <1>0, <1>3, <1>4, FrontKept
  <2> QED
    BY <1>1, <1>2, <2>1, <2>2 DEF Consistent
<1>5. CASE ~shutdown /\ Len(commands) > 1
  <2> DEFINE c == commands[2]
  <2>1. ASSUME NEW s \in Streams
        PROVE  LET t == str[s]
                   u == str'[s]
               IN  /\ c \in CommandSet /\ (c.kind = "stop" => c.desc = {})
                   /\ u = Commanded(c, s, t)
                   /\ StreamOK(s, u)
                   /\ c.kind \in {"start", "seek"} /\ u.sel = 1 =>
                        u.curr = first[s] \/ u.curr = NoBlock
                   /\ c.kind = "restart" /\ u.sel = 1 => SamePlace(t, u) /\ t.sel = 1
                   /\ c.kind = "pause" => u = t
    BY <1>0, <1>3, <1>5, CommandStreams
  <2> HIDE DEF c
  <2>2. ASSUME NEW s \in Streams
        PROVE  str'[s].curr \in {str[s].curr, first[s], NoBlock} /\ str'[s].next \in {str[s].next, NoBlock}
    <3>1. str'[s].next \in {str[s].next, NoBlock}
      <4>1. StreamOK(s, str[s]) /\ first[s] \in Places(s) /\ first[s] # NoBlock /\ c \in CommandSet
        BY <1>0, <1>5, <2>1 DEF StreamsInv, QueueInv
      <4>2. StreamOK(s, StartStream(c, s, str[s]))
        BY <4>1, StartStreamOK
      <4> QED
        BY <2>1, <4>1, <4>2, CommandedNext DEF StreamOK
    <3>2. c.kind \in {"start", "seek", "stop", "restart", "pause"} /\ (c.kind = "stop" => c.desc = {})
      BY <2>1 DEF CommandSet
    <3>3. str'[s].sel # 1 => str'[s].curr = NoBlock
      BY <2>1 DEF StreamOK
    <3>4. c.kind = "stop" => str'[s].curr \in {str[s].curr, NoBlock}
      <4>1. str[s] \in StreamState /\ (c.kind = "stop" => str'[s] = StopStream(str[s]))
        BY <1>0, <2>1 DEF StreamsInv, StreamOK, Commanded
      <4>2. StopStream(str[s]).curr \in {str[s].curr, NoBlock}
        BY <4>1 DEF StopStream, StreamState
      <4> QED
        BY <4>1, <4>2
    <3>5. c.kind # "stop" /\ str'[s].sel = 1 => str'[s].curr \in {str[s].curr, first[s], NoBlock}
      BY <2>1, <3>2 DEF SamePlace
    <3> QED
      BY <3>1, <3>3, <3>4, <3>5
  <2>3. PlacesParsed'
    BY <1>0, <1>3, <2>2, PlacesOutside
  <2>4. FrontInv'
    <3>1. at' # "crashed"
      BY <1>3
    <3>2. ASSUME at' = "read", astate' \in FrontStates
          PROVE  /\ requests' # <<>> /\ ~interrupt' /\ pCurr' \in Clusters
                 /\ Following' /\ Waits(str[Head(requests)])'
      <4>1. /\ at = "read" /\ c.kind \in {"restart", "pause"} /\ requests' = requests
            /\ astate \in FrontStates
        <5>1. at = "read" /\ ~Cancels
          BY <1>3, <3>2
        <5>2. c.kind \notin {"start", "seek", "stop"}
          BY <1>5, <5>1 DEF Cancels, c
        <5>3. requests' = requests
          BY <1>3, <1>5, <5>2 DEF OnCommand, c
        <5>4. commands \in Seq(CommandSet) /\ c \in CommandSet
          BY <1>0, <1>5 DEF QueueInv, c
        <5> QED
          BY <1>3, <3>2, <5>1, <5>2, <5>3, <5>4 DEF CommandSet
      <4>2. /\ requests # <<>> /\ ~interrupt /\ pCurr \in Clusters
            /\ Following /\ Waits(str[Head(requests)]) /\ Head(requests) \in Streams
        BY <1>0, <1>5, <4>1 DEF FrontInv, QueueInv
      <4>3. Following'
        BY <1>3, <4>2 DEF Following, Complete
      <4>4. Waits(str'[Head(requests)])
        <5>1. /\ StreamOK(Head(requests), str'[Head(requests)])
              /\ \/ SamePlace(str[Head(requests)], str'[Head(requests)]) /\ str[Head(requests)].sel = 1
                 \/ str'[Head(requests)].sel # 1
                 \/ str'[Head(requests)] = str[Head(requests)]
          BY <2>1, <4>1, <4>2
        <5> QED
          BY <4>2, <5>1 DEF Waits, SamePlace, StreamOK
      <4> QED
        BY <1>3, <4>1, <4>2, <4>3, <4>4 DEF Waits
    <3> QED
      BY <3>1, <3>2 DEF FrontInv, Crashed
  <2> QED
    BY <1>1, <1>2, <2>3, <2>4 DEF Consistent
<1> QED
  BY <1>3, <1>4, <1>5 DEF OnCommand, QueueInv

LEMMA LoadStepKeeps ==
  ASSUME MFAssumption, ControlInv, Consistent, Load
  PROVE  Consistent'
<1>0. QueueInv /\ StreamsInv /\ ParsedInv /\ PlacesParsed /\ FrontInv
  BY DEF Consistent
<1>1. QueueInv' /\ StreamsInv' /\ ParsedInv' /\ ControlInv'
  BY <1>0, StreamsLoad, ParsedLoad, ControlLoad
<1>2. /\ at = "read" /\ astate \in LoadStates /\ UNCHANGED str
      /\ creation' \in {creation, "loaded", "bad"}
      /\ at' \in {"read", "request", "quit"}
  BY DEF Load, ParseEbmlHeader, ParseSegmentHeaders, ParseCues, LoadCluster, ParseCluster,
         InitStreams, LoadStep, LoadComplete, LoadFails, LoadStalls, Loads, Pending, Again,
         Loop, Back, Go, Ready, LoadStates
<1>3. creation \in Unloaded
  BY <1>2 DEF ControlInv, LoadStates, PlayStates, FrontStates, CurrStates, NextStates
<1>4. FrontInv'
  <2>1. at' = "read" => astate' \in LoadStates
    BY <1>1, <1>2, <1>3 DEF ControlInv, Unloaded
  <2> QED
    BY <1>2, <2>1 DEF FrontInv, Crashed, LoadStates, FrontStates, CurrStates, NextStates
<1>5. /\ parsed \in [Clusters -> Int] /\ parsed' \in [Clusters -> Int]
      /\ \A c \in Clusters : parsed[c] \in -1 .. Size(c)
  BY <1>0, <1>1 DEF ParsedInv
<1>6. /\ Count \in 0 .. Len(File) /\ Len(File) \in Nat /\ Clusters = 1 .. Len(File)
      /\ \A c \in Clusters : parsed[c] >= 0 <=> c <= Count
  BY <1>0, <1>3, CountTypes
<1>7. Grows /\ (first' # first => parsed' = parsed /\ InitStreams)
  <2>1. CASE ParseEbmlHeader \/ ParseSegmentHeaders \/ ParseCues
    BY <1>5, <2>1 DEF ParseEbmlHeader, ParseSegmentHeaders, ParseCues, load, Grows
  <2>2. CASE LoadCluster
    <3>1. first' = first /\ (parsed' = parsed \/ (Count # Len(File) /\ ParseTo(Count + 1, 0)))
      BY <2>2 DEF LoadCluster, load
    <3>2. CASE Count # Len(File) /\ ParseTo(Count + 1, 0)
      <4> DEFINE k == Count + 1
      <4>1. k \in Clusters /\ parsed[k] <= 0 /\ parsed' = [parsed EXCEPT ![k] = 0]
        <5>1. k \in Clusters /\ ~(k <= Count)
          BY <1>6, <3>2
        <5> QED
          BY <1>5, <1>6, <3>2, <5>1 DEF ParseTo
      <4> HIDE DEF k
      <4> QED
        BY <1>5, <3>1, <4>1 DEF Grows
    <3> QED
      BY <1>5, <3>1, <3>2 DEF Grows
  <2>3. CASE ParseCluster
    <3> DEFINE k == Count
    <3>1. first' = first /\ (parsed' = parsed \/ parsed' = [parsed EXCEPT ![k] = parsed[k] + 1])
      BY <2>3 DEF ParseCluster, ParseTo, load
    <3> HIDE DEF k
    <3> QED
      BY <1>5, <3>1 DEF Grows
  <2>4. CASE InitStreams
    <3>1. parsed' = parsed
      BY <2>4 DEF InitStreams
    <3> QED
      BY <1>5, <2>4, <3>1 DEF Grows
  <2> QED
    BY <2>1, <2>2, <2>3, <2>4 DEF Load
<1>8. CASE first' = first
  BY <1>0, <1>1, <1>2, <1>4, <1>5, <1>7, <1>8, PlacesKept DEF Consistent
<1>9. CASE parsed' = parsed /\ InitStreams
  <2>1. astate = "initStreams" /\ Count # 0
    BY <1>0, <1>2, <1>3, <1>9 DEF InitStreams, LoadStep, Ready, ParsedInv
  <2>2. Count \in Clusters
    BY <1>6, <2>1
  <2> DEFINE k == Count
  <2>3. ASSUME NEW s \in Streams
        PROVE  first'[s] \in {first[s], EndBlock, FirstOn(k, s, parsed[k])}
    BY <1>9 DEF InitStreams
  <2> HIDE DEF k
  <2>4. ASSUME NEW s \in Streams
        PROVE  IsParsed(first[s])' /\ IsParsed(str[s].curr)' /\ IsParsed(str[s].next)'
    <3>1. IsParsed(FirstOn(k, s, parsed[k]))
      <4>1. k \in Clusters /\ parsed[k] \in Int /\ parsed[k] <= Size(k)
        BY <1>5, <2>2, FileTypes DEF k
      <4>2. FirstOn(k, s, parsed[k]) = NoBlock \/
              (FirstOn(k, s, parsed[k])[1] = k /\ FirstOn(k, s, parsed[k])[2] <= parsed[k])
        BY <4>1, FirstOnIn
      <4> QED
        BY <4>2, NoBlockTypes DEF IsParsed
    <3>2. IsParsed(first[s]) /\ IsParsed(str[s].curr) /\ IsParsed(str[s].next)
      BY <1>0 DEF PlacesParsed
    <3> QED
      BY <1>2, <1>9, <2>3, <3>1, <3>2, NoBlockTypes DEF IsParsed
  <2> QED
    BY <1>1, <1>4, <2>4 DEF Consistent, PlacesParsed
<1> QED
  BY <1>7, <1>8, <1>9

MFInv == ControlInv /\ Consistent

LEMMA NextKeeps ==
  ASSUME MFAssumption, MFInv, MFNext
  PROVE  MFInv'
<1>0. ControlInv /\ Consistent /\ NothingAsked
  BY DEF MFInv, Consistent, QueueInv
<1>1. CASE Handler
  BY <1>0, <1>1, ControlHandler, HandlerStep DEF MFInv
<1>2. CASE Pipeline
  BY <1>0, <1>2, ControlPipeline, PipelineStep DEF MFInv
<1>3. CASE ReadDone
  BY <1>0, <1>3, ControlReadDone, MovesStep DEF MFInv
<1>4. CASE Wake \/ Quits \/ RequestArrives \/ CancelDone \/ OnAsyncRead \/ TurnEnds
  BY <1>0, <1>4, ControlMoves, MovesStep DEF MFInv
<1>5. CASE CommandArrives \/ TurnToCommand
  BY <1>0, <1>5, ControlMoves, CommandsStep DEF MFInv
<1>6. CASE Load
  BY <1>0, <1>6, ControlLoad, LoadStepKeeps DEF MFInv
<1>7. CASE TurnIdle
  BY <1>0, <1>7, ControlIdle, TurnIdleStep DEF MFInv
<1>8. CASE Serve
  BY <1>0, <1>8, ControlServe, ServeStep DEF MFInv
<1>9. CASE Play
  <2>1. Consistent'
    BY <1>0, <1>9, BytesAreHereStep, OnFrontStep, CurrBlockStep, NextInitStep, NextNotifyStep,
       NextParseStep DEF Play
  <2> QED
    BY <1>0, <1>9, <2>1, ControlPlay DEF MFInv
<1> QED
  BY <1>1, <1>2, <1>3, <1>4, <1>5, <1>6, <1>7, <1>8, <1>9 DEF MFNext, Worker

LEMMA IdleKeeps ==
  ASSUME MFInv, UNCHANGED mvars
  PROVE  MFInv'
<1>1. UNCHANGED <<creation, shutdown, ev, at, woken, hr, astate, commands, requests, asked>>
      /\ UNCHANGED <<first, str, eop, io, want, parsed, pCurr, pNext, interrupt>>
  BY DEF mvars, api, disk, load, curs
<1>2. ControlInv'
  BY <1>1 DEF MFInv, ControlInv, ControlTypes, OneRead
<1>3. QueueInv'
  BY <1>1 DEF MFInv, Consistent, QueueInv, NothingAsked, Selected
<1>4. StreamsInv'
  BY <1>1, StreamsKept DEF MFInv, Consistent
<1>5. ParsedInv'
  BY <1>1 DEF MFInv, Consistent, ParsedInv, Count, Complete
<1>6. PlacesParsed'
  BY <1>1 DEF MFInv, Consistent, PlacesParsed, IsParsed
<1>7. FrontInv'
  BY <1>1, FrontKept DEF MFInv, Consistent
<1> QED
  BY <1>2, <1>3, <1>4, <1>5, <1>6, <1>7 DEF MFInv, Consistent

LEMMA FreshOK ==
  ASSUME NEW s, MFAssumption
  PROVE  StreamOK(s, Fresh)
<1>1. Fresh \in StreamState
  BY NoBlockTypes, EmptySeq DEF Fresh, StreamState
<1> QED
  BY <1>1, FileTypes DEF StreamOK, Fresh, Places

LEMMA InitHolds ==
  ASSUME MFAssumption, MFInit
  PROVE  MFInv
<1>1. ControlInv
  BY DEF MFInit, ControlInv, ControlTypes, OneRead, Early, Unloaded, LoadStates
<1>2. [kind |-> "stop", desc |-> {}, pos |-> 1] \in CommandSet
  BY DEF CommandSet
<1>3. Selected = {} /\ \A s \in Streams : str[s] = Fresh /\ Fresh.sel = -1
  BY DEF Selected, MFInit, Fresh
<1>4. QueueInv
  <2> DEFINE c == [kind |-> "stop", desc |-> {}, pos |-> 1]
  <2>1. /\ commands = <<c>> /\ c \in CommandSet /\ c.kind = "stop" /\ c.desc = {}
        /\ requests = <<>> /\ asked = {} /\ creation = "none"
    BY <1>2 DEF MFInit
  <2> HIDE DEF c
  <2>2. commands \in Seq(CommandSet) /\ Len(commands) = 1 /\ commands[1] = c /\ commands # <<>>
    BY <2>1
  <2>3. QueueOK(commands, Selected)
    BY <1>3, <2>1, <2>2 DEF QueueOK
  <2>4. requests \in Seq(Streams)
    BY <2>1
  <2> QED
    BY <2>1, <2>2, <2>3, <2>4 DEF QueueInv, NothingAsked
<1>5. StreamsInv
  <2>1. /\ str = [s \in Streams |-> Fresh] /\ first = [s \in Streams |-> NoBlock] /\ ~eop
        /\ shutdown = FALSE
    BY DEF MFInit
  <2>2. \A s \in Streams : StreamOK(s, Fresh) /\ Fresh \in StreamState /\ first[s] \in Places(s)
    BY <2>1, FreshOK DEF StreamOK, Places
  <2>3. \A s \in Streams : Fresh.held = 0 /\ Fresh.sel # 1
    BY DEF Fresh
  <2>4. first \in [Streams -> Nat \X Nat] /\ str \in [Streams -> StreamState]
    BY <2>1, <2>2, NoBlockTypes
  <2>5. HeldOnlyWhenPaused /\ \A s \in Streams : Placed(str[s])
    BY <2>1, <2>3 DEF HeldOnlyWhenPaused, Placed
  <2>6. eop \in BOOLEAN /\ EndOfPresentation
    BY <1>3, <2>1 DEF EndOfPresentation, MFInit
  <2> QED
    BY <2>1, <2>2, <2>4, <2>5, <2>6 DEF StreamsInv
<1>6. ParsedInv
  <2>1. /\ io = 0 /\ hr = "ok" /\ want = 0 /\ parsed = [c \in Clusters |-> -1] /\ astate = "ebml"
        /\ pCurr = 0 /\ pNext = 0 /\ creation = "none"
    BY DEF MFInit
  <2>2. MaxPages \in Nat /\ Len(File) \in Nat /\ Clusters = 1 .. Len(File)
        /\ \A c \in Clusters : Size(c) \in Nat
    BY FileTypes DEF MFAssumption
  <2>3. \A c \in Clusters : (parsed[c] >= 0 <=> c <= 0) /\ parsed[c] \in -1 .. Size(c)
    BY <2>1, <2>2
  <2> QED
    BY <2>1, <2>2, <2>3 DEF ParsedInv
<1>7. PlacesParsed
  BY NoBlockTypes DEF MFInit, PlacesParsed, IsParsed, Fresh
<1>8. FrontInv
  BY DEF MFInit, FrontInv, Crashed, FrontStates, CurrStates, NextStates
<1> QED
  BY <1>1, <1>4, <1>5, <1>6, <1>7, <1>8 DEF MFInv, Consistent

-----------------------------------------------------------------------------
(* What has been told, and the counters of the model.                      *)
RestTypes ==
  /\ {cancelled, rate1, told, interrupt, canSeek} \subseteq BOOLEAN
  /\ calls \in 0 .. MaxCalls /\ reqs \in 0 .. MaxRequests

LEMMA RestKept ==
  ASSUME MFAssumption, RestTypes, [MFNext]_mvars
  PROVE  RestTypes'
<1>0. MaxCalls \in Nat /\ MaxRequests \in Nat
  BY DEF MFAssumption
<1>1. CASE UNCHANGED mvars
  BY <1>1 DEF mvars, api, load, RestTypes
<1>2. CASE Handler
  BY <1>2 DEF Handler, BeginCreateObject, CancelObjectCreation, EndLoad, Release, load, RestTypes
<1>3. CASE Pipeline
  <2>1. /\ UNCHANGED <<cancelled, told, interrupt, canSeek>> /\ rate1' \in {rate1, ~rate1}
        /\ calls' = calls \/ (calls < MaxCalls /\ calls' = calls + 1)
        /\ reqs' = reqs \/ (reqs < MaxRequests /\ reqs' = reqs + 1)
    <3> USE DEF Command, Call, Queue, load
    <3>1. ASSUME NEW pos \in SeekTo, Seek(pos) PROVE <2>1
      BY <3>1 DEF Seek
    <3>2. ASSUME NEW pos \in SeekTo, NEW desc \in Descs, Start(desc, pos) PROVE <2>1
      BY <3>2 DEF Start
    <3>3. ASSUME NEW desc \in Restarts, Restart(desc) PROVE <2>1
      BY <3>3 DEF Restart
    <3>4. CASE Stop \/ Pause \/ SetRate \/ Shutdown
      BY <3>4 DEF Stop, Pause, SetRate, Shutdown
    <3>5. ASSUME NEW s \in Streams, RequestSample(s) PROVE <2>1
      BY <3>5 DEF RequestSample
    <3> QED
      BY <1>3, <3>1, <3>2, <3>3, <3>4, <3>5 DEF Pipeline
  <2>2. {cancelled', rate1', told', interrupt', canSeek'} \subseteq BOOLEAN
    BY <2>1 DEF RestTypes
  <2>3. calls' \in 0 .. MaxCalls /\ reqs' \in 0 .. MaxRequests
    BY <1>0, <2>1 DEF RestTypes
  <2> QED
    BY <2>2, <2>3 DEF RestTypes
<1>4. CASE ReadDone \/ Worker
  <2>1. UNCHANGED <<cancelled, rate1, calls, reqs>>
    <3> USE DEF api
    <3>1. CASE ReadDone \/ Wake \/ Quits \/ CommandArrives \/ RequestArrives \/ CancelDone
               \/ OnAsyncRead \/ TurnEnds \/ TurnToCommand \/ TurnIdle
      BY <3>1 DEF ReadDone, Wake, Quits, CommandArrives, RequestArrives, CancelDone,
                  OnAsyncRead, TurnEnds, TurnToCommand, TurnIdle
    <3>2. CASE Load
      BY <3>2 DEF Load, ParseEbmlHeader, ParseSegmentHeaders, ParseCues, LoadCluster,
                  ParseCluster, InitStreams, LoadStep
    <3>3. CASE Serve
      BY <3>3 DEF Serve, ServeUnselected, ServeUnplaced, ServeEnded, ServeShort,
                  ServeNextCluster, ServeBytes, ServeSample, ServesBlock, Serves
    <3>4. CASE Play
      BY <3>4 DEF Play, BytesAreHere, LockCurr, GetSampleExtent, OnFront, CurrBlockInit,
                  CurrBlockFinal, NextInit, NextNotify, NextParse, PlayStep
    <3> QED
      BY <1>4, <3>1, <3>2, <3>3, <3>4 DEF Worker
  <2>2. told' \in {told, TRUE, told \/ TRUE, told \/ FALSE} /\ interrupt' \in {interrupt, TRUE, FALSE}
        /\ canSeek' \in {canSeek, TRUE, HasVideo /\ Cues = "front"}
    <3> USE DEF load, Dies
    <3>1. CASE ReadDone \/ Wake \/ Quits \/ CommandArrives \/ RequestArrives \/ CancelDone
               \/ OnAsyncRead \/ TurnEnds \/ TurnToCommand
      BY <3>1 DEF ReadDone, Wake, Quits, CommandArrives, RequestArrives, CancelDone,
                  OnAsyncRead, TurnEnds, TurnToCommand
    <3>2. CASE TurnIdle
      BY <3>2 DEF TurnIdle, ParseAhead
    <3>3. CASE Load
      BY <3>3 DEF Load, ParseEbmlHeader, ParseSegmentHeaders, ParseCues, LoadCluster,
                  ParseCluster, InitStreams, LoadStep
    <3>4. CASE Serve
      BY <3>4 DEF Serve, ServeUnselected, ServeUnplaced, ServeEnded, ServeShort,
                  ServeNextCluster, ServeBytes, ServeSample, ServesBlock, Serves
    <3>5. CASE Play
      BY <3>5 DEF Play, BytesAreHere, LockCurr, GetSampleExtent, OnFront, CurrBlockInit,
                  CurrBlockFinal, NextInit, NextNotify, NextParse, PlayStep
    <3> QED
      BY <1>4, <3>1, <3>2, <3>3, <3>4, <3>5 DEF Worker
  <2> QED
    BY <2>1, <2>2 DEF RestTypes
<1> QED
  BY <1>1, <1>2, <1>3, <1>4 DEF MFNext

LEMMA InvTypes ==
  ASSUME MFAssumption, MFInv, RestTypes
  PROVE  MFTypeOK /\ OneRead /\ HeldOnlyWhenPaused /\ LockedIsCurrent /\ SelectedIsPlaced
         /\ EndOfPresentation
<1>1. ControlInv /\ QueueInv /\ StreamsInv /\ ParsedInv /\ PlacesParsed /\ FrontInv
  BY DEF MFInv, Consistent
<1>2. MFTypeOK
  BY <1>1 DEF MFTypeOK, RestTypes, ControlInv, ControlTypes, QueueInv, StreamsInv, ParsedInv,
              CommandSet
<1>3. LockedIsCurrent
  BY <1>1 DEF LockedIsCurrent, StreamsInv, StreamOK
<1>4. SelectedIsPlaced
  BY <1>1 DEF SelectedIsPlaced, FrontInv, StreamsInv, Placed, Selected
<1> QED
  BY <1>1, <1>2, <1>3, <1>4 DEF ControlInv, StreamsInv

LEMMA DeathKept ==
  ASSUME MFInv, DeathIsTold, [MFNext]_mvars, "block" \notin FailIn
  PROVE  DeathIsTold'
<1>1. ControlInv
  BY DEF MFInv
<1>2. CASE UNCHANGED mvars
  BY <1>2 DEF mvars, api, DeathIsTold
<1>3. CASE Handler
  BY <1>1, <1>3 DEF Handler, BeginCreateObject, CancelObjectCreation, EndLoad, Release,
                    ShutdownSource, DeathIsTold, ControlInv
<1>4. CASE Pipeline
  <2>1. UNCHANGED <<at, creation, told>> /\ (shutdown => shutdown')
    <3> USE DEF Command, Call, Queue
    <3>1. ASSUME NEW pos \in SeekTo, Seek(pos) PROVE <2>1
      BY <3>1 DEF Seek
    <3>2. ASSUME NEW pos \in SeekTo, NEW desc \in Descs, Start(desc, pos) PROVE <2>1
      BY <3>2 DEF Start
    <3>3. ASSUME NEW desc \in Restarts, Restart(desc) PROVE <2>1
      BY <3>3 DEF Restart
    <3>4. CASE Stop \/ Pause \/ SetRate \/ Shutdown
      BY <3>4 DEF Stop, Pause, SetRate, Shutdown, ShutdownSource
    <3>5. ASSUME NEW s \in Streams, RequestSample(s) PROVE <2>1
      BY <3>5 DEF RequestSample
    <3> QED
      BY <1>4, <3>1, <3>2, <3>3, <3>4, <3>5 DEF Pipeline
  <2> QED
    BY <2>1 DEF DeathIsTold
<1>5. CASE ReadDone \/ Wake \/ Quits \/ CommandArrives \/ RequestArrives \/ CancelDone
           \/ OnAsyncRead \/ TurnEnds \/ TurnToCommand
  BY <1>1, <1>5 DEF ReadDone, Wake, Quits, CommandArrives, RequestArrives, CancelDone,
       OnAsyncRead, TurnEnds, TurnToCommand, Go, Back, Dies, api, DeathIsTold, ControlInv
<1>6. CASE Load
  <2>1. \/ creation' = creation /\ at' \in {"read", "request"}
        \/ creation' \in {"loaded", "bad"}
    BY <1>6 DEF Load, ParseEbmlHeader, ParseSegmentHeaders, ParseCues, LoadCluster,
         ParseCluster, InitStreams, LoadComplete, LoadFails, LoadStalls, Loads, Pending,
         Again, Loop, Back, Go
  <2> QED
    BY <2>1 DEF DeathIsTold
<1>7. CASE TurnIdle
  BY <1>7 DEF TurnIdle, ParseAhead, Dies, Go, Pending, DeathIsTold
<1>8. CASE Serve
  BY <1>8 DEF Serve, ServeUnselected, ServeUnplaced, ServeEnded, ServeShort,
       ServeNextCluster, ServeBytes, ServeSample, Answered, Again, Loop, Pending, Dies, Go,
       DeathIsTold
<1>9. CASE Play
  BY <1>9 DEF Play, BytesAreHere, LockCurr, GetSampleExtent, OnFront, CurrBlockInit,
       CurrBlockFinal, GetCurrBlockObject, SetCurrBlockObject, NextInit, NextNotify,
       NextParse, Back, Again, Loop, Pending, Dies, Go, DeathIsTold
<1> QED
  BY <1>2, <1>3, <1>4, <1>5, <1>6, <1>7, <1>8, <1>9 DEF MFNext, Worker

-----------------------------------------------------------------------------
(* Whatever fails, and for every file, selection and number of calls: the  *)
(* types, one read at a time, samples held back only while paused, locked  *)
(* only the current block, selected streams placed, the end told in time.  *)
THEOREM StreamsAgree ==
  MFSpec => [](MFTypeOK /\ OneRead /\ HeldOnlyWhenPaused /\ LockedIsCurrent
               /\ SelectedIsPlaced /\ EndOfPresentation)
<1>1. MFInit => MFInv /\ RestTypes
  <2>1. ASSUME MFInit PROVE RestTypes
    <3>1. {cancelled, rate1, told, interrupt, canSeek} \subseteq BOOLEAN
      BY <2>1 DEF MFInit
    <3>2. calls \in 0 .. MaxCalls /\ reqs \in 0 .. MaxRequests
      BY <2>1, MFAssumption DEF MFInit, MFAssumption
    <3> QED
      BY <3>1, <3>2 DEF RestTypes
  <2> QED
    BY <2>1, InitHolds, MFAssumption
<1>2. MFInv /\ RestTypes /\ [MFNext]_mvars => (MFInv /\ RestTypes)'
  BY NextKeeps, IdleKeeps, RestKept, MFAssumption
<1>3. MFInv /\ RestTypes =>
        MFTypeOK /\ OneRead /\ HeldOnlyWhenPaused /\ LockedIsCurrent /\ SelectedIsPlaced
        /\ EndOfPresentation
  BY InvTypes, MFAssumption
<1> QED
  BY <1>1, <1>2, <1>3, PTL DEF MFSpec

(* And when only what is told to the pipeline can fail, a worker thread    *)
(* that gives up on a source in use has told it.                           *)
THEOREM StreamsAlwaysConsistent ==
  "block" \notin FailIn => (MFSpec => []StreamsConsistent)
<1> SUFFICES ASSUME "block" \notin FailIn PROVE MFSpec => []StreamsConsistent
  OBVIOUS
<1>1. MFInit => MFInv /\ DeathIsTold
  BY InitHolds, MFAssumption DEF MFInit, DeathIsTold
<1>2. MFInv /\ DeathIsTold /\ [MFNext]_mvars => (MFInv /\ DeathIsTold)'
  BY NextKeeps, IdleKeeps, DeathKept, MFAssumption
<1>3. MFSpec => []DeathIsTold
  BY <1>1, <1>2, PTL DEF MFSpec
<1>4. MFTypeOK /\ OneRead /\ HeldOnlyWhenPaused /\ LockedIsCurrent /\ SelectedIsPlaced
      /\ EndOfPresentation /\ DeathIsTold => StreamsConsistent
  BY DEF StreamsConsistent
<1> QED
  BY <1>3, <1>4, StreamsAgree, PTL

-----------------------------------------------------------------------------
(***************************************************************************)
(* No block is lost, repeated or out of order.                             *)
(*                                                                         *)
(* Precedes is the order of the blocks in the file; the search of a stream *)
(* for its next block has got to a place p when it has gathered its blocks *)
(* from the current one up to p.                                           *)
(***************************************************************************)
Precedes(b, d) == b[1] < d[1] \/ (b[1] = d[1] /\ b[2] < d[2])
EndOfFile == <<Len(File) + 1, 1>>

Gathered(s, from, p, g) ==
  /\ g \in Seq(Own(s)) /\ g # <<>>
  /\ \A b \in Own(s) :
       (\E k \in 1 .. Len(g) : g[k] = b) <=> ~Precedes(b, from) /\ Precedes(b, p)
  /\ \A k, l \in 1 .. Len(g) : k < l => Precedes(g[k], g[l])

(* The clusters before the next one are those before, and this one.        *)
LEMMA BeforeIn ==
  ASSUME NEW c, NEW e
  PROVE  e \in Before(c) <=> \E d \in 1 .. c - 1 : e \in {d} \X (1 .. Size(d))
BY DEF Before

LEMMA BeforeNext ==
  ASSUME NEW c \in Nat \ {0}
  PROVE  /\ Before(c + 1) = Before(c) \cup ({c} \X (1 .. Size(c)))
         /\ Before(c) \cap ({c} \X (1 .. Size(c))) = {}
<1>1. ASSUME NEW e
      PROVE  e \in Before(c + 1) <=> e \in Before(c) \/ e \in {c} \X (1 .. Size(c))
  <2>1. \A d : d \in 1 .. (c + 1) - 1 <=> d \in 1 .. c - 1 \/ d = c
    OBVIOUS
  <2>2. e \in Before(c + 1) <=> \E d \in 1 .. (c + 1) - 1 : e \in {d} \X (1 .. Size(d))
    BY BeforeIn
  <2>3. e \in Before(c) <=> \E d \in 1 .. c - 1 : e \in {d} \X (1 .. Size(d))
    BY BeforeIn
  <2> QED
    BY <2>1, <2>2, <2>3
<1>2. ASSUME NEW e \in Before(c) PROVE e \notin {c} \X (1 .. Size(c))
  <2>1. PICK d \in 1 .. c - 1 : e \in {d} \X (1 .. Size(d))
    BY BeforeIn
  <2>2. e[1] = d /\ d # c
    BY <2>1
  <2>3. e \in {c} \X (1 .. Size(c)) => e[1] = c
    OBVIOUS
  <2> QED
    BY <2>2, <2>3
<1> QED
  BY <1>1, <1>2

LEMMA BeforeFinite ==
  ASSUME MFAssumption, NEW c \in Clusters
  PROVE  IsFiniteSet(Before(c)) /\ Cardinality(Before(c)) \in Nat
<1> DEFINE bad == {d \in 1 .. Len(File) : ~IsFiniteSet(Before(d))}
<1>1. Len(File) \in Nat /\ Clusters = 1 .. Len(File) /\ \A d \in Clusters : Size(d) \in Nat
  BY FileTypes
<1>2. CASE bad # {}
  <2>1. bad \subseteq Nat
    BY <1>1
  <2>2. Least(bad) \in bad /\ \A d \in bad : Least(bad) <= d
    BY <1>2, <2>1, LeastIn
  <2> DEFINE m == Least(bad)
  <2>3. m \in 1 .. Len(File) /\ ~IsFiniteSet(Before(m)) /\ \A d \in bad : m <= d
    BY <2>2
  <2> HIDE DEF m
  <2>4. CASE m = 1
    <3>1. \A e : e \notin Before(1)
      BY BeforeIn
    <3>2. Before(1) = {}
      BY <3>1
    <3> QED
      BY <2>3, <2>4, <3>2, FS_EmptySet
  <2>5. CASE m # 1
    <3> DEFINE k == m - 1
    <3>1. k \in 1 .. Len(File) /\ k \in Nat \ {0} /\ k + 1 = m /\ ~(m <= k)
      BY <1>1, <2>3, <2>5
    <3> HIDE DEF k
    <3>2. IsFiniteSet(Before(k))
      BY <2>3, <3>1
    <3> DEFINE here == {k} \X (1 .. Size(k))
    <3>3. IsFiniteSet({k}) /\ IsFiniteSet(1 .. Size(k))
      <4>1. 1 \in Int /\ Size(k) \in Int
        BY <1>1, <3>1
      <4>2. IsFiniteSet(1 .. Size(k))
        BY <4>1, FS_Interval
      <4>3. IsFiniteSet({k})
        BY FS_Singleton
      <4> QED
        BY <4>2, <4>3
    <3>4. IsFiniteSet(here)
      BY <3>3, FS_Product
    <3>5. Before(m) = Before(k) \cup here
      BY <3>1, BeforeNext
    <3> HIDE DEF here
    <3>6. IsFiniteSet(Before(k) \cup here)
      BY <3>2, <3>4, FS_Union
    <3>7. IsFiniteSet(Before(m))
      BY <3>5, <3>6
    <3> QED
      BY <2>3, <3>7
  <2> QED
    BY <2>4, <2>5
<1>3. IsFiniteSet(Before(c))
  BY <1>1, <1>2
<1> QED
  BY <1>3, FS_CardinalityType

LEMMA BeforeGrows ==
  ASSUME MFAssumption, NEW c \in Clusters, NEW d \in Clusters, c < d
  PROVE  Cardinality(Before(c)) + Size(c) <= Cardinality(Before(d))
<1>1. c \in Nat \ {0} /\ d \in Nat /\ Size(c) \in Nat
  BY FileTypes
<1> DEFINE here == {c} \X (1 .. Size(c))
<1>2. IsFiniteSet(here) /\ Cardinality(here) = Size(c)
  <2>1. IsFiniteSet({c}) /\ Cardinality({c}) = 1
    BY FS_Singleton
  <2>2. IsFiniteSet(1 .. Size(c)) /\ Cardinality(1 .. Size(c)) = Size(c)
    BY <1>1, FS_Interval
  <2>3. IsFiniteSet(here) /\ Cardinality(here) = Cardinality({c}) * Cardinality(1 .. Size(c))
    BY <2>1, <2>2, FS_Product
  <2>4. 1 * Size(c) = Size(c)
    BY <1>1
  <2>5. Cardinality(here) = 1 * Size(c)
    BY <2>1, <2>2, <2>3
  <2> QED
    BY <2>3, <2>4, <2>5
<1>3. IsFiniteSet(Before(c)) /\ Cardinality(Before(c)) \in Nat
      /\ IsFiniteSet(Before(d)) /\ Cardinality(Before(d)) \in Nat
  BY BeforeFinite
<1>4. Before(c + 1) = Before(c) \cup here /\ Before(c) \cap here = {}
  BY <1>1, BeforeNext
<1>5. Before(c + 1) \subseteq Before(d)
  <2>1. ASSUME NEW e \in Before(c + 1) PROVE e \in Before(d)
    <3>1. PICK x \in 1 .. (c + 1) - 1 : e \in {x} \X (1 .. Size(x))
      BY BeforeIn
    <3>2. x \in 1 .. d - 1
      BY <1>1
    <3> QED
      BY <3>1, <3>2, BeforeIn
  <2> QED
    BY <2>1
<1> HIDE DEF here
<1>6. Cardinality(Before(c + 1)) = Cardinality(Before(c)) + Size(c)
  <2>1. Cardinality(Before(c) \cap here) = 0
    BY <1>4, FS_EmptySet
  <2>2. Cardinality(Before(c) \cup here)
          = Cardinality(Before(c)) + Cardinality(here) - Cardinality(Before(c) \cap here)
    BY <1>2, <1>3, FS_Union
  <2>3. Cardinality(Before(c) \cup here) = Cardinality(Before(c)) + Cardinality(here)
    BY <1>1, <1>2, <1>3, <2>1, <2>2
  <2> QED
    BY <1>2, <1>4, <2>3
<1>7. Cardinality(Before(c + 1)) <= Cardinality(Before(d))
  BY <1>3, <1>5, FS_Subset
<1> QED
  BY <1>6, <1>7

(* TimeOf follows the order of the file, also for the place before the     *)
(* first block of a cluster.                                               *)
LEMMA TimeOrder ==
  ASSUME MFAssumption, NEW b, b[1] \in Clusters, b[2] \in 0 .. Size(b[1]), NEW d \in Blocks
  PROVE  /\ TimeOf(b) \in Nat /\ TimeOf(d) \in Nat
         /\ TimeOf(b) < TimeOf(d) <=> Precedes(b, d)
<1>1. /\ d[1] \in Clusters /\ d[2] \in 1 .. Size(d[1])
      /\ Size(b[1]) \in Nat /\ Size(d[1]) \in Nat /\ b[1] \in Nat /\ d[1] \in Nat
      /\ b[2] \in Nat /\ d[2] \in Nat
  BY BlockTypes, FileTypes
<1>2. Cardinality(Before(b[1])) \in Nat /\ Cardinality(Before(d[1])) \in Nat
  BY <1>1, BeforeFinite
<1>3. TimeOf(b) = Cardinality(Before(b[1])) + b[2] /\ TimeOf(d) = Cardinality(Before(d[1])) + d[2]
  BY DEF TimeOf
<1>4. b[1] < d[1] => Cardinality(Before(b[1])) + Size(b[1]) <= Cardinality(Before(d[1]))
  BY <1>1, BeforeGrows
<1>5. d[1] < b[1] => Cardinality(Before(d[1])) + Size(d[1]) <= Cardinality(Before(b[1]))
  BY <1>1, BeforeGrows
<1>6. CASE b[1] = d[1]
  BY <1>1, <1>2, <1>3, <1>6 DEF Precedes
<1>7. CASE b[1] < d[1]
  BY <1>1, <1>2, <1>3, <1>4, <1>7 DEF Precedes
<1>8. CASE d[1] < b[1]
  BY ONLY <1>1, <1>2, <1>3, <1>5, <1>8 DEF Precedes
<1> QED
  BY <1>1, <1>6, <1>7, <1>8

-----------------------------------------------------------------------------
LEMMA OwnTypes ==
  ASSUME MFAssumption, NEW s, NEW b \in Own(s)
  PROVE  /\ b[1] \in Clusters /\ b[1] \in Nat /\ b[2] \in Nat /\ b[2] >= 1 /\ b[2] <= Size(b[1])
         /\ Size(b[1]) \in Nat /\ b = <<b[1], b[2]>> /\ b \in Blocks /\ IsBlock(b)
         /\ b # NoBlock /\ b # EndBlock /\ b[1] <= Len(File) /\ Len(File) \in Nat
<1>1. b \in Blocks
  BY DEF Own
<1> QED
  BY <1>1, BlockTypes, FileTypes

(* A search begins at the current block.                                   *)
LEMMA GatherStart ==
  ASSUME MFAssumption, NEW s, NEW b \in Own(s)
  PROVE  Gathered(s, b, <<b[1], b[2] + 1>>, <<b>>)
<1>1. b[1] \in Nat /\ b[2] \in Nat /\ b = <<b[1], b[2]>>
  BY OwnTypes
<1>2. <<b>> \in Seq(Own(s)) /\ <<b>> # <<>> /\ Len(<<b>>) = 1 /\ <<b>>[1] = b
  OBVIOUS
<1>3. ASSUME NEW d \in Own(s)
      PROVE  d = b <=> ~Precedes(d, b) /\ Precedes(d, <<b[1], b[2] + 1>>)
  <2>1. d[1] \in Nat /\ d[2] \in Nat /\ d = <<d[1], d[2]>>
    BY OwnTypes
  <2>2. d = b <=> d[1] = b[1] /\ d[2] = b[2]
    BY <1>1, <2>1
  <2>3. d[1] = b[1] /\ d[2] = b[2] <=> ~Precedes(d, b) /\ Precedes(d, <<b[1], b[2] + 1>>)
    BY <1>1, <2>1 DEF Precedes
  <2> QED
    BY <2>2, <2>3
<1>4. \A d \in Own(s) : (\E k \in 1 .. Len(<<b>>) : <<b>>[k] = d) <=> d = b
  BY <1>2
<1>5. \A k, l \in 1 .. Len(<<b>>) : k < l => Precedes(<<b>>[k], <<b>>[l])
  BY <1>2
<1> QED
  BY <1>2, <1>3, <1>4, <1>5 DEF Gathered

(* It goes on in a cluster.                                                *)
LEMMA GatherMore ==
  ASSUME MFAssumption, NEW s, NEW from, from[1] \in Nat, from[2] \in Nat,
         NEW c \in Clusters, NEW i \in Nat \ {0}, NEW n \in Int, i - 1 <= n, n <= Size(c),
         from[1] < c \/ (from[1] = c /\ from[2] < i),
         NEW g, Gathered(s, from, <<c, i>>, g), NEW h, h = g \o BlocksOf(s, c, i, n)
  PROVE  Gathered(s, from, <<c, n + 1>>, h)
<1> DEFINE q == BlocksOf(s, c, i, n)
<1>0. c \in Nat
  BY FileTypes
<1>2. h = g \o q /\ q = BlocksOf(s, c, i, n)
  OBVIOUS
<1> HIDE DEF q
<1>1. /\ q \in Seq(Own(s))
      /\ \A k \in 1 .. Len(q) : q[k][1] = c /\ i <= q[k][2] /\ q[k][2] <= n
      /\ \A k, l \in 1 .. Len(q) : k < l => q[k][2] < q[l][2]
      /\ \A d \in Own(s) : d[1] = c /\ i <= d[2] /\ d[2] <= n => \E k \in 1 .. Len(q) : q[k] = d
  <2>1. Listed(s, c, i, n, q)
    BY <1>2, BlocksListed
  <2> QED
    BY <2>1 DEF Listed
<1>3. /\ g \in Seq(Own(s)) /\ g # <<>>
      /\ \A b \in Own(s) :
           (\E k \in 1 .. Len(g) : g[k] = b) <=> ~Precedes(b, from) /\ Precedes(b, <<c, i>>)
      /\ \A k, l \in 1 .. Len(g) : k < l => Precedes(g[k], g[l])
  BY DEF Gathered
<1>4. /\ h \in Seq(Own(s)) /\ h # <<>> /\ Len(h) = Len(g) + Len(q) /\ Len(g) \in Nat /\ Len(q) \in Nat
      /\ \A k \in 1 .. Len(h) : h[k] = IF k <= Len(g) THEN g[k] ELSE q[k - Len(g)]
  BY <1>1, <1>2, <1>3
<1>5. ASSUME NEW b \in Own(s)
      PROVE  (\E k \in 1 .. Len(h) : h[k] = b) <=> ~Precedes(b, from) /\ Precedes(b, <<c, n + 1>>)
  <2>1. b[1] \in Nat /\ b[2] \in Nat
    BY OwnTypes
  <2>2. (\E k \in 1 .. Len(h) : h[k] = b)
          <=> (\E k \in 1 .. Len(g) : g[k] = b) \/ (\E k \in 1 .. Len(q) : q[k] = b)
    <3>1. ASSUME NEW k \in 1 .. Len(h), h[k] = b
          PROVE  (\E l \in 1 .. Len(g) : g[l] = b) \/ (\E l \in 1 .. Len(q) : q[l] = b)
      <4>1. CASE k <= Len(g)
        BY <1>4, <3>1, <4>1
      <4>2. CASE ~(k <= Len(g))
        <5>1. k - Len(g) \in 1 .. Len(q) /\ q[k - Len(g)] = b
          BY <1>4, <3>1, <4>2
        <5> QED
          BY <5>1
      <4> QED
        BY <4>1, <4>2
    <3>2. ASSUME NEW k \in 1 .. Len(g), g[k] = b PROVE \E l \in 1 .. Len(h) : h[l] = b
      BY <1>4, <3>2
    <3>3. ASSUME NEW k \in 1 .. Len(q), q[k] = b PROVE \E l \in 1 .. Len(h) : h[l] = b
      <4>1. k + Len(g) \in 1 .. Len(h) /\ ~(k + Len(g) <= Len(g)) /\ (k + Len(g)) - Len(g) = k
        BY <1>4
      <4>2. h[k + Len(g)] = b
        BY <1>4, <3>3, <4>1
      <4> QED
        BY <4>1, <4>2
    <3> QED
      BY <3>1, <3>2, <3>3
  <2>3. (\E k \in 1 .. Len(q) : q[k] = b) <=> b[1] = c /\ i <= b[2] /\ b[2] <= n
    BY <1>1
  <2>4. (\E k \in 1 .. Len(g) : g[k] = b) <=> ~Precedes(b, from) /\ Precedes(b, <<c, i>>)
    BY <1>3
  <2>5. (~Precedes(b, from) /\ Precedes(b, <<c, i>>)) \/ (b[1] = c /\ i <= b[2] /\ b[2] <= n)
          <=> ~Precedes(b, from) /\ Precedes(b, <<c, n + 1>>)
    BY <1>0, <2>1 DEF Precedes
  <2> QED
    BY <2>2, <2>3, <2>4, <2>5
<1>6. ASSUME NEW k \in 1 .. Len(h), NEW l \in 1 .. Len(h), k < l PROVE Precedes(h[k], h[l])
  <2>1. CASE l <= Len(g)
    <3>1. k \in 1 .. Len(g) /\ l \in 1 .. Len(g) /\ h[k] = g[k] /\ h[l] = g[l]
      BY <1>4, <1>6, <2>1
    <3> QED
      BY <1>3, <1>6, <3>1
  <2>2. CASE ~(l <= Len(g))
    <3>1. l - Len(g) \in 1 .. Len(q) /\ h[l] = q[l - Len(g)]
      BY <1>4, <2>2
    <3>2. h[l] \in Own(s) /\ h[l][1] = c /\ i <= h[l][2]
      BY <1>1, <1>4, <3>1
    <3>3. h[l][2] \in Nat
      BY <3>2, OwnTypes
    <3>4. CASE k <= Len(g)
      <4>1. k \in 1 .. Len(g) /\ h[k] = g[k] /\ g[k] \in Own(s)
        BY <1>3, <1>4, <3>4
      <4>2. Precedes(h[k], <<c, i>>)
        BY <1>3, <4>1
      <4>3. h[k][1] \in Nat /\ h[k][2] \in Nat
        BY <4>1, OwnTypes
      <4>4. <<c, i>>[1] = c /\ <<c, i>>[2] = i
        OBVIOUS
      <4>5. h[k][1] < c \/ (h[k][1] = c /\ h[k][2] < i)
        BY <4>2, <4>4 DEF Precedes
      <4>6. i \in Nat /\ i <= h[l][2] /\ h[l][1] = c
        BY <1>0, <3>2
      <4>7. h[k][1] < h[l][1] \/ (h[k][1] = h[l][1] /\ h[k][2] < h[l][2])
        BY ONLY <3>3, <4>3, <4>5, <4>6
      <4> QED
        BY <4>7 DEF Precedes
    <3>5. CASE ~(k <= Len(g))
      <4>1. k - Len(g) \in 1 .. Len(q) /\ h[k] = q[k - Len(g)] /\ k - Len(g) < l - Len(g)
        BY ONLY <1>4, <1>6, <3>5
      <4>2. h[k][1] = c /\ h[k][2] < h[l][2]
        BY <1>1, <3>1, <4>1
      <4> QED
        BY <3>2, <4>2 DEF Precedes
    <3> QED
      BY <3>4, <3>5
  <2> QED
    BY <2>1, <2>2
<1> QED
  BY <1>4, <1>5, <1>6 DEF Gathered

(* It goes on from the end of a cluster to the next one.                   *)
LEMMA GatherCross ==
  ASSUME MFAssumption, NEW s, NEW from, NEW c \in Clusters, NEW g,
         Gathered(s, from, <<c, Size(c) + 1>>, g)
  PROVE  Gathered(s, from, <<c + 1, 1>>, g)
<1>1. ASSUME NEW b \in Own(s) PROVE Precedes(b, <<c, Size(c) + 1>>) <=> Precedes(b, <<c + 1, 1>>)
  <2>1. /\ b[1] \in Nat /\ b[2] \in Nat /\ b[2] >= 1 /\ b[2] <= Size(b[1])
        /\ c \in Nat /\ Size(c) \in Nat /\ Size(b[1]) \in Nat
    BY OwnTypes, FileTypes
  <2>2. CASE b[1] = c
    <3>1. b[2] <= Size(c)
      BY <2>1, <2>2
    <3> QED
      BY <2>1, <2>2, <3>1 DEF Precedes
  <2>3. CASE b[1] # c
    BY <2>1, <2>3 DEF Precedes
  <2> QED
    BY <2>2, <2>3
<1> QED
  BY <1>1 DEF Gathered

(* The last of the blocks gathered is next to the place reached.           *)
LEMMA GatherLast ==
  ASSUME MFAssumption, NEW s, NEW from, NEW p, from[1] \in Nat, from[2] \in Nat, p[1] \in Nat,
         p[2] \in Nat, NEW g, Gathered(s, from, p, g)
  PROVE  /\ Last(g) \in Own(s)
         /\ \A b \in Own(s) : Precedes(Last(g), b) <=> ~Precedes(b, p)
<1>1. /\ g \in Seq(Own(s)) /\ g # <<>>
      /\ \A b \in Own(s) :
           (\E k \in 1 .. Len(g) : g[k] = b) <=> ~Precedes(b, from) /\ Precedes(b, p)
      /\ \A k, l \in 1 .. Len(g) : k < l => Precedes(g[k], g[l])
  BY DEF Gathered
<1>2. Len(g) \in 1 .. Len(g) /\ Last(g) = g[Len(g)] /\ Len(g) \in Nat
  BY <1>1, EmptySeq DEF Last
<1> DEFINE m == Last(g)
<1>3. m \in Own(s) /\ ~Precedes(m, from) /\ Precedes(m, p)
  BY <1>1, <1>2
<1>4. \A k \in 1 .. Len(g) : g[k] = m \/ Precedes(g[k], m)
  <2> SUFFICES ASSUME NEW k \in 1 .. Len(g) PROVE g[k] = m \/ Precedes(g[k], m)
    OBVIOUS
  <2>1. k = Len(g) \/ k < Len(g)
    BY <1>2
  <2> QED
    BY <1>1, <1>2, <2>1
<1> HIDE DEF m
<1>5. m[1] \in Nat /\ m[2] \in Nat
  BY <1>3, OwnTypes
<1>6. ASSUME NEW b \in Own(s) PROVE Precedes(m, b) <=> ~Precedes(b, p)
  <2>1. b[1] \in Nat /\ b[2] \in Nat
    BY OwnTypes
  <2>2. ASSUME Precedes(m, b), Precedes(b, p) PROVE FALSE
    <3>1. ~Precedes(b, from)
      BY <1>3, <1>5, <2>1, <2>2 DEF Precedes
    <3>2. PICK k \in 1 .. Len(g) : g[k] = b
      BY <1>1, <2>2, <3>1
    <3>3. b = m \/ Precedes(b, m)
      BY <1>4, <3>2
    <3> QED
      BY ONLY <1>5, <2>1, <2>2, <3>3 DEF Precedes
  <2>3. ASSUME ~Precedes(b, p) PROVE Precedes(m, b)
    BY <1>3, <1>5, <2>1, <2>3 DEF Precedes
  <2> QED
    BY <2>2, <2>3
<1> QED
  BY <1>3, <1>6 DEF m

(***************************************************************************)
(* SearchInv: where each selected stream stands, and how far the search    *)
(* for its next block has got.  Crossing: the search goes from a cluster   *)
(* to the next one, by reads on behalf of the request in front.            *)
(***************************************************************************)
EndAt(b) == IF b = EndBlock THEN EndOfFile ELSE b

Crossing(s) == at = "read" /\ astate \in NextStates /\ s = Head(requests)

(* The last sample ends, or the position sought begins, at the current     *)
(* block.                                                                  *)
Continues(s, t) ==
  /\ t.got # <<>> => /\ Last(t.got) \in Own(s)
                     /\ \A b \in Own(s) : Precedes(Last(t.got), b) <=> ~Precedes(b, t.curr)
  /\ t.got = <<>> /\ t.cpos # 0 =>
       t.curr[1] = t.cpos /\ \A b \in Own(s) : b[1] = t.cpos => ~Precedes(b, t.curr)
  /\ t.got = <<>> /\ t.cpos = 0 => t.curr = first[s]

Stands(s, t) ==
  /\ t.nidx = 0 => t.next = NoBlock
  /\ t.curr = NoBlock => t.got = <<>>
  /\ IF IsBlock(t.curr) THEN Continues(s, t) ELSE t.nidx = 0
  /\ t.next # NoBlock => Gathered(s, t.curr, EndAt(t.next), t.group)

InCluster(s, t) ==
  t.nidx # 0 /\ t.next = NoBlock =>
    /\ t.curr[2] < t.nidx /\ t.nidx <= parsed[t.curr[1]] + 1
    /\ Gathered(s, t.curr, <<t.curr[1], t.nidx>>, t.group)

Crossed(s, t) ==
  /\ t.curr[1] <= pCurr
  /\ astate = "nextInit" => Gathered(s, t.curr, <<pCurr + 1, 1>>, t.group)
  /\ astate # "nextInit" =>
       Gathered(s, t.curr, IF pNext = 0 THEN EndOfFile ELSE <<pNext, t.nidx>>, t.group)

Sought(s) ==
  /\ Stands(s, str[s])
  /\ IF Crossing(s) THEN Crossed(s, str[s]) ELSE InCluster(s, str[s])

Alive == at \in {"read", "cancel", "request"} /\ ~shutdown

SearchInv == Alive => \A s \in Streams : str[s].sel = 1 => Sought(s)

(* Two records of a stream whose searches have got to the same place.      *)
SameSearch(t, u) ==
  /\ u.curr = t.curr /\ u.cpos = t.cpos /\ u.next = t.next /\ u.nidx = t.nidx
  /\ u.group = t.group /\ u.got = t.got

LEMMA SoughtKept ==
  ASSUME MFAssumption, MFInv, MFInv', NEW s \in Streams, Sought(s), first' = first,
         SameSearch(str[s], str'[s]), Grows, Crossing(s)' <=> Crossing(s),
         Crossing(s) => UNCHANGED <<astate, pCurr, pNext>>
  PROVE  Sought(s)'
<1>1. Stands(s, str[s])'
  BY DEF Sought, Stands, Continues, SameSearch
<1>2. CASE Crossing(s)
  <2>1. Crossed(s, str[s]) /\ Crossing(s)' /\ UNCHANGED <<astate, pCurr, pNext>>
    BY <1>2 DEF Sought
  <2>2. Crossed(s, str[s])'
    BY <2>1 DEF Crossed, SameSearch
  <2> QED
    BY <1>1, <2>1, <2>2 DEF Sought
<1>3. CASE ~Crossing(s)
  <2>1. InCluster(s, str[s]) /\ ~Crossing(s)'
    BY <1>3 DEF Sought
  <2>2. InCluster(s, str[s])'
    <3> SUFFICES ASSUME str'[s].nidx # 0, str'[s].next = NoBlock
                 PROVE  /\ str'[s].curr[2] < str'[s].nidx
                        /\ str'[s].nidx <= parsed'[str'[s].curr[1]] + 1
                        /\ Gathered(s, str'[s].curr, <<str'[s].curr[1], str'[s].nidx>>, str'[s].group)
      BY DEF InCluster
    <3>1. /\ str[s].curr[2] < str[s].nidx /\ str[s].nidx <= parsed[str[s].curr[1]] + 1
          /\ Gathered(s, str[s].curr, <<str[s].curr[1], str[s].nidx>>, str[s].group)
      BY <2>1 DEF InCluster, SameSearch
    <3>2. IsBlock(str[s].curr)
      BY DEF Sought, Stands, SameSearch
    <3>3. str[s].curr[1] \in Clusters /\ str[s].nidx \in Nat
      BY <3>2, Serving DEF MFInv, Consistent, StreamOK, StreamState
    <3>4. parsed[str[s].curr[1]] \in Int /\ parsed'[str[s].curr[1]] \in Int
          /\ parsed[str[s].curr[1]] <= parsed'[str[s].curr[1]]
      BY <3>3 DEF MFInv, Consistent, ParsedInv, Grows
    <3>5. str[s].nidx <= parsed'[str[s].curr[1]] + 1
      BY <3>1, <3>3, <3>4
    <3> QED
      BY <3>1, <3>5 DEF SameSearch
  <2> QED
    BY <1>1, <2>1, <2>2 DEF Sought
<1> QED
  BY <1>2, <1>3

(* A step that leaves every search where it is.                            *)
LEMMA SearchKept ==
  ASSUME MFAssumption, MFInv, MFInv', SearchInv, first' = first, Grows,
         \A s \in Streams : str'[s].sel = 1 => str[s].sel = 1 /\ SameSearch(str[s], str'[s]),
         Alive' => Alive /\ \A s \in Streams :
                              /\ Crossing(s)' <=> Crossing(s)
                              /\ Crossing(s) => UNCHANGED <<astate, pCurr, pNext>>
  PROVE  SearchInv'
<1> SUFFICES ASSUME Alive', NEW s \in Streams, str'[s].sel = 1 PROVE Sought(s)'
  BY DEF SearchInv
<1>1. Sought(s) /\ SameSearch(str[s], str'[s])
  BY DEF SearchInv
<1> QED
  BY <1>1, SoughtKept

(* A step on behalf of the request in front, that works on its stream.     *)
LEMMA SearchStep ==
  ASSUME MFAssumption, MFInv, MFInv', SearchInv, first' = first, Grows, Alive,
         NEW s \in Streams, s = Head(requests), at' = "read" => requests' = requests,
         \A x \in Streams : x # s => str'[x] = str[x],
         Alive' /\ str'[s].sel = 1 => Sought(s)'
  PROVE  SearchInv'
<1> SUFFICES ASSUME Alive', NEW x \in Streams, str'[x].sel = 1 PROVE Sought(x)'
  BY DEF SearchInv
<1>1. CASE x = s
  BY <1>1
<1>2. CASE x # s
  <2>1. Sought(x) /\ SameSearch(str[x], str'[x])
    BY <1>2 DEF SearchInv, SameSearch
  <2>2. ~Crossing(x) /\ ~Crossing(x)'
    BY <1>2 DEF Crossing
  <2> QED
    BY <2>1, <2>2, SoughtKept
<1> QED
  BY <1>1, <1>2

LEMMA SameParsed ==
  ASSUME MFInv, parsed' = parsed
  PROVE  Grows
BY DEF MFInv, Consistent, ParsedInv, Grows

-----------------------------------------------------------------------------
(* A scan goes on from the place the search has reached.                   *)
LEMMA SearchedOn ==
  ASSUME MFAssumption, NEW s, NEW t, StreamOK(s, t), IsBlock(t.curr), t.nidx # 0,
         NEW c \in Clusters, t.curr[1] < c \/ (t.curr[1] = c /\ t.curr[2] < t.nidx),
         NEW n \in Int, t.nidx <= n + 1, n <= Size(c),
         Gathered(s, t.curr, <<c, t.nidx>>, t.group), NEW u
  PROVE  /\ NotFound(s, t, c, n, u) => Gathered(s, t.curr, <<c, n + 1>>, u.group)
         /\ \A i \in t.nidx .. n : FoundAt(s, t, c, n, u, i) =>
              Gathered(s, t.curr, EndAt(u.next), u.group) /\ u.next # NoBlock /\ IsBlock(u.next)
<1>1. t.nidx \in Nat \ {0} /\ t.curr[1] \in Nat /\ t.curr[2] \in Nat
  <2>1. t.nidx \in Nat /\ t.curr \in Nat \X Nat
    BY DEF StreamOK, StreamState
  <2> QED
    BY <2>1
<1>2. ASSUME NotFound(s, t, c, n, u) PROVE Gathered(s, t.curr, <<c, n + 1>>, u.group)
  <2>1. u.group = t.group \o BlocksOf(s, c, t.nidx, n)
    BY <1>2 DEF NotFound
  <2>2. t.nidx - 1 <= n
    BY <1>1
  <2> QED
    BY <1>1, <2>1, <2>2, GatherMore
<1>3. ASSUME NEW i \in t.nidx .. n, FoundAt(s, t, c, n, u, i)
      PROVE  Gathered(s, t.curr, EndAt(u.next), u.group) /\ u.next # NoBlock /\ IsBlock(u.next)
  <2>1. u.group = t.group \o BlocksOf(s, c, t.nidx, i - 1) /\ u.next = <<c, i>> /\ <<c, i>> \in Own(s)
    BY <1>3 DEF FoundAt
  <2>2. i - 1 \in Int /\ t.nidx - 1 <= i - 1 /\ i - 1 <= Size(c) /\ i - 1 + 1 = i /\ Size(c) \in Nat
    BY <1>1, FileTypes
  <2>3. Gathered(s, t.curr, <<c, i - 1 + 1>>, u.group)
    BY <1>1, <2>1, <2>2, GatherMore
  <2>4. u.next # EndBlock /\ u.next # NoBlock /\ IsBlock(u.next)
    BY <2>1, OwnTypes
  <2> QED
    BY <2>1, <2>2, <2>3, <2>4 DEF EndAt
<1> QED
  BY <1>2, <1>3

(* A request finds the search begun, and in the stream's cluster.          *)
LEMMA BegunSought ==
  ASSUME MFAssumption, MFInv, NEW s \in Streams, ServesBlock(s), Sought(s), ~Crossing(s),
         str[s].next = NoBlock, NEW t, t = Begun(s, str[s])
  PROVE  /\ StreamOK(s, t) /\ Alike(str[s], t) /\ t.next = NoBlock /\ IsBlock(t.curr)
         /\ t.nidx \in Nat \ {0} /\ t.curr[1] \in Clusters /\ t.curr[2] \in Nat
         /\ t.curr[2] < t.nidx /\ t.nidx <= parsed[t.curr[1]] + 1
         /\ Gathered(s, t.curr, <<t.curr[1], t.nidx>>, t.group)
<1>0. QueueInv /\ StreamsInv /\ ParsedInv /\ PlacesParsed /\ FrontInv /\ ControlInv
  BY DEF MFInv, Consistent
<1> DEFINE c == str[s].curr[1]
<1>1. /\ IsBlock(str[s].curr)
      /\ StreamOK(s, t) /\ Alike(str[s], t) /\ t.next = str[s].next
      /\ t.nidx \in Nat \ {0} /\ t.curr[1] = c
      /\ c \in Clusters /\ str[s].curr[2] \in 1 .. Size(c) /\ str[s].curr[2] <= parsed[c]
      /\ parsed[c] \in 1 .. Size(c) /\ Size(c) \in Nat \ {0}
  BY <1>0, SearchFacts
<1>2. /\ str[s].nidx # 0 => t = str[s]
      /\ str[s].nidx = 0 => t.nidx = str[s].curr[2] + 1 /\ t.group = <<str[s].curr>>
      /\ t.curr = str[s].curr /\ StreamOK(s, str[s]) /\ str[s].curr \in Own(s)
  <2>1. StreamOK(s, str[s]) /\ str[s].curr \in Own(s)
    BY <1>0, <1>1, Serving
  <2> QED
    BY <1>1, <2>1, BegunIs DEF Alike
<1>3. InCluster(s, str[s])
  BY DEF Sought
<1>4. CASE str[s].nidx # 0
  BY <1>1, <1>2, <1>3, <1>4 DEF InCluster
<1>5. CASE str[s].nidx = 0
  <2>1. Gathered(s, str[s].curr, <<c, str[s].curr[2] + 1>>, <<str[s].curr>>)
    BY <1>2, GatherStart
  <2>2. t.nidx = str[s].curr[2] + 1 /\ t.group = <<str[s].curr>> /\ t.curr = str[s].curr
    BY <1>2, <1>5
  <2>3. Gathered(s, t.curr, <<t.curr[1], t.nidx>>, t.group)
    BY <1>1, <2>1, <2>2
  <2>4. t.curr[2] \in Nat /\ t.curr[2] < t.nidx
    BY <1>1, <2>2
  <2>5. t.nidx <= parsed[t.curr[1]] + 1
    BY <1>1, <2>2
  <2> QED
    BY <1>1, <2>2, <2>3, <2>4, <2>5
<1> QED
  BY <1>4, <1>5

(* What a request that finds its stream at a block starts from.            *)
LEMMA ServedSought ==
  ASSUME MFAssumption, MFInv, SearchInv, NEW s \in Streams, ServesBlock(s)
  PROVE  /\ Alive /\ Sought(s) /\ ~Crossing(s) /\ first' = first /\ s = Head(requests)
         /\ str[s].sel = 1 /\ IsBlock(str[s].curr) /\ pCurr' = str[s].curr[1]
         /\ ~shutdown /\ shutdown' = shutdown
<1>0. QueueInv /\ StreamsInv /\ ParsedInv /\ PlacesParsed /\ FrontInv /\ ControlInv
  BY DEF MFInv, Consistent
<1>1. Serves(s) /\ str[s].sel = 1 /\ IsBlock(str[s].curr) /\ pCurr' = str[s].curr[1]
  BY DEF ServesBlock
<1>2. first' = first /\ at = "request" /\ ~shutdown /\ s = Head(requests) /\ shutdown' = shutdown
  BY <1>0, <1>1, ServesFacts
<1>3. Alive /\ ~Crossing(s)
  BY <1>2 DEF Alive, Crossing
<1> QED
  BY <1>1, <1>2, <1>3 DEF SearchInv

(* The blocks of a sample whose next block is known.                       *)
LEMMA KnownGathered ==
  ASSUME MFAssumption, MFInv, NEW s \in Streams, ServesBlock(s), Sought(s), ~Crossing(s),
         NEW k, k = Known(s), k.next # NoBlock
  PROVE  /\ StreamOK(s, k) /\ Alike(str[s], k) /\ k.nidx # 0
         /\ Gathered(s, str[s].curr, EndAt(k.next), k.group)
<1>0. QueueInv /\ StreamsInv /\ ParsedInv /\ PlacesParsed /\ FrontInv /\ ControlInv
  BY DEF MFInv, Consistent
<1> DEFINE t == Begun(s, str[s])
           c == str[s].curr[1]
<1>1. IsBlock(str[s].curr)
  BY DEF ServesBlock
<1>2. /\ StreamOK(s, k) /\ Alike(str[s], k)
      /\ str[s].next # NoBlock => k = str[s]
      /\ str[s].next = NoBlock =>
           NotFound(s, t, c, Size(c), k) \/ \E i \in t.nidx .. Size(c) : FoundAt(s, t, c, Size(c), k, i)
  BY <1>0, <1>1, KnownIs
<1>3. CASE str[s].next # NoBlock
  <2>1. k = str[s] /\ Stands(s, str[s])
    BY <1>2, <1>3 DEF Sought
  <2> QED
    BY <1>2, <1>3, <2>1 DEF Stands
<1>4. CASE str[s].next = NoBlock
  <2>0. t = Begun(s, str[s]) /\ c = str[s].curr[1]
    OBVIOUS
  <2> HIDE DEF t, c
  <2>1. /\ StreamOK(s, t) /\ Alike(str[s], t) /\ t.next = NoBlock /\ IsBlock(t.curr)
        /\ t.nidx \in Nat \ {0} /\ t.curr[1] \in Clusters /\ t.curr[2] \in Nat
        /\ t.curr[2] < t.nidx /\ t.nidx <= parsed[t.curr[1]] + 1
        /\ Gathered(s, t.curr, <<t.curr[1], t.nidx>>, t.group)
    BY <1>4, <2>0, BegunSought
  <2>2. t.curr = str[s].curr /\ t.curr[1] = c
    BY <2>0, <2>1 DEF Alike
  <2>3. c \in Clusters /\ parsed[c] \in -1 .. Size(c) /\ Size(c) \in Nat /\ t.nidx \in Nat
    BY <1>0, <2>1, <2>2, FileTypes DEF ParsedInv
  <2>4. t.nidx <= Size(c) + 1 /\ Size(c) \in Int /\ Size(c) <= Size(c)
    BY <2>1, <2>2, <2>3
  <2>5. ~NotFound(s, t, c, Size(c), k)
    BY <2>1 DEF NotFound
  <2>6. PICK i \in t.nidx .. Size(c) : FoundAt(s, t, c, Size(c), k, i)
    BY <1>2, <1>4, <2>5 DEF t, c
  <2>7. t.nidx # 0 /\ (t.curr[1] < c \/ (t.curr[1] = c /\ t.curr[2] < t.nidx))
        /\ Gathered(s, t.curr, <<c, t.nidx>>, t.group)
    BY <2>1, <2>2
  <2>8. Gathered(s, t.curr, EndAt(k.next), k.group)
    BY <2>1, <2>3, <2>4, <2>6, <2>7, SearchedOn
  <2>9. k.nidx = i /\ i # 0
    BY <2>1, <2>6 DEF FoundAt
  <2> QED
    BY <1>2, <2>2, <2>8, <2>9
<1> QED
  BY <1>3, <1>4

(* A sample is made, and its stream begins again at the next block.        *)
LEMMA SampleMade ==
  ASSUME MFAssumption, MFInv, SearchInv, ServeSample
  PROVE  \E s \in Streams :
           /\ ServesBlock(s) /\ Sought(s) /\ ~Crossing(s) /\ at' = "request"
           /\ \A x \in Streams : x # s => str'[x] = str[x]
           /\ Gathered(s, str[s].curr, EndAt(str'[s].curr), str'[s].got)
           /\ str'[s].curr # NoBlock /\ str'[s].curr \in Places(s) /\ str'[s].cpos = str[s].cpos
           /\ str'[s].nidx = 0 /\ str'[s].next = NoBlock
           /\ Grows
<1>0. QueueInv /\ StreamsInv /\ ParsedInv /\ PlacesParsed /\ FrontInv /\ ControlInv
  BY DEF MFInv, Consistent
<1> DEFINE h == IF IsPaused THEN 1 ELSE 0
<1>1. PICK s \in Streams :
        /\ ServesBlock(s) /\ Known(s).next # NoBlock /\ ParsedFor(s) /\ Answered
        /\ str' = [str EXCEPT ![s] =
                     [Known(s) EXCEPT
                        !.got = Known(s).group, !.curr = Known(s).next, !.next = NoBlock,
                        !.nidx = 0, !.group = <<>>, !.ext = 0, !.locked = NoBlock,
                        !.held = @ + h]]
  BY DEF ServeSample
<1> DEFINE k == Known(s)
           u == Sampled(k, h)
<1>2. Sought(s) /\ ~Crossing(s)
  BY <1>1, ServedSought
<1>3. /\ StreamOK(s, k) /\ Alike(str[s], k) /\ Gathered(s, str[s].curr, EndAt(k.next), k.group)
  BY <1>1, <1>2, KnownGathered
<1>4. Grows /\ k.next # NoBlock
  BY <1>0, <1>1, KnownFacts
<1>5. str' = [str EXCEPT ![s] = u] /\ h \in Nat
  BY <1>1 DEF Sampled
<1>6. /\ u.got = k.group /\ u.curr = k.next /\ u.next = NoBlock /\ u.nidx = 0 /\ u.cpos = k.cpos
  <2>1. k \in StreamState
    BY <1>3 DEF StreamOK
  <2> HIDE DEF k, h
  <2> QED
    BY ONLY <2>1 DEF Sampled, StreamState, u
<1>7. k.next \in Places(s) /\ k.cpos = str[s].cpos
  BY <1>3 DEF StreamOK, Alike
<1> HIDE DEF u, h, k
<1>8. str \in [Streams -> StreamState]
  BY <1>0 DEF StreamsInv
<1>9. str'[s] = u /\ \A x \in Streams : x # s => str'[x] = str[x]
  BY <1>5, <1>8
<1>10. at' = "request"
  BY <1>1 DEF Answered, Go
<1> QED
  BY <1>1, <1>2, <1>3, <1>4, <1>6, <1>7, <1>9, <1>10

LEMMA SearchServeSample ==
  ASSUME MFAssumption, MFInv, MFInv', SearchInv, ServeSample
  PROVE  SearchInv'
<1>1. PICK s \in Streams :
           /\ ServesBlock(s) /\ Sought(s) /\ ~Crossing(s) /\ at' = "request"
           /\ \A x \in Streams : x # s => str'[x] = str[x]
           /\ Gathered(s, str[s].curr, EndAt(str'[s].curr), str'[s].got)
           /\ str'[s].curr # NoBlock /\ str'[s].curr \in Places(s) /\ str'[s].cpos = str[s].cpos
           /\ str'[s].nidx = 0 /\ str'[s].next = NoBlock
           /\ Grows
  BY SampleMade
<1>2. Alive /\ s = Head(requests) /\ first' = first /\ IsBlock(str[s].curr)
  BY <1>1, ServedSought
<1>3. str[s].curr[1] \in Nat /\ str[s].curr[2] \in Nat
  <2>1. str[s].curr \in Own(s)
    BY <1>2, Serving DEF MFInv, Consistent
  <2> QED
    BY <2>1, OwnTypes
<1>4. ~Crossing(s)'
  BY <1>1 DEF Crossing
<1> DEFINE p == EndAt(str'[s].curr)
           g == str'[s].got
<1>5. p[1] \in Nat /\ p[2] \in Nat
  <2>1. CASE str'[s].curr = EndBlock
    BY <2>1, FileTypes DEF EndAt, EndOfFile
  <2>2. CASE str'[s].curr # EndBlock
    <3>1. str'[s].curr \in Own(s)
      BY <1>1, <2>2 DEF Places
    <3> QED
      BY <2>2, <3>1, OwnTypes DEF EndAt
  <2> QED
    BY <2>1, <2>2
<1>6. Last(g) \in Own(s) /\ \A b \in Own(s) : Precedes(Last(g), b) <=> ~Precedes(b, p)
  <2>1. Gathered(s, str[s].curr, p, g)
    BY <1>1
  <2> HIDE DEF p, g
  <2> QED
    BY <1>3, <1>5, <2>1, GatherLast
<1>7. g # <<>>
  BY <1>1 DEF Gathered
<1>8. IsBlock(str'[s].curr) => p = str'[s].curr
  BY NoBlockTypes DEF EndAt
<1>9. IsBlock(str'[s].curr) => Continues(s, str[s])'
  BY <1>6, <1>7, <1>8 DEF Continues
<1>10. Stands(s, str[s])'
  BY <1>1, <1>9 DEF Stands
<1>11. InCluster(s, str[s])'
  BY <1>1 DEF InCluster
<1>12. Sought(s)'
  BY <1>4, <1>10, <1>11 DEF Sought
<1>13. Grows /\ at' # "read" /\ \A x \in Streams : x # s => str'[x] = str[x]
  BY <1>1
<1> QED
  BY <1>2, <1>12, <1>13, SearchStep

LEMMA SearchEnds ==
  ASSUME at' \in {"quit", "crashed"}
  PROVE  SearchInv'
BY DEF SearchInv, Alive

LEMMA SameUpdate ==
  ASSUME StreamsInv, NEW s \in Streams, NEW u, str' = [str EXCEPT ![s] = u],
         SameSearch(str[s], u), u.sel = str[s].sel
  PROVE  \A x \in Streams : str'[x].sel = str[x].sel /\ SameSearch(str[x], str'[x])
<1>1. str'[s] = u /\ \A x \in Streams : x # s => str'[x] = str[x]
  BY DEF StreamsInv
<1>2. \A t : SameSearch(t, t)
  BY DEF SameSearch
<1> QED
  BY <1>1, <1>2

(* The requests that no search answers.                                    *)
LEMMA SearchServeNone ==
  ASSUME MFAssumption, MFInv, MFInv', SearchInv, ServeUnselected \/ ServeEnded \/ ServeUnplaced
  PROVE  SearchInv'
<1>0. QueueInv /\ StreamsInv /\ ParsedInv /\ PlacesParsed /\ FrontInv /\ ControlInv
  BY DEF MFInv, Consistent
<1>1. str \in [Streams -> StreamState]
  BY <1>0 DEF StreamsInv
<1>2. CASE ServeUnselected \/ ServeEnded
  <2>1. PICK s \in Streams :
          /\ Serves(s) /\ Answered /\ parsed' = parsed
          /\ str' = str \/ str' = [str EXCEPT ![s].eos = TRUE]
    BY <1>2 DEF ServeUnselected, ServeEnded, disk
  <2>2. first' = first /\ at = "request" /\ ~shutdown /\ at' = "request"
    BY <1>0, <2>1, ServesFacts DEF Answered, Go
  <2>3. \A x \in Streams : str'[x].sel = str[x].sel /\ SameSearch(str[x], str'[x])
    <3>1. CASE str' = str
      BY <3>1 DEF SameSearch
    <3>2. CASE str' = [str EXCEPT ![s].eos = TRUE]
      <4> DEFINE u == [str[s] EXCEPT !.eos = TRUE]
      <4>1. str[s] \in StreamState
        BY <1>1
      <4>2. u.sel = str[s].sel /\ SameSearch(str[s], u)
        BY ONLY <4>1 DEF SameSearch, StreamState
      <4>3. str' = [str EXCEPT ![s] = u]
        BY <3>2
      <4> HIDE DEF u
      <4> QED
        BY <1>0, <4>2, <4>3, SameUpdate
    <3> QED
      BY <2>1, <3>1, <3>2
  <2>4. Grows
    BY <2>1, SameParsed
  <2>5. Alive /\ \A x \in Streams : ~Crossing(x) /\ ~Crossing(x)'
    BY <2>2 DEF Alive, Crossing
  <2> QED
    BY <2>2, <2>3, <2>4, <2>5, SearchKept
<1>3. CASE ServeUnplaced
  <2>1. PICK s \in Streams :
        /\ Serves(s) /\ str[s].sel = 1 /\ str[s].curr = NoBlock /\ pCurr' = str[s].cpos
        /\ IF pCurr' = 0 THEN Go("crashed") /\ UNCHANGED <<ev, astate, disk, str>>
           ELSE /\ Again("currInit") /\ str' = [str EXCEPT ![s].clu = pCurr']
                /\ ParseTo(pCurr', IF parsed[pCurr'] < 0 THEN 0 ELSE parsed[pCurr'])
    BY <1>3 DEF ServeUnplaced
  <2>2. first' = first /\ at = "request" /\ ~shutdown
    BY <1>0, <2>1, ServesFacts
  <2>3. CASE pCurr' = 0
    BY <2>1, <2>3, SearchEnds DEF Go
  <2>4. CASE pCurr' # 0
    <3>1. at' = "read" /\ astate' = "currInit" /\ str' = [str EXCEPT ![s].clu = pCurr']
          /\ ParseTo(pCurr', IF parsed[pCurr'] < 0 THEN 0 ELSE parsed[pCurr'])
      BY <2>1, <2>4 DEF Again, Loop, Go
    <3>2. \A x \in Streams : str'[x].sel = str[x].sel /\ SameSearch(str[x], str'[x])
      <4> DEFINE d == pCurr'
                 u == [str[s] EXCEPT !.clu = d]
      <4>1. str[s] \in StreamState /\ str' = [str EXCEPT ![s] = u]
        BY <1>1, <3>1
      <4> HIDE DEF d
      <4>2. u.sel = str[s].sel /\ SameSearch(str[s], u)
        BY ONLY <4>1 DEF SameSearch, StreamState
      <4> HIDE DEF u
      <4> QED
        BY <1>0, <4>1, <4>2, SameUpdate
    <3>3. Grows
      <4>1. pCurr' \in Clusters
        <5>1. str[s].cpos \in 0 .. Len(File)
          BY <1>0 DEF StreamsInv, StreamOK
        <5> QED
          BY <2>1, <2>4, <5>1, FileTypes
      <4> DEFINE n == IF parsed[pCurr'] < 0 THEN 0 ELSE parsed[pCurr']
      <4>2. parsed[pCurr'] \in -1 .. Size(pCurr') /\ Size(pCurr') \in Nat
        BY <1>0, <4>1, FileTypes DEF ParsedInv
      <4>3. n \in Int /\ parsed[pCurr'] <= n /\ n <= Size(pCurr')
        BY <4>2
      <4>4. ParseTo(pCurr', n)
        BY <3>1
      <4> HIDE DEF n
      <4> QED
        BY <1>0, <4>1, <4>3, <4>4, ParseGrows
    <3>4. Alive /\ \A x \in Streams : ~Crossing(x) /\ ~Crossing(x)'
      BY <2>2, <3>1 DEF Alive, Crossing, NextStates
    <3> QED
      BY <2>2, <3>2, <3>3, <3>4, SearchKept
  <2> QED
    BY <2>3, <2>4
<1> QED
  BY <1>2, <1>3

(* The search stops where the bytes do.                                    *)
LEMMA SearchServeShort ==
  ASSUME MFAssumption, MFInv, MFInv', SearchInv, ServeShort
  PROVE  SearchInv'
<1>0. QueueInv /\ StreamsInv /\ ParsedInv /\ PlacesParsed /\ FrontInv /\ ControlInv
  BY DEF MFInv, Consistent
<1>1. PICK s \in Streams :
        /\ ServesBlock(s) /\ str[s].next = NoBlock
        /\ LET t == Begun(s, str[s])
               c == t.curr[1]
           IN  \/ \E n \in ShortOf(c, Needs(s, t, c)) :
                    /\ ParseTo(c, n) /\ str' = [str EXCEPT ![s] = Scan(s, t, c, n)]
                    /\ Pending("request", c)
               \/ \E tells \in BOOLEAN : Dies(tells)
        /\ UNCHANGED requests
  BY DEF ServeShort
<1> DEFINE t == Begun(s, str[s])
           c == t.curr[1]
           m == Needs(s, t, c)
<1>2. CASE \E tells \in BOOLEAN : Dies(tells)
  BY <1>2, SearchEnds DEF Dies, Go
<1>3. ASSUME NEW n \in ShortOf(c, m), ParseTo(c, n), str' = [str EXCEPT ![s] = Scan(s, t, c, n)],
             Pending("request", c)
      PROVE  SearchInv'
  <2>0. t = Begun(s, str[s]) /\ m = Needs(s, t, c) /\ c = t.curr[1]
    OBVIOUS
  <2>1. /\ Alive /\ Sought(s) /\ ~Crossing(s) /\ first' = first /\ s = Head(requests)
        /\ str[s].sel = 1 /\ IsBlock(str[s].curr)
    BY <1>1, ServedSought
  <2> DEFINE u == Scan(s, t, c, n)
  <2>2. str' = [str EXCEPT ![s] = u]
    BY <1>3
  <2>3. at' = "read" /\ astate' = "request"
    BY <1>3 DEF Pending, Go
  <2> HIDE DEF t, c, m, u
  <2>4. /\ StreamOK(s, t) /\ Alike(str[s], t) /\ t.next = NoBlock /\ IsBlock(t.curr)
        /\ t.nidx \in Nat \ {0} /\ c \in Clusters /\ t.curr[2] \in Nat
        /\ t.curr[2] < t.nidx /\ t.nidx <= parsed[c] + 1
        /\ Gathered(s, t.curr, <<c, t.nidx>>, t.group)
    BY <1>1, <2>0, <2>1, BegunSought
  <2>5. parsed[c] \in -1 .. Size(c) /\ Size(c) \in Nat /\ m \in 1 .. Size(c)
        /\ \A i \in t.nidx .. m - 1 : ~Follows(s, t.curr, <<c, i>>)
    BY <1>0, <2>0, <2>4, FileTypes, NeedsIs DEF ParsedInv
  <2>6. n \in Int /\ parsed[c] <= n /\ n <= m - 1
    BY <1>3, <2>5 DEF ShortOf
  <2>7. n \in Nat /\ n < Size(c) /\ n <= Size(c) /\ t.nidx <= n + 1
    BY <2>4, <2>5, <2>6
  <2>8. Grows /\ parsed'[c] = n
    BY <1>0, <1>3, <2>4, <2>6, <2>7, ParseGrows
  <2>9. /\ StreamOK(s, u) /\ Alike(t, u)
        /\ NotFound(s, t, c, n, u) \/ \E i \in t.nidx .. n : FoundAt(s, t, c, n, u, i)
    BY <2>4, <2>7, ScanIs DEF u
  <2>10. NotFound(s, t, c, n, u)
    <3>1. ASSUME NEW i \in t.nidx .. n, FoundAt(s, t, c, n, u, i) PROVE FALSE
      <4>1. Follows(s, t.curr, <<c, i>>)
        BY <3>1 DEF FoundAt
      <4>2. i \in t.nidx .. m - 1
        BY <2>4, <2>5, <2>6
      <4> QED
        BY <2>5, <4>1, <4>2
    <3> QED
      BY <2>9, <3>1
  <2>11. t.nidx # 0 /\ (t.curr[1] < c \/ (t.curr[1] = c /\ t.curr[2] < t.nidx))
    BY <2>0, <2>4
  <2>12. Gathered(s, t.curr, <<c, n + 1>>, u.group)
    BY <2>4, <2>6, <2>7, <2>10, <2>11, SearchedOn
  <2>13. u.nidx = n + 1 /\ u.next = NoBlock /\ u.nidx # 0
    BY <2>4, <2>7, <2>10 DEF NotFound
  <2>14. u.curr = t.curr /\ u.curr = str[s].curr /\ u.cpos = str[s].cpos /\ u.got = str[s].got
    BY <2>4, <2>9 DEF Alike
  <2>15. str \in [Streams -> StreamState]
    BY <1>0 DEF StreamsInv
  <2>16. str'[s] = u /\ \A x \in Streams : x # s => str'[x] = str[x]
    BY <2>2, <2>15
  <2>17. Stands(s, str[s])'
    <3>1. Continues(s, str[s])
      BY <2>1 DEF Sought, Stands
    <3>2. Continues(s, str[s])'
      BY <2>1, <2>14, <2>16, <3>1 DEF Continues
    <3>3. IsBlock(u.curr) /\ u.curr # NoBlock
      BY <2>1, <2>14, NoBlockTypes
    <3> QED
      BY <2>13, <2>16, <3>2, <3>3 DEF Stands
  <2>18. InCluster(s, str[s])'
    <3>1. u.curr[1] = c /\ u.curr[2] < u.nidx /\ u.nidx <= parsed'[u.curr[1]] + 1
      <4>1. u.curr[1] = c /\ u.curr[2] = t.curr[2]
        BY <2>0, <2>14
      <4>2. t.curr[2] < n + 1 /\ n + 1 <= n + 1
        BY <2>4, <2>7
      <4> QED
        BY <2>8, <2>13, <4>1, <4>2
    <3>2. Gathered(s, u.curr, <<u.curr[1], u.nidx>>, u.group)
      BY <2>12, <2>13, <2>14, <3>1
    <3> QED
      BY <2>16, <3>1, <3>2 DEF InCluster
  <2>19. ~Crossing(s)'
    BY <2>3 DEF Crossing, NextStates
  <2>20. Sought(s)'
    BY <2>17, <2>18, <2>19 DEF Sought
  <2> QED
    BY <1>1, <2>1, <2>8, <2>16, <2>20, SearchStep
<1> QED
  BY <1>1, <1>2, <1>3

(* The search leaves the cluster.                                          *)
LEMMA SearchServeNextCluster ==
  ASSUME MFAssumption, MFInv, MFInv', SearchInv, ServeNextCluster
  PROVE  SearchInv'
<1>0. QueueInv /\ StreamsInv /\ ParsedInv /\ PlacesParsed /\ FrontInv /\ ControlInv
  BY DEF MFInv, Consistent
<1>1. PICK s \in Streams :
        /\ ServesBlock(s) /\ str[s].next = NoBlock
        /\ LET t == Begun(s, str[s])
               c == t.curr[1]
               u == Scan(s, t, c, Size(c))
           IN  /\ u.next = NoBlock /\ str' = [str EXCEPT ![s] = u]
               /\ ParseTo(c, Size(c)) /\ Again("nextInit")
        /\ UNCHANGED requests
  BY DEF ServeNextCluster
<1> DEFINE t == Begun(s, str[s])
           c == t.curr[1]
           u == Scan(s, t, c, Size(c))
<1>2. /\ t = Begun(s, str[s]) /\ c = t.curr[1] /\ u = Scan(s, t, c, Size(c))
      /\ u.next = NoBlock /\ str' = [str EXCEPT ![s] = u]
      /\ ParseTo(c, Size(c)) /\ at' = "read" /\ astate' = "nextInit"
  BY <1>1 DEF Again, Loop, Go
<1>3. /\ Alive /\ Sought(s) /\ ~Crossing(s) /\ first' = first /\ s = Head(requests)
      /\ str[s].sel = 1 /\ IsBlock(str[s].curr) /\ pCurr' = str[s].curr[1]
  BY <1>1, ServedSought
<1> HIDE DEF t, c, u
<1>4. /\ StreamOK(s, t) /\ Alike(str[s], t) /\ t.next = NoBlock /\ IsBlock(t.curr)
      /\ t.nidx \in Nat \ {0} /\ c \in Clusters /\ t.curr[2] \in Nat
      /\ t.curr[2] < t.nidx /\ t.nidx <= parsed[c] + 1
      /\ Gathered(s, t.curr, <<c, t.nidx>>, t.group)
  BY <1>1, <1>2, <1>3, BegunSought
<1>5. parsed[c] \in -1 .. Size(c) /\ Size(c) \in Nat /\ c \in Nat
  BY <1>0, <1>4, FileTypes, SMTT(30) DEF ParsedInv
<1>6. Size(c) \in Int /\ parsed[c] <= Size(c) /\ Size(c) <= Size(c) /\ t.nidx <= Size(c) + 1
  BY <1>4, <1>5
<1>7. Grows
  BY <1>0, <1>2, <1>4, <1>6, ParseGrows
<1>8. /\ StreamOK(s, u) /\ Alike(t, u)
      /\ NotFound(s, t, c, Size(c), u) \/ \E i \in t.nidx .. Size(c) : FoundAt(s, t, c, Size(c), u, i)
  BY <1>2, <1>4, <1>5, <1>6, ScanIs
<1>9. NotFound(s, t, c, Size(c), u)
  <2>1. ASSUME NEW i \in t.nidx .. Size(c), FoundAt(s, t, c, Size(c), u, i) PROVE FALSE
    <3>1. <<c, i>> \in Own(s) /\ u.next = <<c, i>>
      BY <2>1 DEF FoundAt
    <3> QED
      BY <1>2, <3>1, OwnTypes
  <2> QED
    BY <1>8, <2>1
<1>10. t.nidx # 0 /\ (t.curr[1] < c \/ (t.curr[1] = c /\ t.curr[2] < t.nidx))
  BY <1>2, <1>4
<1>11. Gathered(s, t.curr, <<c, Size(c) + 1>>, u.group)
  BY <1>4, <1>6, <1>9, <1>10, SearchedOn
<1>12. Gathered(s, t.curr, <<c + 1, 1>>, u.group)
  BY <1>4, <1>11, GatherCross, SMTT(30)
<1>13. u.nidx = 1 /\ u.next = NoBlock
  BY <1>2, <1>9 DEF NotFound
<1>14. u.curr = t.curr /\ u.curr = str[s].curr /\ u.cpos = str[s].cpos /\ u.got = str[s].got
  BY <1>4, <1>8 DEF Alike
<1>15. str'[s] = u /\ \A x \in Streams : x # s => str'[x] = str[x]
  BY <1>0, <1>2 DEF StreamsInv
<1>16. Stands(s, str[s])'
  <2>1. Continues(s, str[s])
    BY <1>3 DEF Sought, Stands
  <2>2. Continues(s, str[s])'
    BY <1>3, <1>14, <1>15, <2>1 DEF Continues
  <2>3. IsBlock(u.curr) /\ u.curr # NoBlock
    BY <1>3, <1>14, NoBlockTypes
  <2> QED
    BY <1>13, <1>15, <2>2, <2>3 DEF Stands
<1>17. Crossing(s)'
  BY <1>1, <1>2, <1>3 DEF Crossing, NextStates
<1>18. Crossed(s, str[s])'
  <2>1. u.curr[1] = c /\ pCurr' = c /\ c <= c
    BY <1>2, <1>3, <1>5, <1>14
  <2>2. Gathered(s, u.curr, <<pCurr' + 1, 1>>, u.group)
    BY <1>12, <1>14, <2>1
  <2> QED
    BY <1>2, <1>15, <2>1, <2>2 DEF Crossed
<1>19. Sought(s)'
  BY <1>16, <1>17, <1>18 DEF Sought
<1> QED
  BY <1>1, <1>3, <1>7, <1>15, <1>19, SearchStep

(* The bytes of the sample are read.                                       *)
LEMMA SearchServeBytes ==
  ASSUME MFAssumption, MFInv, MFInv', SearchInv, ServeBytes
  PROVE  SearchInv'
<1>0. QueueInv /\ StreamsInv /\ ParsedInv /\ PlacesParsed /\ FrontInv /\ ControlInv
  BY DEF MFInv, Consistent
<1>1. PICK s \in Streams :
        /\ ServesBlock(s) /\ Known(s).next # NoBlock /\ ParsedFor(s) /\ requests' = requests
        /\ \/ \E e \in 1 .. Known(s).ext :
                /\ str' = [str EXCEPT ![s] = [Known(s) EXCEPT !.ext = e]]
                /\ Pending("extent", 0)
           \/ /\ str' = [str EXCEPT ![s] = [Known(s) EXCEPT !.ext = 0]]
              /\ Pending("lock", 0)
           \/ Dies(TRUE)
  BY DEF ServeBytes
<1> DEFINE k == Known(s)
<1>2. CASE Dies(TRUE)
  BY <1>2, SearchEnds DEF Dies, Go
<1>3. ASSUME NEW e, NEW state \in {"extent", "lock"},
             str' = [str EXCEPT ![s] = [k EXCEPT !.ext = e]], Pending(state, 0)
      PROVE  SearchInv'
  <2> DEFINE u == [k EXCEPT !.ext = e]
  <2>1. /\ Alive /\ Sought(s) /\ ~Crossing(s) /\ first' = first /\ s = Head(requests)
        /\ str[s].sel = 1 /\ IsBlock(str[s].curr)
    BY <1>1, ServedSought
  <2>2. /\ StreamOK(s, k) /\ Alike(str[s], k) /\ k.nidx # 0
        /\ Gathered(s, str[s].curr, EndAt(k.next), k.group)
    BY <1>1, <2>1, KnownGathered
  <2>3. Grows /\ k.next # NoBlock
    BY <1>0, <1>1, KnownFacts
  <2>4. at' = "read" /\ astate' \in {"extent", "lock"}
    BY <1>3 DEF Pending, Go
  <2>5. str' = [str EXCEPT ![s] = u]
    BY <1>3
  <2>6. k \in StreamState
    BY <2>2 DEF StreamOK
  <2> HIDE DEF k
  <2>7. SameSearch(k, u)
    BY ONLY <2>6 DEF SameSearch, StreamState
  <2> HIDE DEF u
  <2>8. str'[s] = u /\ \A x \in Streams : x # s => str'[x] = str[x]
    BY <1>0, <2>5 DEF StreamsInv
  <2>9. /\ u.curr = str[s].curr /\ u.cpos = str[s].cpos /\ u.got = str[s].got
        /\ u.next = k.next /\ u.nidx = k.nidx /\ u.group = k.group
    BY <2>2, <2>7 DEF Alike, SameSearch
  <2>10. Stands(s, str[s])'
    <3>1. Continues(s, str[s])
      BY <2>1 DEF Sought, Stands
    <3>2. Continues(s, str[s])'
      BY <2>1, <2>8, <2>9, <3>1 DEF Continues
    <3>3. IsBlock(u.curr) /\ u.curr # NoBlock
      BY <2>1, <2>9, NoBlockTypes
    <3>4. Gathered(s, u.curr, EndAt(u.next), u.group)
      BY <2>2, <2>9
    <3> QED
      BY <2>2, <2>3, <2>8, <2>9, <3>2, <3>3, <3>4 DEF Stands
  <2>11. InCluster(s, str[s])'
    BY <2>3, <2>8, <2>9 DEF InCluster
  <2>12. ~Crossing(s)'
    BY <2>4 DEF Crossing, NextStates
  <2>13. Sought(s)'
    BY <2>10, <2>11, <2>12 DEF Sought
  <2> QED
    BY <1>1, <2>1, <2>3, <2>8, <2>13, SearchStep
<1> QED
  BY <1>1, <1>2, <1>3

LEMMA SearchServe ==
  ASSUME MFAssumption, MFInv, MFInv', SearchInv, Serve
  PROVE  SearchInv'
<1>1. CASE ServeUnselected \/ ServeEnded \/ ServeUnplaced
  BY <1>1, SearchServeNone
<1>2. CASE ServeShort
  BY <1>2, SearchServeShort
<1>3. CASE ServeNextCluster
  BY <1>3, SearchServeNextCluster
<1>4. CASE ServeBytes
  BY <1>4, SearchServeBytes
<1>5. CASE ServeSample
  BY <1>5, SearchServeSample
<1> QED
  BY <1>1, <1>2, <1>3, <1>4, <1>5 DEF Serve

(* What a read on behalf of the request in front starts from.              *)
LEMMA PlaySought ==
  ASSUME MFAssumption, MFInv, SearchInv, NEW state \in FrontStates, PlayStep(state),
         NEW s, s = Head(requests)
  PROVE  /\ UNCHANGED <<shutdown, first, requests>>
         /\ at = "read" /\ astate = state /\ Alive /\ s \in Streams
         /\ Following /\ Waits(str[s]) /\ pCurr \in Clusters /\ StreamOK(s, str[s])
         /\ Crossing(s) <=> state \in NextStates
         /\ str[s].sel = 1 => Sought(s)
<1>1. /\ UNCHANGED <<shutdown, first, requests>> /\ ~shutdown
      /\ at = "read" /\ astate = state /\ Head(requests) \in Streams
      /\ Following /\ Waits(str[Head(requests)]) /\ pCurr \in Clusters
      /\ StreamOK(Head(requests), str[Head(requests)])
  BY PlayFacts DEF MFInv
<1>2. Alive
  BY <1>1 DEF Alive
<1> QED
  BY <1>1, <1>2 DEF SearchInv, Crossing

(* A read of its bytes, or the search of the current block, is no search   *)
(* for the next one.                                                       *)
LEMMA PlayedSame ==
  ASSUME MFAssumption, MFInv, MFInv', SearchInv, NEW state \in FrontStates, PlayStep(state),
         state \notin NextStates, Grows, at' = "read" => astate' \notin NextStates,
         NEW s, s = Head(requests), NEW u, str' = [str EXCEPT ![s] = u],
         SameSearch(str[s], u), u.sel = str[s].sel
  PROVE  SearchInv'
<1>1. UNCHANGED <<first, requests>> /\ at = "read" /\ astate = state /\ Alive /\ s \in Streams
  BY PlaySought
<1>2. \A x \in Streams : ~Crossing(x) /\ ~Crossing(x)'
  BY <1>1 DEF Crossing
<1>3. \A x \in Streams : str'[x].sel = str[x].sel /\ SameSearch(str[x], str'[x])
  BY <1>1, SameUpdate DEF MFInv, Consistent
<1> QED
  BY <1>1, <1>2, <1>3, SearchKept

LEMMA PlayedUntouched ==
  ASSUME MFAssumption, MFInv, MFInv', SearchInv, NEW state \in FrontStates, PlayStep(state),
         Grows, str' = str,
         \/ state \notin NextStates /\ (at' = "read" => astate' \notin NextStates)
         \/ at' = "read" /\ UNCHANGED <<astate, pCurr, pNext>>
  PROVE  SearchInv'
<1> DEFINE s == Head(requests)
<1>1. UNCHANGED <<first, requests>> /\ at = "read" /\ astate = state /\ Alive /\ s \in Streams
  BY PlaySought
<1>2. \A x \in Streams : /\ Crossing(x)' <=> Crossing(x)
                         /\ Crossing(x) => UNCHANGED <<astate, pCurr, pNext>>
  BY <1>1 DEF Crossing
<1>3. \A x \in Streams : str'[x].sel = str[x].sel /\ SameSearch(str[x], str'[x])
  BY DEF SameSearch
<1> QED
  BY <1>1, <1>2, <1>3, SearchKept

LEMMA SearchBytes ==
  ASSUME MFAssumption, MFInv, MFInv', SearchInv, BytesAreHere
  PROVE  SearchInv'
<1>1. at = "read" /\ at' = "request" /\ ~shutdown /\ astate = "request"
      /\ UNCHANGED <<first, parsed, str>>
  BY DEF BytesAreHere, PlayStep, Ready, Back, Go, load
<1>2. Alive /\ \A x \in Streams : ~Crossing(x) /\ ~Crossing(x)'
  BY <1>1 DEF Alive, Crossing, NextStates
<1>3. \A x \in Streams : str'[x].sel = str[x].sel /\ SameSearch(str[x], str'[x])
  BY <1>1 DEF SameSearch
<1> QED
  BY <1>1, <1>2, <1>3, SameParsed, SearchKept

LEMMA SearchOnFront ==
  ASSUME MFAssumption, MFInv, MFInv', SearchInv, LockCurr \/ GetSampleExtent
  PROVE  SearchInv'
<1> DEFINE s == Head(requests)
<1>1. PICK state, after :
        OnFront(state, after) /\ \/ state = "lock" /\ after = [x \in Streams |-> LockCurrBlock(str[x])]
                                 \/ state = "extent" /\ after = [x \in Streams |-> ExtentDone(str[x])]
  BY DEF LockCurr, GetSampleExtent
<1>2. state \in FrontStates /\ PlayStep(state) /\ state \notin NextStates /\ parsed' = parsed
  BY <1>1 DEF OnFront, FrontStates, CurrStates, NextStates
<1>3. s \in Streams /\ StreamOK(s, str[s]) /\ requests # <<>>
  BY <1>2, PlayFacts DEF MFInv
<1>4. \/ at' = "crashed"
      \/ at' = "request" /\ str' = str
      \/ at' = "request" /\ str' = [str EXCEPT ![s] = after[s]]
  BY <1>1 DEF OnFront, Go, Back
<1>5. CASE at' = "crashed"
  BY <1>5, SearchEnds
<1>6. CASE at' = "request" /\ str' = str
  BY <1>2, <1>6, SameParsed, PlayedUntouched
<1>7. CASE at' = "request" /\ str' = [str EXCEPT ![s] = after[s]]
  <2> DEFINE u == after[s]
  <2>1. u = LockCurrBlock(str[s]) \/ u = ExtentDone(str[s])
    BY <1>1, <1>3
  <2>2. str' = [str EXCEPT ![s] = u] /\ str[s] \in StreamState
    BY <1>3, <1>7 DEF StreamOK
  <2>0. s = Head(requests)
    OBVIOUS
  <2> HIDE DEF u, s
  <2>3. SameSearch(str[s], u) /\ u.sel = str[s].sel
    BY ONLY <2>1, <2>2 DEF SameSearch, LockCurrBlock, ExtentDone, StreamState
  <2> QED
    BY <1>2, <1>7, <2>0, <2>2, <2>3, SameParsed, PlayedSame
<1> QED
  BY <1>4, <1>5, <1>6, <1>7

(* The block sought is the first one of the stream in the cluster.         *)
LEMMA SearchCurrFound ==
  ASSUME MFAssumption, MFInv, MFInv', SearchInv, NEW state \in CurrStates, PlayStep(state),
         GetCurrBlockObject(parsed'[pCurr]), UNCHANGED <<pCurr, pNext>>,
         \A d \in Clusters : parsed'[d] \in -1 .. Size(d), Grows
  PROVE  SearchInv'
<1> DEFINE n == parsed'[pCurr]
<1>0. PICK s : s = Head(requests)
  OBVIOUS
<1>1. state \in FrontStates /\ state \notin NextStates
  BY DEF FrontStates, CurrStates, NextStates
<1>2. /\ UNCHANGED <<shutdown, first, requests>>
      /\ at = "read" /\ astate = state /\ Alive /\ s \in Streams
      /\ Waits(str[s]) /\ pCurr \in Clusters /\ StreamOK(s, str[s])
      /\ str[s].sel = 1 => Sought(s)
  BY <1>0, <1>1, PlaySought
<1>3. requests # <<>>
  BY <1>1, PlayFacts DEF MFInv
<1>4. /\ str[s].curr = NoBlock /\ (str[s].sel = 1 => str[s].clu = pCurr /\ str[s].cpos = pCurr)
  BY <1>2 DEF Waits
<1>5. pCurr # 0 /\ n \in Int /\ n <= Size(pCurr)
  BY <1>2, FileTypes
<1>6. CASE str[s].clu = 0
  <2>1. at' = "crashed"
    BY <1>0, <1>3, <1>6 DEF GetCurrBlockObject, Go
  <2> QED
    BY <2>1, SearchEnds
<1>7. CASE str[s].clu # 0
  <2>1. str[s].sel = 1 /\ str[s].clu = pCurr /\ str[s].cpos = pCurr
    BY <1>2, <1>4, <1>7 DEF StreamOK
  <2> DEFINE b == FirstOn(pCurr, s, n)
             e == IF b # NoBlock THEN b ELSE IF n = Size(pCurr) THEN EndBlock ELSE NoBlock
  <2>2. /\ b = NoBlock \/ b \in Own(s)
        /\ b # NoBlock => b[1] = pCurr /\ \A d \in Own(s) : d[1] = pCurr => b[2] <= d[2]
    BY <1>2, <1>5, FirstOnIn, ZenonT(40)
  <2>3. /\ e \in Places(s) /\ (IsBlock(e) => e = b /\ b # NoBlock)
    BY <2>2, NoBlockTypes DEF Places
  <2>4. IF e = NoBlock THEN at' = "read" /\ astate' = "currInit" /\ UNCHANGED str
        ELSE at' = "request" /\ str' = [str EXCEPT ![s].curr = e]
    BY <1>0, <1>3, <1>7, <2>1 DEF GetCurrBlockObject, SetCurrBlockObject, Loop, Back, Go
  <2> HIDE DEF e, b
  <2>5. CASE e = NoBlock
    BY <1>1, <2>4, <2>5, PlayedUntouched DEF NextStates
  <2>6. CASE e # NoBlock
    <3> DEFINE u == [str[s] EXCEPT !.curr = e]
    <3>1. at' = "request" /\ str' = [str EXCEPT ![s] = u]
      BY <2>4, <2>6
    <3>2. /\ u.curr = e /\ u.next = str[s].next /\ u.cpos = str[s].cpos
          /\ u.nidx = str[s].nidx /\ u.group = str[s].group /\ u.got = str[s].got
      BY <1>2, <1>4, <2>1, <2>3, CurrOK
    <3> HIDE DEF u
    <3>3. str'[s] = u /\ \A x \in Streams : x # s => str'[x] = str[x]
      BY <1>2, <3>1 DEF MFInv, Consistent, StreamsInv
    <3>4. str[s].got = <<>> /\ str[s].nidx = 0 /\ str[s].next = NoBlock
      BY <1>2, <1>4, <2>1, NoBlockTypes DEF Sought, Stands
    <3>5. IsBlock(e) => Continues(s, str[s])'
      <4> SUFFICES ASSUME IsBlock(e) PROVE Continues(s, str[s])'
        OBVIOUS
      <4>1. e = b /\ b # NoBlock /\ b \in Own(s) /\ b[1] = pCurr
        BY <2>2, <2>3
      <4>2. b[1] \in Nat /\ b[2] \in Nat
        BY <4>1, OwnTypes
      <4>3. ASSUME NEW d \in Own(s), d[1] = pCurr PROVE ~Precedes(d, b)
        <5>1. d[2] \in Nat /\ b[2] <= d[2] /\ d[1] = b[1]
          BY <2>2, <4>1, <4>3, OwnTypes
        <5> QED
          BY <4>2, <5>1 DEF Precedes
      <4>4. u.curr = b /\ u.cpos = pCurr /\ u.got = <<>>
        BY <2>1, <3>2, <3>4, <4>1
      <4> QED
        BY <1>5, <3>3, <4>1, <4>3, <4>4 DEF Continues
    <3>6. Stands(s, str[s])' /\ InCluster(s, str[s])'
      BY <2>6, <3>2, <3>3, <3>4, <3>5 DEF Stands, InCluster
    <3>7. Sought(s)'
      BY <3>1, <3>6 DEF Sought, Crossing
    <3> QED
      BY <1>0, <1>2, <3>1, <3>3, <3>7, SearchStep
  <2> QED
    BY <2>5, <2>6
<1> QED
  BY <1>6, <1>7

LEMMA SearchCurrBlock ==
  ASSUME MFAssumption, MFInv, MFInv', SearchInv, CurrBlockInit \/ CurrBlockFinal
  PROVE  SearchInv'
<1>0. ParsedInv
  BY DEF MFInv, Consistent
<1>1. CASE CurrBlockInit
  <2>1. PlayStep("currInit") /\ "currInit" \in CurrStates /\ "currInit" \in FrontStates
        /\ UNCHANGED <<pCurr, pNext>> /\ "currInit" \notin NextStates
    BY <1>1 DEF CurrBlockInit, CurrStates, FrontStates, NextStates, curs
  <2>2. pCurr \in Clusters
    BY <2>1, PlaySought
  <2> DEFINE n == IF Complete(pCurr) THEN parsed[pCurr] ELSE parsed[pCurr] + 1
  <2>3. CASE ParseTo(pCurr, n) /\ GetCurrBlockObject(n)
    <3>1. n \in Int /\ parsed[pCurr] <= n /\ n <= Size(pCurr)
      BY <1>0, <2>2, FileTypes DEF ParsedInv, Complete
    <3> HIDE DEF n
    <3>2. /\ \A d \in Clusters : parsed'[d] \in -1 .. Size(d)
          /\ Grows /\ parsed'[pCurr] = n
      BY <1>0, <2>2, <2>3, <3>1, ParseGrows
    <3>3. GetCurrBlockObject(parsed'[pCurr])
      BY <2>3, <3>2
    <3> QED
      BY <2>1, <3>2, <3>3, SearchCurrFound
  <2>4. CASE Pending("currFinal", pCurr) /\ UNCHANGED <<parsed, str>>
    <3>1. at' = "read" /\ astate' \notin NextStates /\ str' = str /\ Grows
      BY <2>4, SameParsed DEF Pending, Go, NextStates
    <3> QED
      BY <2>1, <3>1, PlayedUntouched
  <2>5. CASE Dies(TRUE)
    BY <2>5, SearchEnds DEF Dies, Go
  <2> QED
    BY <1>1, <2>3, <2>4, <2>5 DEF CurrBlockInit
<1>2. CASE CurrBlockFinal
  <2>1. /\ PlayStep("currFinal") /\ "currFinal" \in CurrStates
        /\ UNCHANGED <<pCurr, pNext, parsed>> /\ GetCurrBlockObject(parsed'[pCurr])
    BY <1>2 DEF CurrBlockFinal, CurrStates, curs
  <2>2. (\A d \in Clusters : parsed'[d] \in -1 .. Size(d)) /\ Grows
    BY <1>0, <2>1, SameParsed DEF ParsedInv
  <2> QED
    BY <2>1, <2>2, SearchCurrFound
<1> QED
  BY <1>1, <1>2

(* The cluster that follows is found, or the end of the file.              *)
LEMMA SearchNextInit ==
  ASSUME MFAssumption, MFInv, MFInv', SearchInv, NextInit
  PROVE  SearchInv'
<1>0. ParsedInv
  BY DEF MFInv, Consistent
<1> DEFINE d == pCurr + 1
<1>1. PICK s : s = Head(requests)
  OBVIOUS
<1>2. /\ PlayStep("nextInit") /\ "nextInit" \in FrontStates /\ UNCHANGED <<pCurr, str>>
      /\ \/ /\ pNext' = (IF d > Len(File) THEN 0 ELSE d) /\ Again("nextNotify")
            /\ IF d > Len(File) \/ parsed[d] >= 0 THEN UNCHANGED parsed ELSE ParseTo(d, 0)
         \/ Pending("nextInit", d) /\ UNCHANGED <<parsed, pNext>>
         \/ Dies(TRUE)
  BY DEF NextInit, FrontStates, NextStates
<1>3. /\ UNCHANGED <<shutdown, first, requests>>
      /\ at = "read" /\ astate = "nextInit" /\ Alive /\ s \in Streams
      /\ Waits(str[s]) /\ pCurr \in Clusters
      /\ Crossing(s) /\ (str[s].sel = 1 => Sought(s))
  BY <1>1, <1>2, PlaySought DEF NextStates
<1>4. Len(File) \in Nat /\ pCurr \in 1 .. Len(File) /\ Clusters = 1 .. Len(File)
  BY <1>3, FileTypes
<1>5. CASE /\ pNext' = (IF d > Len(File) THEN 0 ELSE d) /\ Again("nextNotify")
           /\ IF d > Len(File) \/ parsed[d] >= 0 THEN UNCHANGED parsed ELSE ParseTo(d, 0)
  <2>1. at' = "read" /\ astate' = "nextNotify"
    BY <1>5 DEF Again, Loop, Go
  <2>2. /\ pNext' = 0 => pCurr + 1 = Len(File) + 1
        /\ pNext' # 0 => pCurr + 1 = pNext'
    BY <1>4, <1>5
  <2>3. Grows
    <3>1. CASE UNCHANGED parsed
      BY <3>1, SameParsed
    <3>2. CASE ParseTo(d, 0) /\ ~(d > Len(File)) /\ ~(parsed[d] >= 0)
      <4>1. d \in Clusters
        BY <1>4, <3>2
      <4>2. parsed[d] \in Int /\ parsed[d] <= 0 /\ 0 <= Size(d) /\ 0 \in Int
        BY <1>0, <3>2, <4>1, FileTypes DEF ParsedInv
      <4> QED
        BY <1>0, <3>2, <4>1, <4>2, ParseGrows
    <3> QED
      BY <1>5, <3>1, <3>2
  <2>4. ASSUME str[s].sel = 1 PROVE Sought(s)'
    <3>1. Stands(s, str[s]) /\ Crossed(s, str[s]) /\ str[s].nidx = 1
      BY <1>3, <2>4 DEF Sought, Waits
    <3>2. Gathered(s, str[s].curr, <<pCurr + 1, 1>>, str[s].group) /\ str[s].curr[1] <= pCurr
      BY <1>3, <3>1 DEF Crossed
    <3>3. Gathered(s, str[s].curr, IF pNext' = 0 THEN EndOfFile ELSE <<pNext', str[s].nidx>>, str[s].group)
      <4>1. CASE pNext' = 0
        BY <2>2, <3>2, <4>1 DEF EndOfFile
      <4>2. CASE pNext' # 0
        BY <2>2, <3>1, <3>2, <4>2
      <4> QED
        BY <4>1, <4>2
    <3>4. Crossed(s, str[s])'
      BY <1>2, <2>1, <3>2, <3>3 DEF Crossed
    <3>5. Stands(s, str[s])'
      BY <1>2, <1>3, <3>1 DEF Stands, Continues
    <3>6. Crossing(s)'
      BY <1>1, <1>3, <2>1 DEF Crossing, NextStates
    <3> QED
      BY <3>4, <3>5, <3>6 DEF Sought
  <2> QED
    BY <1>1, <1>2, <1>3, <2>3, <2>4, SearchStep
<1>6. CASE Pending("nextInit", d) /\ UNCHANGED <<parsed, pNext>>
  <2>1. at' = "read" /\ UNCHANGED <<astate, pCurr, pNext, str>>
    BY <1>2, <1>3, <1>6 DEF Pending, Go
  <2> QED
    BY <1>2, <1>6, <2>1, SameParsed, PlayedUntouched
<1>7. CASE Dies(TRUE)
  BY <1>7, SearchEnds DEF Dies, Go
<1> QED
  BY <1>2, <1>5, <1>6, <1>7

LEMMA SearchNextParse ==
  ASSUME MFAssumption, MFInv, MFInv', SearchInv, NextParse
  PROVE  SearchInv'
<1>0. ParsedInv
  BY DEF MFInv, Consistent
<1>1. PICK s : s = Head(requests)
  OBVIOUS
<1>2. /\ PlayStep("nextParse") /\ "nextParse" \in FrontStates /\ UNCHANGED <<pCurr, pNext, str>>
      /\ \/ ParseTo(pNext, parsed[pNext] + 1) /\ Again("nextNotify")
         \/ Pending("nextParse", pNext) /\ UNCHANGED parsed
         \/ Dies(TRUE)
  BY DEF NextParse, FrontStates, NextStates, curs
<1>3. /\ UNCHANGED <<shutdown, first, requests>>
      /\ at = "read" /\ astate = "nextParse" /\ Alive /\ s \in Streams
      /\ Following /\ Crossing(s) /\ (str[s].sel = 1 => Sought(s))
  BY <1>1, <1>2, PlaySought DEF NextStates
<1>4. CASE ParseTo(pNext, parsed[pNext] + 1) /\ Again("nextNotify")
  <2>1. at' = "read" /\ astate' = "nextNotify"
    BY <1>4 DEF Again, Loop, Go
  <2>2. Grows
    <3>1. pNext \in Clusters /\ ~Complete(pNext)
      BY <1>3 DEF Following
    <3>2. parsed[pNext] + 1 \in Int /\ parsed[pNext] <= parsed[pNext] + 1
          /\ parsed[pNext] + 1 <= Size(pNext)
      BY <1>0, <3>1, FileTypes DEF ParsedInv, Complete
    <3> QED
      BY <1>0, <1>4, <3>1, <3>2, ParseGrows
  <2>3. ASSUME str[s].sel = 1 PROVE Sought(s)'
    <3>1. Stands(s, str[s]) /\ Crossed(s, str[s])
      BY <1>3, <2>3 DEF Sought
    <3>2. Crossed(s, str[s])'
      BY <1>2, <1>3, <2>1, <3>1 DEF Crossed
    <3>3. Stands(s, str[s])'
      BY <1>2, <1>3, <3>1 DEF Stands, Continues
    <3>4. Crossing(s)'
      BY <1>1, <1>3, <2>1 DEF Crossing, NextStates
    <3> QED
      BY <3>2, <3>3, <3>4 DEF Sought
  <2> QED
    BY <1>1, <1>2, <1>3, <2>2, <2>3, SearchStep
<1>5. CASE Pending("nextParse", pNext) /\ UNCHANGED parsed
  <2>1. at' = "read" /\ UNCHANGED <<astate, pCurr, pNext, str>>
    BY <1>2, <1>3, <1>5 DEF Pending, Go
  <2> QED
    BY <1>2, <1>5, <2>1, SameParsed, PlayedUntouched
<1>6. CASE Dies(TRUE)
  BY <1>6, SearchEnds DEF Dies, Go
<1> QED
  BY <1>2, <1>4, <1>5, <1>6

(* The cluster that follows is searched as far as it has been parsed.      *)
LEMMA SearchNextNotify ==
  ASSUME MFAssumption, MFInv, MFInv', SearchInv, NextNotify
  PROVE  SearchInv'
<1>0. ParsedInv /\ StreamsInv
  BY DEF MFInv, Consistent
<1>1. PICK s : s = Head(requests)
  OBVIOUS
<1> DEFINE t == str[s]
           u == NotifyNext(s, t)
<1>2. /\ PlayStep("nextNotify") /\ "nextNotify" \in FrontStates /\ UNCHANGED <<parsed, pNext>>
  BY DEF NextNotify, FrontStates, NextStates
<1>3. /\ UNCHANGED <<shutdown, first, requests>>
      /\ at = "read" /\ astate = "nextNotify" /\ Alive /\ s \in Streams
      /\ Following /\ Waits(t) /\ pCurr \in Clusters /\ StreamOK(s, t)
      /\ Crossing(s) /\ (t.sel = 1 => Sought(s))
  BY <1>1, <1>2, PlaySought DEF NextStates
<1>4. requests # <<>>
  BY <1>2, PlayFacts DEF MFInv
<1>5. IF t.curr = NoBlock THEN at' = "crashed"
      ELSE /\ str' = [str EXCEPT ![s] = u]
           /\ IF u.next # NoBlock THEN at' = "request" /\ UNCHANGED pCurr
              ELSE IF Complete(pNext) THEN at' = "read" /\ astate' = "nextInit" /\ pCurr' = pNext
                   ELSE at' = "read" /\ astate' = "nextParse" /\ UNCHANGED pCurr
  BY <1>1, <1>4 DEF NextNotify, Back, Again, Loop, Go
<1>6. /\ pNext # 0 => /\ pNext \in Clusters /\ parsed[pNext] \in Nat /\ parsed[pNext] <= Size(pNext)
                      /\ pNext = pCurr + 1 /\ pCurr \in Nat /\ Size(pNext) \in Nat
      /\ parsed' = parsed /\ pNext' = pNext
  <2>1. /\ pNext = (IF pCurr = Len(File) THEN 0 ELSE pCurr + 1)
        /\ pNext # 0 => parsed[pNext] >= 0
    BY <1>3 DEF Following
  <2>2. pNext \in 0 .. Len(File) /\ pCurr \in 0 .. Len(File)
    BY <1>0 DEF ParsedInv
  <2>3. pNext # 0 => pNext \in Clusters
    BY <2>2, FileTypes
  <2>4. pNext # 0 => parsed[pNext] \in -1 .. Size(pNext) /\ Size(pNext) \in Nat
    BY <1>0, <2>3, FileTypes DEF ParsedInv
  <2> QED
    BY <1>2, <2>1, <2>2, <2>3, <2>4, FileTypes
<1>9. t = str[s] /\ u = NotifyNext(s, t)
  OBVIOUS
<1>7. CASE t.curr = NoBlock
  BY <1>5, <1>7, SearchEnds
<1>8. CASE t.curr # NoBlock
  <2>1. t.sel = 1 /\ IsBlock(t.curr) /\ t.nidx # 0 /\ t.next = NoBlock
        /\ (pNext # 0 => t.nidx <= parsed[pNext] + 1)
    BY <1>3, <1>8 DEF Waits, StreamOK, CurrStates, NextStates
  <2>2. Stands(s, t) /\ Crossed(s, t)
    BY <1>3, <2>1 DEF Sought
  <2>3. t.curr[1] <= pCurr
        /\ Gathered(s, t.curr, IF pNext = 0 THEN EndOfFile ELSE <<pNext, t.nidx>>, t.group)
    BY <1>3, <2>2 DEF Crossed
  <2>4. str'[s] = u /\ \A x \in Streams : x # s => str'[x] = str[x]
    BY <1>0, <1>3, <1>5, <1>8 DEF StreamsInv
  <2>5. Grows
    BY <1>6, SameParsed
  <2>6. t.curr[1] \in Nat /\ t.curr[2] \in Nat
    BY <1>3 DEF StreamOK, StreamState
  <2>7. IsBlock(t.curr) => Continues(s, t)
    BY <2>2 DEF Stands
  <2> HIDE DEF t, u
  <2>8. ASSUME Alike(t, u) PROVE Continues(s, str[s])' /\ str'[s].curr # NoBlock
    <3>1. u.curr = t.curr /\ u.cpos = t.cpos /\ u.got = t.got
      BY <2>8 DEF Alike
    <3> QED
      BY <1>3, <1>8, <2>1, <2>4, <2>7, <3>1 DEF Continues
  <2>9. ASSUME Alike(t, u), u.nidx # 0, u.next # NoBlock, Gathered(s, t.curr, EndAt(u.next), u.group)
        PROVE  SearchInv'
    <3>1. at' = "request"
      BY <1>5, <1>8, <2>9
    <3>2. u.curr = t.curr
      BY <2>9 DEF Alike
    <3>3. Continues(s, str[s])' /\ str'[s].curr # NoBlock
      BY <2>8, <2>9
    <3>4. IsBlock(str'[s].curr)
      BY <2>1, <2>4, <3>2
    <3>5. Stands(s, str[s])'
      BY <2>4, <2>9, <3>2, <3>3, <3>4 DEF Stands
    <3>6. InCluster(s, str[s])'
      BY <2>4, <2>9 DEF InCluster
    <3>7. Sought(s)'
      BY <3>1, <3>5, <3>6 DEF Sought, Crossing
    <3> QED
      BY <1>1, <1>3, <2>4, <2>5, <3>1, <3>7, SearchStep
  <2>10. CASE pNext = 0
    <3>1. u = Found(t, EndBlock)
      BY <1>9, <2>10 DEF NotifyNext
    <3>2. Alike(t, u) /\ u.next = EndBlock /\ u.nidx = t.nidx /\ u.group = t.group
      BY <1>3, <3>1, FoundEnd
    <3>3. Gathered(s, t.curr, EndAt(u.next), u.group)
      BY <2>3, <2>10, <3>2 DEF EndAt
    <3> QED
      BY <2>1, <2>9, <3>2, <3>3, NoBlockTypes
  <2>11. CASE pNext # 0
    <3> DEFINE n == parsed[pNext]
    <3>1. u = Scan(s, t, pNext, n)
      BY <1>9, <2>11 DEF NotifyNext
    <3>2. pNext \in Clusters /\ n \in Nat /\ n \in Int /\ n <= Size(pNext) /\ t.nidx <= n + 1
      BY <1>6, <2>1, <2>11
    <3>0. n = parsed[pNext]
      OBVIOUS
    <3> HIDE DEF n
    <3>3. /\ StreamOK(s, u) /\ Alike(t, u) /\ u.nidx # 0
          /\ NotFound(s, t, pNext, n, u) \/ \E i \in t.nidx .. n : FoundAt(s, t, pNext, n, u, i)
      BY <1>3, <2>1, <3>1, <3>2, ScanIs
    <3>4. t.curr[1] < pNext /\ Gathered(s, t.curr, <<pNext, t.nidx>>, t.group)
      BY <1>6, <2>3, <2>6, <2>11
    <3>5. /\ NotFound(s, t, pNext, n, u) => Gathered(s, t.curr, <<pNext, n + 1>>, u.group)
          /\ \A i \in t.nidx .. n : FoundAt(s, t, pNext, n, u, i) =>
               Gathered(s, t.curr, EndAt(u.next), u.group) /\ u.next # NoBlock
      BY <1>3, <2>1, <3>2, <3>4, SearchedOn
    <3>6. ASSUME NEW i \in t.nidx .. n, FoundAt(s, t, pNext, n, u, i) PROVE SearchInv'
      BY <2>9, <3>3, <3>5, <3>6
    <3>7. CASE NotFound(s, t, pNext, n, u)
      <4>1. u.next = NoBlock /\ u.nidx = (IF n = Size(pNext) THEN 1 ELSE n + 1)
        BY <2>1, <3>7 DEF NotFound
      <4>2. u.curr = t.curr
        BY <3>3 DEF Alike
      <4>3. Continues(s, str[s])' /\ str'[s].curr # NoBlock
        BY <2>8, <3>3
      <4>4. IsBlock(str'[s].curr)
        BY <2>1, <2>4, <4>2
      <4>5. Stands(s, str[s])'
        BY <2>4, <3>3, <4>1, <4>3, <4>4 DEF Stands
      <4>6. Gathered(s, t.curr, <<pNext, n + 1>>, u.group)
        BY <3>5, <3>7
      <4>7. Crossed(s, str[s])'
        <5>1. CASE Complete(pNext)
          <6>1. astate' = "nextInit" /\ pCurr' = pNext /\ n = Size(pNext)
            BY <1>5, <1>8, <3>0, <4>1, <5>1 DEF Complete
          <6>2. Gathered(s, t.curr, <<pNext + 1, 1>>, u.group)
            BY <3>2, <4>6, <6>1, GatherCross
          <6>3. t.curr[1] <= pNext
            BY <1>6, <2>3, <2>6, <2>11
          <6> QED
            BY <2>4, <4>2, <6>1, <6>2, <6>3 DEF Crossed
        <5>2. CASE ~Complete(pNext)
          <6>1. astate' = "nextParse" /\ pCurr' = pCurr /\ n # Size(pNext) /\ pNext' = pNext
            BY <1>2, <1>5, <1>8, <3>0, <4>1, <5>2 DEF Complete
          <6>2. u.nidx = n + 1
            BY <4>1, <6>1
          <6>3. Gathered(s, u.curr, <<pNext, u.nidx>>, u.group)
            BY <4>2, <4>6, <6>2
          <6> QED
            BY <2>3, <2>4, <2>11, <4>2, <6>1, <6>3 DEF Crossed
        <5> QED
          BY <5>1, <5>2
      <4>8. at' = "read" /\ astate' \in NextStates
        BY <1>5, <1>8, <4>1 DEF NextStates
      <4>9. Crossing(s)'
        BY <1>1, <1>3, <4>8 DEF Crossing
      <4>10. Sought(s)'
        BY <4>5, <4>7, <4>9 DEF Sought
      <4> QED
        BY <1>1, <1>3, <2>4, <2>5, <4>10, SearchStep
    <3> QED
      BY <3>3, <3>6, <3>7
  <2> QED
    BY <2>10, <2>11
<1> QED
  BY <1>7, <1>8

LEMMA SearchPlay ==
  ASSUME MFAssumption, MFInv, MFInv', SearchInv, Play
  PROVE  SearchInv'
<1>1. CASE BytesAreHere
  BY <1>1, SearchBytes
<1>2. CASE LockCurr \/ GetSampleExtent
  BY <1>2, SearchOnFront
<1>3. CASE CurrBlockInit \/ CurrBlockFinal
  BY <1>3, SearchCurrBlock
<1>4. CASE NextInit
  BY <1>4, SearchNextInit
<1>5. CASE NextNotify
  BY <1>5, SearchNextNotify
<1>6. CASE NextParse
  BY <1>6, SearchNextParse
<1> QED
  BY <1>1, <1>2, <1>3, <1>4, <1>5, <1>6 DEF Play

LEMMA SearchOutside ==
  ASSUME MFAssumption, MFInv, MFInv', SearchInv, Handler \/ Pipeline
  PROVE  SearchInv'
<1>1. /\ UNCHANGED <<parsed, first, pCurr, pNext, interrupt, at, astate>>
      /\ requests' = requests \/ \E s \in Streams : requests' = Append(requests, s)
      /\ (str' = str /\ shutdown' = shutdown) \/ shutdown'
  BY OutsideFacts
<1>2. CASE shutdown'
  BY <1>2 DEF SearchInv, Alive
<1>3. CASE str' = str /\ shutdown' = shutdown /\ ~shutdown
  <2>1. requests \in Seq(Streams)
    BY DEF MFInv, Consistent, QueueInv
  <2>2. requests # <<>> => Head(requests') = Head(requests)
    BY <1>1, <2>1, HeadAppend
  <2>3. at = "read" /\ astate \in NextStates => requests # <<>>
    BY <1>3 DEF MFInv, Consistent, FrontInv, FrontStates
  <2>4. \A s \in Streams : Crossing(s)' <=> Crossing(s)
    BY <1>1, <2>2, <2>3 DEF Crossing
  <2>5. Alive' => Alive
    BY <1>1, <1>3 DEF Alive
  <2>6. \A s \in Streams : str'[s].sel = str[s].sel /\ SameSearch(str[s], str'[s])
    BY <1>3 DEF SameSearch
  <2>7. Grows
    BY <1>1, SameParsed
  <2> QED
    BY <1>1, <2>4, <2>5, <2>6, <2>7, SearchKept
<1> QED
  BY <1>1, <1>2, <1>3

(* Only a read that runs ahead of the requests can be cancelled by one.    *)
LEMMA SearchMoves ==
  ASSUME MFAssumption, MFInv, MFInv', SearchInv,
         ReadDone \/ Wake \/ Quits \/ RequestArrives \/ CancelDone \/ OnAsyncRead \/ TurnEnds
  PROVE  SearchInv'
<1>1. /\ UNCHANGED <<parsed, first, str, shutdown, pCurr, pNext, interrupt>>
      /\ requests' = requests \/ at' = "quit"
      /\ at' = "crashed" => at = "crashed"
      /\ at' = "read" => at = "read" /\ astate' = astate
      /\ at' = "cancel" => at = "cancel" \/ (at = "read" /\ interrupt)
      /\ at' = "request" => at \in {"cancel", "request"} \/ shutdown
  BY MovesFacts
<1> SUFFICES ASSUME Alive' PROVE SearchInv'
  BY DEF SearchInv
<1>2. ~shutdown /\ Alive /\ requests' = requests /\ at' \in {"read", "cancel", "request"}
  BY <1>1 DEF Alive
<1>3. at = "read" /\ astate \in NextStates => ~interrupt
  BY <1>2 DEF MFInv, Consistent, FrontInv, FrontStates
<1>4. \A s \in Streams : /\ Crossing(s)' <=> Crossing(s)
                         /\ Crossing(s) => UNCHANGED <<astate, pCurr, pNext>>
  BY <1>1, <1>2, <1>3 DEF Crossing
<1>5. \A s \in Streams : str'[s].sel = str[s].sel /\ SameSearch(str[s], str'[s])
  BY <1>1 DEF SameSearch
<1>6. Grows
  BY <1>1, SameParsed
<1> QED
  BY <1>1, <1>2, <1>4, <1>5, <1>6, SearchKept

(* The worker parses ahead.                                                *)
LEMMA SearchTurnIdle ==
  ASSUME MFAssumption, MFInv, MFInv', SearchInv, TurnIdle
  PROVE  SearchInv'
<1>0. ParsedInv /\ StreamsInv
  BY DEF MFInv, Consistent
<1>1. UNCHANGED <<shutdown, first, str>> /\ at = "request" /\ ~shutdown
  BY DEF TurnIdle, Idle, Turn, api, load
<1>2. /\ at' = "read" => astate' = "request"
      /\ parsed' = parsed \/ /\ Furthest # 0
                             /\ \E e : e \in Clusters /\ ~Complete(e)
                                       /\ ParseTo(e, parsed[e] + (IF parsed[e] < 0 THEN 2 ELSE 1))
  BY DEF TurnIdle, ParseAhead, Go, Pending, Dies, disk
<1>3. Grows
  <2>1. CASE parsed' = parsed
    BY <2>1, SameParsed
  <2>2. ASSUME NEW e \in Clusters, ~Complete(e),
               ParseTo(e, parsed[e] + (IF parsed[e] < 0 THEN 2 ELSE 1))
        PROVE  Grows
    <3> DEFINE n == parsed[e] + (IF parsed[e] < 0 THEN 2 ELSE 1)
    <3>1. parsed[e] \in -1 .. Size(e) /\ Size(e) \in Nat \ {0} /\ parsed[e] # Size(e)
      BY <1>0, <2>2, FileTypes DEF ParsedInv, Complete
    <3>2. n \in Int /\ parsed[e] <= n /\ n <= Size(e)
      BY <3>1
    <3>3. ParseTo(e, n)
      BY <2>2
    <3> HIDE DEF n
    <3> QED
      BY <1>0, <3>2, <3>3, ParseGrows
  <2> QED
    BY <1>2, <2>1, <2>2
<1>4. Alive /\ \A s \in Streams : ~Crossing(s) /\ ~Crossing(s)'
  BY <1>1, <1>2 DEF Alive, Crossing, NextStates
<1>5. \A s \in Streams : str'[s].sel = str[s].sel /\ SameSearch(str[s], str'[s])
  BY <1>1 DEF SameSearch
<1> QED
  BY <1>1, <1>3, <1>4, <1>5, SearchKept

(* While the source is loaded no stream is selected.                       *)
LEMMA LoadTouchesNone ==
  ASSUME Load
  PROVE  UNCHANGED <<str, shutdown>> /\ at = "read" /\ astate \in LoadStates
BY DEF Load, ParseEbmlHeader, ParseSegmentHeaders, ParseCues, LoadCluster, ParseCluster,
       InitStreams, LoadStep, Ready, LoadStates

LEMMA SearchLoad ==
  ASSUME MFInv, Load
  PROVE  SearchInv'
<1>1. UNCHANGED <<str, shutdown>> /\ at = "read" /\ astate \in LoadStates
  BY LoadTouchesNone
<1>2. creation \in Early /\ ~shutdown
  BY <1>1 DEF MFInv, ControlInv, ControlTypes, Early, LoadStates, PlayStates, FrontStates,
              CurrStates, NextStates
<1>3. /\ Len(commands) = 1 /\ commands[1].kind = "stop" /\ commands[1].kind # "pause"
      /\ QueueOK(commands, Selected)
  BY <1>2 DEF MFInv, Consistent, QueueInv, NothingAsked
<1>4. Selected = commands[1].desc /\ commands[1].desc = {}
  BY <1>3 DEF QueueOK
<1>5. \A s \in Streams : str'[s].sel # 1
  BY <1>1, <1>4 DEF Selected
<1> QED
  BY <1>5 DEF SearchInv

-----------------------------------------------------------------------------
(* A stream that has just been placed, no search has begun for.            *)
LEMMA PlacedSought ==
  ASSUME NEW s \in Streams, Unsearched(str'[s]), ~Crossing(s)',
         \/ str'[s].curr = first'[s] /\ str'[s].cpos = 0
         \/ str'[s].curr = NoBlock /\ str'[s].cpos # 0
  PROVE  Sought(s)'
<1>1. str'[s].next = NoBlock /\ str'[s].nidx = 0 /\ str'[s].got = <<>>
  BY DEF Unsearched
<1>2. IsBlock(str'[s].curr) => str'[s].curr = first'[s] /\ str'[s].cpos = 0
  BY NoBlockTypes
<1>3. Stands(s, str[s])'
  BY <1>1, <1>2 DEF Stands, Continues
<1>4. InCluster(s, str[s])'
  BY <1>1 DEF InCluster
<1> QED
  BY <1>3, <1>4 DEF Sought

LEMMA SearchCommands ==
  ASSUME MFAssumption, MFInv, MFInv', SearchInv, CommandArrives \/ TurnToCommand
  PROVE  SearchInv'
<1>0. QueueInv /\ StreamsInv /\ ParsedInv /\ PlacesParsed /\ FrontInv
  BY DEF MFInv, Consistent
<1>1. /\ OnCommand /\ UNCHANGED <<parsed, first, shutdown, pCurr, pNext, astate>>
      /\ \/ at' = "cancel" /\ at = "cancel"
         \/ at' = "cancel" /\ at = "read" /\ Cancels
         \/ at' = "request" /\ at = "request"
         \/ at = "read" /\ at' = "read" /\ ~Cancels
  BY DEF CommandArrives, TurnToCommand, Turn, api, disk, load, curs, Go
<1>2. Grows
  BY <1>1, SameParsed
<1> SUFFICES ASSUME ~shutdown PROVE SearchInv'
  BY <1>1 DEF SearchInv, Alive
<1>3. Alive
  BY <1>1 DEF Alive
<1>4. CASE ~(Len(commands) > 1)
  <2>1. str' = str /\ requests' = requests /\ ~Cancels
    BY <1>0, <1>1, <1>4 DEF OnCommand, Cancels, QueueInv
  <2>2. \A s \in Streams : str'[s].sel = str[s].sel /\ SameSearch(str[s], str'[s])
    BY <2>1 DEF SameSearch
  <2>3. \A s \in Streams : Crossing(s)' <=> Crossing(s)
    BY <1>1, <2>1 DEF Crossing
  <2> QED
    BY <1>1, <1>2, <1>3, <2>2, <2>3, SearchKept
<1>5. CASE Len(commands) > 1
  <2> DEFINE c == commands[2]
  <2>1. ASSUME NEW s \in Streams
        PROVE  /\ c \in CommandSet /\ (c.kind = "stop" => c.desc = {})
               /\ c.kind # "pause" => (str'[s].sel = 1 <=> s \in c.desc)
               /\ c.kind \in {"start", "seek"} /\ str'[s].sel = 1 =>
                    /\ Unsearched(str'[s])
                    /\ \/ str'[s].curr = first[s] /\ str'[s].cpos = 0
                       \/ str'[s].curr = NoBlock /\ str'[s].cpos # 0
               /\ c.kind = "restart" /\ str'[s].sel = 1 => SamePlace(str[s], str'[s]) /\ str[s].sel = 1
               /\ c.kind = "pause" => str'[s] = str[s]
    BY <1>0, <1>1, <1>5, CommandStreams
  <2>2. Cancels <=> c.kind \in {"start", "seek", "stop"}
    BY <1>5 DEF Cancels
  <2>3. c.kind # "stop" => requests' = requests
    BY <1>1, <1>5 DEF OnCommand
  <2> HIDE DEF c
  <2> SUFFICES ASSUME Alive', NEW s \in Streams, str'[s].sel = 1 PROVE Sought(s)'
    BY DEF SearchInv
  <2>4. c.kind \in {"start", "seek", "restart", "pause"}
    BY <2>1 DEF CommandSet
  <2>5. CASE c.kind \in {"start", "seek"}
    <3>1. ~Crossing(s)'
      BY <1>1, <2>2, <2>5 DEF Crossing
    <3>2. Unsearched(str'[s]) /\ (\/ str'[s].curr = first'[s] /\ str'[s].cpos = 0
                                  \/ str'[s].curr = NoBlock /\ str'[s].cpos # 0)
      BY <1>1, <2>1, <2>5
    <3> QED
      BY <3>1, <3>2, PlacedSought
  <2>6. CASE c.kind \in {"restart", "pause"}
    <3>1. SameSearch(str[s], str'[s]) /\ str[s].sel = 1
      BY <2>1, <2>6 DEF SamePlace, SameSearch
    <3>2. Crossing(s)' <=> Crossing(s)
      BY <1>1, <2>2, <2>3, <2>6 DEF Crossing
    <3>3. Sought(s)
      BY <1>3, <3>1 DEF SearchInv
    <3> QED
      BY <1>1, <1>2, <3>1, <3>2, <3>3, SoughtKept
  <2> QED
    BY <2>4, <2>5, <2>6
<1> QED
  BY <1>4, <1>5

-----------------------------------------------------------------------------
LEMMA SearchNext ==
  ASSUME MFAssumption, MFInv, SearchInv, [MFNext]_mvars
  PROVE  SearchInv'
<1>1. CASE UNCHANGED mvars
  <2>1. UNCHANGED <<at, shutdown, astate, requests, str, first, parsed, pCurr, pNext>>
    BY <1>1 DEF mvars, api, disk, load, curs
  <2>2. \A s \in Streams : (Sought(s) <=> Sought(s)')
    BY <2>1 DEF Sought, Stands, Continues, Crossing, Crossed, InCluster
  <2> QED
    BY <2>1, <2>2 DEF SearchInv, Alive
<1>2. CASE MFNext
  <2>1. MFInv'
    BY <1>2, NextKeeps
  <2> QED
    BY <1>2, <2>1, SearchOutside, SearchMoves, SearchTurnIdle, SearchLoad, SearchCommands,
       SearchServe, SearchPlay DEF MFNext, Worker
<1> QED
  BY <1>1, <1>2

LEMMA SearchInit ==
  ASSUME MFInit
  PROVE  SearchInv
<1>1. \A s \in Streams : str[s].sel # 1
  BY DEF MFInit, Fresh
<1> QED
  BY <1>1 DEF SearchInv

(* No other step makes a sample: got is emptied, or kept.                  *)
LEMMA ScanGot ==
  ASSUME NEW s, NEW t, NEW c, NEW n, "got" \in DOMAIN t
  PROVE  /\ "got" \in DOMAIN Scan(s, t, c, n) /\ Scan(s, t, c, n).got = t.got
<1> DEFINE hits == {i \in t.nidx .. n : Follows(s, t.curr, <<c, i>>)}
           stop == IF hits = {} THEN n + 1 ELSE Least(hits)
           g == t.group \o BlocksOf(s, c, t.nidx, stop - 1)
           m == IF hits = {} /\ n = Size(c) THEN 1 ELSE stop
           u == [t EXCEPT !.group = g, !.nidx = m]
<1>1. Scan(s, t, c, n) = IF hits = {} THEN u ELSE Found(u, <<c, stop>>)
  BY DEF Scan
<1> HIDE DEF hits, stop, g, m
<1>2. "got" \in DOMAIN u /\ u.got = t.got
  OBVIOUS
<1> HIDE DEF u
<1>3. \A b : "got" \in DOMAIN Found(u, b) /\ Found(u, b).got = u.got
  BY <1>2 DEF Found
<1> QED
  BY <1>1, <1>2, <1>3

LEMMA BegunGot ==
  ASSUME NEW s, NEW t, "got" \in DOMAIN t
  PROVE  "got" \in DOMAIN Begun(s, t) /\ Begun(s, t).got = t.got
BY DEF Begun

LEMMA KnownGot ==
  ASSUME NEW s, "got" \in DOMAIN str[s]
  PROVE  "got" \in DOMAIN Known(s) /\ Known(s).got = str[s].got
<1>1. "got" \in DOMAIN Begun(s, str[s]) /\ Begun(s, str[s]).got = str[s].got
  BY BegunGot
<1> DEFINE t == Begun(s, str[s])
<1>2. Known(s) = IF str[s].next # NoBlock THEN str[s] ELSE Scan(s, t, t.curr[1], Size(t.curr[1]))
  BY DEF Known
<1> HIDE DEF t
<1>3. "got" \in DOMAIN t /\ t.got = str[s].got
  BY <1>1 DEF t
<1> QED
  BY <1>2, <1>3, ScanGot

LEMMA CommandedGot ==
  ASSUME NEW c \in CommandSet, NEW s, NEW t, "got" \in DOMAIN t
  PROVE  Commanded(c, s, t).got \in {<<>>, t.got}
<1>1. \A b, d : /\ "got" \in DOMAIN SetCurrBlock(t, b, d) /\ SetCurrBlock(t, b, d).got = <<>>
  BY DEF SetCurrBlock
<1>2. "got" \in DOMAIN Deselect(t) /\ Deselect(t).got = t.got
  BY DEF Deselect
<1>3. StopStream(t).got = t.got
  BY DEF StopStream
<1>4. "got" \in DOMAIN StartStream(c, s, t) /\ StartStream(c, s, t).got \in {<<>>, t.got}
  BY <1>1, <1>2 DEF StartStream
<1>5. [StartStream(c, s, t) EXCEPT !.held = 0].got = StartStream(c, s, t).got
  BY <1>4
<1>6. RestartStream(c, s, t).got \in {<<>>, t.got}
  BY <1>1, <1>2 DEF RestartStream
<1> QED
  BY <1>3, <1>4, <1>5, <1>6 DEF Commanded, CommandSet

LEMMA ServeGot ==
  ASSUME StreamsInv, Serve, ~ServeSample, NEW x \in Streams
  PROVE  str'[x].got = str[x].got
<1>1. str \in [Streams -> StreamState] /\ \A s \in Streams : "got" \in DOMAIN str[s]
  BY DEF StreamsInv, StreamState
<1>2. ASSUME NEW s, NEW u, str' = [str EXCEPT ![s] = u], u.got = str[s].got
      PROVE  str'[x].got = str[x].got
  BY <1>1, <1>2
<1>3. CASE ServeUnselected \/ ServeUnplaced \/ ServeEnded
  BY <1>1, <1>3 DEF ServeUnselected, ServeUnplaced, ServeEnded
<1>4. CASE ServeShort
  <2>1. PICK s \in Streams :
          \/ str' = str
          \/ \E n : str' = [str EXCEPT ![s] = Scan(s, Begun(s, str[s]), Begun(s, str[s]).curr[1], n)]
    BY <1>4 DEF ServeShort
  <2>2. "got" \in DOMAIN Begun(s, str[s]) /\ Begun(s, str[s]).got = str[s].got
    BY <1>1, BegunGot
  <2>3. \A n : Scan(s, Begun(s, str[s]), Begun(s, str[s]).curr[1], n).got = str[s].got
    BY <2>2, ScanGot
  <2> QED
    BY <1>2, <2>1, <2>3
<1>5. CASE ServeNextCluster
  <2>1. PICK s \in Streams :
          \E c, n : str' = [str EXCEPT ![s] = Scan(s, Begun(s, str[s]), c, n)]
    BY <1>5 DEF ServeNextCluster
  <2>2. "got" \in DOMAIN Begun(s, str[s]) /\ Begun(s, str[s]).got = str[s].got
    BY <1>1, BegunGot
  <2>3. \A c, n : Scan(s, Begun(s, str[s]), c, n).got = str[s].got
    BY <2>2, ScanGot
  <2> QED
    BY <1>2, <2>1, <2>3
<1>6. CASE ServeBytes
  BY <1>1, <1>6, KnownGot DEF ServeBytes
<1> QED
  BY <1>3, <1>4, <1>5, <1>6 DEF Serve

LEMMA PlayGot ==
  ASSUME MFAssumption, MFInv, SearchInv, Play, NEW x \in Streams
  PROVE  str'[x].got = str[x].got
<1>1. str \in [Streams -> StreamState] /\ \A s \in Streams : "got" \in DOMAIN str[s]
  BY DEF MFInv, Consistent, StreamsInv, StreamState
<1>2. ASSUME NEW s, NEW u, str' = [str EXCEPT ![s] = u], u.got = str[s].got
      PROVE  str'[x].got = str[x].got
  BY <1>1, <1>2
<1>3. CASE BytesAreHere \/ NextInit \/ NextParse
  BY <1>3 DEF BytesAreHere, NextInit, NextParse
<1>4. ASSUME requests # <<>> PROVE Head(requests) \in Streams
  BY <1>4 DEF MFInv, Consistent, QueueInv
<1>5. CASE LockCurr
  BY <1>1, <1>2, <1>4, <1>5 DEF LockCurr, OnFront, LockCurrBlock
<1>6. CASE GetSampleExtent
  BY <1>1, <1>2, <1>4, <1>6 DEF GetSampleExtent, OnFront, ExtentDone
<1>7. CASE CurrBlockInit \/ CurrBlockFinal
  BY <1>1, <1>2, <1>4, <1>7 DEF CurrBlockInit, CurrBlockFinal, GetCurrBlockObject, SetCurrBlockObject
<1>8. CASE NextNotify
  <2> DEFINE s == Head(requests)
  <2>1. \/ str' = str
        \/ requests # <<>> /\ str' = [str EXCEPT ![s] = NotifyNext(s, str[s])]
    BY <1>8 DEF NextNotify
  <2>2. ASSUME requests # <<>> PROVE NotifyNext(s, str[s]).got = str[s].got
    <3>1. "got" \in DOMAIN str[s]
      BY <1>1, <1>4, <2>2
    <3> HIDE DEF s
    <3>2. \A c, n : Scan(s, str[s], c, n).got = str[s].got
      BY <3>1, ScanGot
    <3>3. Found(str[s], EndBlock).got = str[s].got
      BY <3>1 DEF Found
    <3> QED
      BY <3>2, <3>3 DEF NotifyNext
  <2> QED
    BY <1>2, <2>1, <2>2
<1> QED
  BY <1>3, <1>5, <1>6, <1>7, <1>8 DEF Play

LEMMA GotKept ==
  ASSUME MFAssumption, MFInv, SearchInv, [MFNext]_mvars, ~ServeSample, NEW s \in Streams
  PROVE  str'[s].got \in {<<>>, str[s].got}
<1>0. QueueInv /\ StreamsInv
  BY DEF MFInv, Consistent
<1>1. "got" \in DOMAIN str[s]
  BY <1>0 DEF StreamsInv, StreamState
<1>2. CASE str' = str
  BY <1>2
<1>3. CASE Handler \/ Pipeline
  <2>1. str' = str \/ str'[s] = ShutdownStream(str[s])
    BY <1>3, OutsideFacts
  <2>2. ShutdownStream(str[s]).got = str[s].got
    BY <1>1 DEF ShutdownStream
  <2> QED
    BY <2>1, <2>2
<1>4. CASE CommandArrives \/ TurnToCommand
  <2>1. OnCommand
    BY <1>4 DEF CommandArrives, TurnToCommand
  <2>2. str' = str \/ (~shutdown /\ Len(commands) > 1)
    BY <1>0, <2>1 DEF OnCommand, QueueInv
  <2>3. CASE ~shutdown /\ Len(commands) > 1
    <3>1. str'[s] = Commanded(commands[2], s, str[s]) /\ commands[2] \in CommandSet
      BY <1>0, <2>1, <2>3, CommandStreams
    <3> QED
      BY <1>1, <3>1, CommandedGot
  <2> QED
    BY <2>2, <2>3
<1>5. CASE Serve
  BY <1>0, <1>5, ServeGot
<1>6. CASE Play
  BY <1>6, PlayGot
<1>7. str' = str \/ Handler \/ Pipeline \/ CommandArrives \/ TurnToCommand \/ Serve \/ Play
  BY MovesFacts, LoadTouchesNone DEF MFNext, Worker, TurnIdle, mvars
<1> QED
  BY <1>2, <1>3, <1>4, <1>5, <1>6, <1>7

-----------------------------------------------------------------------------
(* The times between which a sample lies are the places it was gathered    *)
(* between.                                                                *)
LEMMA OwnPlace ==
  ASSUME MFAssumption, NEW s, NEW b \in Own(s)
  PROVE  b \in Blocks /\ b[1] \in Clusters /\ b[2] \in 0 .. Size(b[1])
<1>1. b \in Blocks /\ b[1] \in Clusters /\ b[2] \in 1 .. Size(b[1]) /\ Size(b[1]) \in Nat
  BY OwnTypes, BlockTypes
<1> QED
  BY <1>1

LEMMA LowerBound ==
  ASSUME MFAssumption, MFInv, NEW s \in Streams, Continues(s, str[s]), str[s].curr \in Own(s),
         NEW b \in Own(s)
  PROVE  TimeOf(b) > StartsAfter(s) <=> ~Precedes(b, str[s].curr)
<1> DEFINE t == str[s]
<1>1. b \in Blocks /\ b[1] \in Clusters /\ b[2] \in 0 .. Size(b[1]) /\ b[1] \in Nat /\ b[2] \in Nat
      /\ b[2] >= 1
  BY OwnPlace, OwnTypes
<1>2. t.curr \in Blocks /\ t.curr[1] \in Clusters /\ t.curr[2] \in 0 .. Size(t.curr[1])
      /\ t.curr[1] \in Nat /\ t.curr[2] \in Nat
  BY OwnPlace, OwnTypes
<1>3. CASE t.got # <<>>
  <2>1. Last(t.got) \in Own(s) /\ (Precedes(Last(t.got), b) <=> ~Precedes(b, t.curr))
    BY <1>3 DEF Continues
  <2>2. StartsAfter(s) = TimeOf(Last(t.got))
    BY <1>3 DEF StartsAfter
  <2> DEFINE l == Last(t.got)
  <2>3. l[1] \in Clusters /\ l[2] \in 0 .. Size(l[1])
    BY <2>1, OwnPlace
  <2> HIDE DEF l
  <2>4. TimeOf(l) \in Nat /\ TimeOf(b) \in Nat /\ (TimeOf(l) < TimeOf(b) <=> Precedes(l, b))
    BY <1>1, <2>3, TimeOrder
  <2>5. TimeOf(b) > TimeOf(l) <=> Precedes(l, b)
    BY <2>4
  <2> QED
    BY <2>1, <2>2, <2>5 DEF l
<1>4. CASE t.got = <<>> /\ t.cpos # 0
  <2> DEFINE e == <<t.cpos, 0>>
  <2>1. t.curr[1] = t.cpos /\ (b[1] = t.cpos => ~Precedes(b, t.curr))
    BY <1>4 DEF Continues
  <2>2. StartsAfter(s) = TimeOf(e)
    BY <1>4 DEF StartsAfter
  <2>3. e[1] = t.cpos /\ e[2] = 0 /\ e[1] \in Clusters /\ e[1] \in Nat
    BY <1>2, <2>1
  <2>4. e[2] \in 0 .. Size(e[1])
    BY <1>2, <2>1, <2>3, FileTypes
  <2> HIDE DEF e
  <2>5. TimeOf(e) \in Nat /\ TimeOf(b) \in Nat /\ (TimeOf(e) < TimeOf(b) <=> Precedes(e, b))
    BY <1>1, <2>3, <2>4, TimeOrder
  <2>6. Precedes(e, b) <=> t.cpos <= b[1]
    BY <1>1, <2>3 DEF Precedes
  <2>7. t.cpos <= b[1] <=> ~Precedes(b, t.curr)
    <3>1. CASE b[1] = t.cpos
      BY <1>1, <2>1, <3>1
    <3>2. CASE b[1] # t.cpos
      BY <1>1, <1>2, <2>1, <3>2 DEF Precedes
    <3> QED
      BY <3>1, <3>2
  <2>8. TimeOf(b) > TimeOf(e) <=> Precedes(e, b)
    BY <2>5
  <2> QED
    BY <2>2, <2>6, <2>7, <2>8
<1>5. CASE t.got = <<>> /\ t.cpos = 0
  <2>1. t.curr = first[s] /\ StartsAfter(s) = TimeOf(first[s]) - 1
    BY <1>5 DEF Continues, StartsAfter
  <2>2. TimeOf(b) \in Nat /\ TimeOf(t.curr) \in Nat
        /\ (TimeOf(b) < TimeOf(t.curr) <=> Precedes(b, t.curr))
    BY <1>1, <1>2, TimeOrder
  <2>3. TimeOf(b) > TimeOf(t.curr) - 1 <=> ~(TimeOf(b) < TimeOf(t.curr))
    BY <2>2
  <2> QED
    BY <2>1, <2>2, <2>3
<1> QED
  BY <1>3, <1>4, <1>5

LEMMA UpperBound ==
  ASSUME MFAssumption, NEW s, NEW d \in Places(s), d # NoBlock, NEW b \in Own(s)
  PROVE  (IsBlock(d) => TimeOf(b) < TimeOf(d)) <=> Precedes(b, EndAt(d))
<1>1. b[1] \in Clusters /\ b[2] \in 0 .. Size(b[1]) /\ b[1] \in Nat /\ b[1] <= Len(File)
      /\ Len(File) \in Nat
  BY OwnPlace, OwnTypes
<1>2. CASE d \in Own(s)
  <2>1. d \in Blocks /\ IsBlock(d) /\ d # EndBlock
    BY <1>2, OwnTypes
  <2>2. TimeOf(b) < TimeOf(d) <=> Precedes(b, d)
    BY <1>1, <2>1, TimeOrder
  <2> QED
    BY <2>1, <2>2 DEF EndAt
<1>3. CASE d = EndBlock
  <2>1. ~IsBlock(d) /\ EndAt(d) = EndOfFile
    BY <1>3, NoBlockTypes DEF EndAt
  <2>2. Precedes(b, EndOfFile)
    BY <1>1 DEF Precedes, EndOfFile
  <2> QED
    BY <2>1, <2>2
<1> QED
  BY <1>2, <1>3 DEF Places

LEMMA SampleOrdered ==
  ASSUME MFAssumption, MFInv, SearchInv, [MFNext]_mvars, NEW s \in Streams,
         str'[s].got \notin {<<>>, str[s].got}, NEW g, g = str'[s].got
  PROVE  /\ ToSet(g) = Between(s, StartsAfter(s), str'[s].curr)
         /\ \A i \in 1 .. Len(g) - 1 : TimeOf(g[i]) < TimeOf(g[i + 1])
<1>1. ServeSample
  BY GotKept
<1>2. /\ ServesBlock(s) /\ Sought(s)
      /\ Gathered(s, str[s].curr, EndAt(str'[s].curr), g)
      /\ str'[s].curr # NoBlock /\ str'[s].curr \in Places(s)
  BY <1>1, SampleMade
<1>3. IsBlock(str[s].curr) /\ Continues(s, str[s])
  BY <1>2, ServedSought DEF Sought, Stands
<1>4. str[s].curr \in Own(s)
  BY <1>3, Serving DEF MFInv, Consistent
<1> DEFINE from == str[s].curr
           upto == str'[s].curr
<1>5. /\ g \in Seq(Own(s)) /\ g # <<>>
      /\ \A b \in Own(s) :
           (\E k \in 1 .. Len(g) : g[k] = b) <=> ~Precedes(b, from) /\ Precedes(b, EndAt(upto))
      /\ \A k, l \in 1 .. Len(g) : k < l => Precedes(g[k], g[l])
  BY <1>2 DEF Gathered
<1> HIDE DEF from, upto
<1>6. ASSUME NEW b \in Own(s)
      PROVE  /\ TimeOf(b) > StartsAfter(s) <=> ~Precedes(b, from)
             /\ (IsBlock(upto) => TimeOf(b) < TimeOf(upto)) <=> Precedes(b, EndAt(upto))
  BY <1>2, <1>3, <1>4, LowerBound, UpperBound DEF from, upto
<1>7. ToSet(g) = Between(s, StartsAfter(s), upto)
  <2>1. Len(g) \in Nat /\ DOMAIN g = 1 .. Len(g) /\ \A k \in 1 .. Len(g) : g[k] \in Own(s)
    BY <1>5
  <2>2. \A b : b \in ToSet(g) <=> \E k \in 1 .. Len(g) : g[k] = b
    BY <2>1 DEF ToSet
  <2>3. \A b : b \in Between(s, StartsAfter(s), upto) <=>
                 /\ b \in Own(s) /\ TimeOf(b) > StartsAfter(s)
                 /\ IsBlock(upto) => TimeOf(b) < TimeOf(upto)
    BY DEF Between, Own, Blocks
  <2>4. \A b : b \in ToSet(g) <=> b \in Between(s, StartsAfter(s), upto)
    BY <1>5, <1>6, <2>1, <2>2, <2>3
  <2> QED
    BY <2>4
<1>8. ASSUME NEW i \in 1 .. Len(g) - 1 PROVE TimeOf(g[i]) < TimeOf(g[i + 1])
  <2>1. Len(g) \in Nat /\ i \in 1 .. Len(g) /\ i + 1 \in 1 .. Len(g) /\ i < i + 1
    BY <1>5
  <2>2. g[i] \in Own(s) /\ g[i + 1] \in Own(s) /\ Precedes(g[i], g[i + 1])
    BY <1>5, <2>1
  <2> QED
    BY <2>2, OwnPlace, TimeOrder
<1> QED
  BY <1>7, <1>8 DEF upto

(* However the parsing stalls, runs ahead, is interrupted or crosses       *)
(* clusters, and for every file: each sample that is made holds exactly    *)
(* the blocks of its stream between the last sample, or the position       *)
(* sought, and the new current block, each once and in the order of the    *)
(* file.                                                                   *)
THEOREM SamplesAlwaysInOrder == MFSpec => SamplesInOrder
<1>1. MFInit => MFInv /\ SearchInv
  BY InitHolds, SearchInit, MFAssumption
<1>2. MFInv /\ SearchInv /\ [MFNext]_mvars => (MFInv /\ SearchInv)'
  BY NextKeeps, IdleKeeps, SearchNext, MFAssumption
<1> DEFINE InOrder ==
      \A s \in Streams : str'[s].got \notin {<<>>, str[s].got} =>
        LET g == str'[s].got
        IN  /\ ToSet(g) = Between(s, StartsAfter(s), str'[s].curr)
            /\ \A i \in 1 .. Len(g) - 1 : TimeOf(g[i]) < TimeOf(g[i + 1])
<1>3. MFInv /\ SearchInv /\ [MFNext]_mvars => [InOrder]_mvars
  BY SampleOrdered, MFAssumption
<1>4. SamplesInOrder <=> [][InOrder]_mvars
  BY DEF SamplesInOrder
<1> HIDE DEF InOrder
<1> QED
  BY <1>1, <1>2, <1>3, <1>4, PTL DEF MFSpec

=============================================================================
