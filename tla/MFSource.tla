------------------------------ MODULE MFSource ------------------------------
(***************************************************************************)
(* The Media Foundation source                                             *)
(* (src/mediafoundation/webmmfsource/webmmfsource.cc, webmmfstream*.cc)    *)
(* and the byte stream handler that creates it: a worker thread that loads *)
(* the file, carries out the queued commands and answers the requests for  *)
(* samples, one asynchronous read at a time, while the pipeline's threads  *)
(* call Start, Stop, Pause, SetRate, Shutdown and RequestSample.           *)
(*                                                                         *)
(* A block is <<cluster, index>>.  Whether bytes are in the page cache is  *)
(* a choice: AsyncReadInit answers S_OK, or starts a read of 1 .. MaxPages *)
(* pages; what has been read for is there when it is asked for next.       *)
(* Every handler runs under the source's lock and is one action; the wait  *)
(* for an event that precedes it is another.  Thinning, which SetRate      *)
(* refuses, is left out, and so is the loading of cue points.              *)
(***************************************************************************)
EXTENDS Integers, Sequences, SequencesExt

CONSTANTS
  Streams,       \* the tracks for which there is a stream
  VideoStreams,  \* those that are video
  File,          \* clusters: sequences of the streams their blocks belong to
  Cues,          \* "front", "end" or "none": where the file has cue points
  LoadClusters,  \* clusters searched for first blocks (10)
  AudioQuota,    \* what fits into one audio sample, in blocks' time
  Descs,         \* the selections of streams a start asks for
  Restarts,      \* and a restart, which here does not add to the last one
  SeekTo,        \* positions asked for, as clusters; 1 is the beginning
  FailIn,        \* what may fail: "load" and "play", the reads of each phase;
                 \* "format" and "block", the parsing
  MaxPages,      \* pages of one read
  MaxCalls,      \* calls of the pipeline that are not requests
  MaxRequests    \* requests for samples

ASSUME MFAssumption ==
  /\ VideoStreams \subseteq Streams /\ Descs \cup Restarts \subseteq SUBSET Streams
  /\ File \in Seq(Seq(Streams)) /\ \A c \in DOMAIN File : File[c] # <<>>
  /\ SeekTo \subseteq DOMAIN File
  /\ LoadClusters \in Nat \ {0} /\ MaxPages \in Nat \ {0}
  /\ MaxCalls \in Nat /\ MaxRequests \in Nat

VARIABLES
  creation,    \* the handler: "none", "loading", "loaded", "bad", "done", "failed",
               \* "refused"; "released" once the last reference is gone
  cancelled,   \* m_bCancel: the byte stream has been closed
  commands,    \* m_commands; the first one is the state the source is in
  requests,    \* m_requests, the streams asked
  asked,       \* the selection last asked for
  shutdown,    \* m_pEvents = 0
  rate1,       \* m_rate = 1
  told,        \* MEError has been sent
  ev,          \* the events: "quit", "cmd", "req", "async"
  at,          \* m_thread_state: "read", "cancel", "request", "quit", or "crashed"
  woken,       \* the event the worker has been woken by, or "none"
  astate,      \* m_async_state
  io,          \* pages of the read that are still to come
  hr,          \* m_async_read.m_hrStatus: "ok", "more", "fail"; "pending" before it
  interrupt,   \* m_async_read.m_bCanInterrupt
  want,        \* the cluster whose bytes were asked for last, 0 for none
  parsed,      \* blocks parsed of each cluster, -1 when it has not been found
  canSeek,     \* m_bCanSeek
  first,       \* m_pFirstBlock of each stream
  pCurr, pNext,\* m_pCurr and m_pNext, 0 for NULL
  str,         \* the streams
  eop,         \* MEEndOfPresentation sent since the streams were positioned
  calls, reqs  \* calls made, and requests

api   == <<creation, cancelled, asked, shutdown, rate1, calls, reqs>>
disk  == <<io, hr, want, parsed>>
load  == <<canSeek, first>>
curs  == <<pCurr, pNext>>
mvars == <<api, commands, requests, told, ev, at, woken, astate, interrupt,
           disk, load, curs, str, eop>>

-----------------------------------------------------------------------------
NoBlock  == <<0, 0>>
EndBlock == <<0, 1>>     \* Track::GetEOS
Clusters == DOMAIN File

Least(S)    == CHOOSE i \in S : \A j \in S : i <= j
Size(c)     == Len(File[c])
Complete(c) == parsed[c] = Size(c)
IsBlock(b)  == b[1] # 0

(* Where a block is in the file, which stands for its time.                *)
Before(c) == UNION {{d} \X (1 .. Size(d)) : d \in 1 .. c - 1}
TimeOf(b) == Cardinality(Before(b[1])) + b[2]

(* The first block of s among the first n of cluster c: Cluster::GetEntry  *)
(* from index 0, as SetFirstBlock and SetCurrBlockObject search.           *)
FirstOn(c, s, n) ==
  LET mine == {i \in 1 .. n : File[c][i] = s}
  IN  IF mine = {} THEN NoBlock ELSE <<c, Least(mine)>>

(* A stream: m_bSelected, m_bEOS, m_curr.pBE, m_cluster_pos,               *)
(* m_curr.pCluster, m_pNextBlock or m_pQuota, m_next_index (0 for -1),     *)
(* m_blocks, the length of m_sample_extent, m_pLocked, the length of       *)
(* m_samples; got is the last sample made since the stream was positioned. *)
Fresh == [sel |-> -1, eos |-> TRUE, curr |-> NoBlock, cpos |-> 0, clu |-> 0,
          next |-> NoBlock, nidx |-> 0, group |-> <<>>, ext |-> 0,
          locked |-> NoBlock, held |-> 0, got |-> <<>>]

MFInit ==
  /\ creation = "none" /\ cancelled = FALSE
  /\ commands = <<[kind |-> "stop", desc |-> {}, pos |-> 1]>> /\ requests = <<>>
  /\ asked = {} /\ shutdown = FALSE /\ rate1 = TRUE /\ told = FALSE /\ calls = 0
  /\ reqs = 0
  /\ ev = [e \in {"quit", "cmd", "req", "async"} |-> FALSE]
  /\ at = "read" /\ woken = "none" /\ astate = "ebml" /\ interrupt = FALSE
  /\ io = 0 /\ hr = "ok" /\ want = 0 /\ parsed = [c \in Clusters |-> -1]
  /\ canSeek = FALSE /\ first = [s \in Streams |-> NoBlock]
  /\ pCurr = 0 /\ pNext = 0 /\ str = [s \in Streams |-> Fresh] /\ eop = FALSE

Signal(E) == ev' = [e \in DOMAIN ev |-> ev[e] \/ e \in E]
Go(state)  == at' = state /\ woken' = "none"
IsStopped  == Last(commands).kind = "stop"
IsPaused   == Last(commands).kind = "pause"
Loading    == creation = "loading"
Selected   == {s \in Streams : str[s].sel = 1}

-----------------------------------------------------------------------------
(* Reading and parsing.  A stalled read leaves the worker waiting for the  *)
(* event that Invoke sets; ParseTo(c, n) has parsed n blocks of cluster c. *)
Stall(c) ==
  /\ io' \in 1 .. MaxPages /\ hr' = "pending" /\ want' = c

ParseTo(c, n) ==
  parsed' = [parsed EXCEPT ![c] = n]

(* What Parse has made of cluster c when the bytes run out before block n. *)
ShortOf(c, n) == (parsed[c] + (IF want = c THEN 1 ELSE 0)) .. (n - 1)

HaveBytes == io' = 0 /\ hr' = "ok" /\ want' = 0
KeepBytes == io' = 0 /\ hr' = "ok" /\ UNCHANGED want

(* How a handler ends: it waits for a read of cluster c, or runs again as  *)
(* state at once, in StateAsyncRead; or goes to StateRequestSample; or the *)
(* source cannot go on, with Error, and StateQuit.                         *)
Pending(state, c) == Go("read") /\ astate' = state /\ Stall(c) /\ UNCHANGED ev
Loop(state)  == Go("read") /\ astate' = state /\ Signal({"async"})
Again(state) == Loop(state) /\ HaveBytes
Back == Go("request") /\ Signal({"req"}) /\ UNCHANGED astate
Dies(tells) ==
  Go("quit") /\ told' = (told \/ tells) /\ UNCHANGED <<ev, astate>>

(* MkvReader::AsyncReadCompletion in CAsyncRead::Invoke.                   *)
ReadDone ==
  /\ hr = "pending"
  /\ \/ hr' = (IF io > 1 THEN "more" ELSE "ok") /\ io' = io - 1
     \/ /\ IF Loading THEN cancelled \/ "load" \in FailIn
                       ELSE shutdown \/ "play" \in FailIn
        /\ hr' = "fail" /\ io' = 0
  /\ Signal({"async"})
  /\ UNCHANGED <<api, commands, requests, told, at, woken, astate, interrupt,
                 want, parsed, load, curs, str, eop>>

-----------------------------------------------------------------------------
(* The byte stream handler.  BeginCreateObject makes the source and calls  *)
(* BeginLoad, which starts the first read.                                 *)
BeginCreateObject ==
  /\ creation = "none"
  /\ \/ Stall(1) /\ creation' = "loading" /\ UNCHANGED ev
     \/ HaveBytes /\ creation' = "loading" /\ Signal({"async"})
     \/ "load" \in FailIn /\ creation' = "refused"
        /\ UNCHANGED <<io, hr, want>> /\ Signal({"quit"})
  /\ UNCHANGED <<cancelled, asked, shutdown, rate1, calls, reqs, commands, requests, told,
                 at, woken, astate, interrupt, parsed, load, curs, str, eop>>

CancelObjectCreation ==
  /\ creation \in {"loading", "loaded", "bad"} /\ "load" \in FailIn
  /\ ~cancelled /\ cancelled' = TRUE
  /\ UNCHANGED <<creation, asked, shutdown, rate1, calls, reqs, commands, requests, told,
                 ev, at, woken, astate, interrupt, disk, load, curs, str, eop>>

ShutdownStream(t) ==
  [t EXCEPT !.held = 0, !.locked = NoBlock, !.curr = NoBlock, !.clu = 0]

(* (Mutated form: the worker is not woken.)                                 *)
ShutdownQuietly ==
  /\ shutdown' = TRUE /\ str' = [s \in Streams |-> ShutdownStream(str[s])]
  /\ UNCHANGED ev

ShutdownSource ==
  /\ shutdown' = TRUE /\ str' = [s \in Streams |-> ShutdownStream(str[s])]
  /\ Signal({"req"})

(* CAsyncLoad::Invoke, called from a work queue: a source that was not     *)
(* loaded is shut down; the callback of BeginCreateObject is called.       *)
EndLoad ==
  /\ creation \in {"loaded", "bad"}
  /\ IF creation = "bad" \/ cancelled
     THEN creation' = "failed" /\ ShutdownSource
     ELSE creation' = "done" /\ UNCHANGED <<shutdown, str, ev>>
  /\ UNCHANGED <<cancelled, asked, rate1, calls, reqs, commands, requests, told, at, woken,
                 astate, interrupt, disk, load, curs, eop>>

(* The last reference goes, a read in progress holds one: FinalThread.     *)
Release ==
  /\ creation \in {"done", "failed"} /\ hr # "pending"
  /\ creation' = "released" /\ Signal({"quit"})
  /\ UNCHANGED <<cancelled, asked, shutdown, rate1, calls, reqs, commands, requests, told,
                 at, woken, astate, interrupt, disk, load, curs, str, eop>>

-----------------------------------------------------------------------------
(* The calls of the pipeline.                                              *)
Call ==
  /\ creation = "done" /\ ~shutdown
  /\ UNCHANGED <<creation, cancelled, told, at, woken, astate, interrupt, disk, load,
                 curs, eop>>

Command == Call /\ calls < MaxCalls /\ calls' = calls + 1 /\ UNCHANGED reqs

Queue(kind, desc, pos) ==
  /\ commands' = Append(commands, [kind |-> kind, desc |-> desc, pos |-> pos])
  /\ Signal({"cmd"}) /\ UNCHANGED <<requests, shutdown, rate1, str>>

(* Start is a start, a seek or a restart after the last command queued.    *)
Start(desc, pos) ==
  /\ Command /\ Queue("start", desc, pos) /\ IsStopped /\ asked' = desc

Seek(pos) ==
  /\ Command /\ Queue("seek", asked, pos) /\ ~IsStopped /\ UNCHANGED asked

Restart(desc) ==
  /\ Command /\ Queue("restart", desc, 1) /\ ~IsStopped
  /\ desc \subseteq asked /\ asked' = desc

Stop == Command /\ Queue("stop", {}, 1) /\ UNCHANGED asked

Pause ==
  /\ Command /\ Queue("pause", {}, 1) /\ ~IsStopped /\ ~IsPaused /\ UNCHANGED asked

SetRate ==
  /\ Command /\ rate1' = ~rate1
  /\ UNCHANGED <<commands, requests, asked, shutdown, str, ev>>

Shutdown ==
  /\ Command /\ ShutdownSource /\ UNCHANGED <<commands, requests, asked, rate1>>

RequestSample(s) ==
  /\ Call /\ reqs < MaxRequests /\ reqs' = reqs + 1 /\ UNCHANGED calls
  /\ ~IsStopped /\ str[s].sel = 1 /\ requests' = Append(requests, s) /\ Signal({"req"})
  /\ UNCHANGED <<commands, asked, shutdown, rate1, str>>

-----------------------------------------------------------------------------
(* The worker's wait: of the events set, the first one handed over wins,   *)
(* and is reset.                                                           *)
Order == [read    |-> <<"quit", "cmd", "req", "async">>,
          cancel  |-> <<"quit", "async", "cmd">>,
          request |-> <<"quit", "cmd", "req">>]

Wake ==
  /\ at \in DOMAIN Order /\ woken = "none"
  /\ LET set == {i \in DOMAIN Order[at] : ev[Order[at][i]]}
     IN  /\ set # {} /\ woken' = Order[at][Least(set)]
         /\ ev' = [ev EXCEPT ![woken'] = FALSE]
  /\ UNCHANGED <<api, commands, requests, told, at, astate, interrupt, disk, load, curs,
                 str, eop>>

Quits ==
  /\ woken = "quit" /\ Go("quit")
  /\ UNCHANGED <<api, commands, requests, told, ev, astate, interrupt, disk, load, curs,
                 str, eop>>

-----------------------------------------------------------------------------
(* The commands.  Deselect, Select, SetCurrBlock and SetCurrBlockInit of a *)
(* stream.                                                                 *)
Deselect(t) ==
  IF t.sel # 1 THEN t
  ELSE [t EXCEPT !.sel = 0, !.eos = TRUE, !.held = 0, !.locked = NoBlock,
                 !.curr = NoBlock, !.clu = 0, !.next = NoBlock, !.nidx = 0,
                 !.group = <<>>, !.ext = 0]

(* (Mutated form: the page of the old current block stays locked.)          *)
SetCurrBlockLocked(t, b, c) ==
  [t EXCEPT !.sel = 1, !.eos = FALSE, !.curr = b, !.cpos = c, !.clu = 0,
            !.next = NoBlock, !.nidx = 0, !.group = <<>>, !.ext = 0, !.got = <<>>]

SetCurrBlock(t, b, c) ==
  [t EXCEPT !.sel = 1, !.eos = FALSE, !.locked = NoBlock, !.curr = b, !.cpos = c,
            !.clu = 0, !.next = NoBlock, !.nidx = 0, !.group = <<>>, !.ext = 0,
            !.got = <<>>]

(* GetClusterPos: the cluster of the cue point of a selected video stream, *)
(* or 0 when the source starts without seeking.                            *)
ClusterPos(c) ==
  IF c.pos > 1 /\ canSeek
     /\ \E s \in c.desc \cap VideoStreams : IsBlock(first[s]) /\ c.pos > first[s][1]
  THEN c.pos ELSE 0

(* OnStart, OnSeek (with Start and Seek of the streams), OnStop and        *)
(* OnRestart of one stream; OnPause leaves the streams as they are.        *)
StartStream(c, s, t) ==
  IF s \notin c.desc THEN Deselect(t)
  ELSE IF ClusterPos(c) = 0 THEN SetCurrBlock(t, first[s], 0)
       ELSE SetCurrBlock(t, NoBlock, ClusterPos(c))

(* (Mutated form: a stopped stream stays selected.)                         *)
StopStreamSelected(t) ==
  IF t.sel # 1 THEN t
  ELSE [t EXCEPT !.eos = TRUE, !.held = 0, !.locked = NoBlock, !.curr = NoBlock,
                 !.clu = 0]

StopStream(t) ==
  IF t.sel # 1 THEN t
  ELSE [t EXCEPT !.sel = 0, !.eos = TRUE, !.held = 0, !.locked = NoBlock,
                 !.curr = NoBlock, !.clu = 0]

RestartStream(c, s, t) ==
  IF s \notin c.desc THEN Deselect(t)
  ELSE IF t.sel = -1 THEN [SetCurrBlock(t, first[s], 0) EXCEPT !.held = 0]
       ELSE [t EXCEPT !.sel = 1, !.eos = FALSE, !.held = 0]

(* (Mutated form: a seek does not purge the samples held back.)             *)
CommandedSeekKeeps(c, s, t) ==
  CASE c.kind \in {"start", "seek"} -> StartStream(c, s, t)
    [] c.kind = "stop"    -> StopStream(t)
    [] c.kind = "restart" -> RestartStream(c, s, t)
    [] c.kind = "pause"   -> t

Commanded(c, s, t) ==
  CASE c.kind = "start"   -> StartStream(c, s, t)
    [] c.kind = "seek"    -> [StartStream(c, s, t) EXCEPT !.held = 0]
    [] c.kind = "stop"    -> StopStream(t)
    [] c.kind = "restart" -> RestartStream(c, s, t)
    [] c.kind = "pause"   -> t

(* OnCommand carries out the next command and answers whether a read in    *)
(* progress is to be cancelled.                                            *)
OnCommand ==
  IF shutdown THEN commands' = <<>> /\ UNCHANGED <<requests, str, eop>>
  ELSE IF Len(commands) <= 1 THEN UNCHANGED <<commands, requests, str, eop>>
  ELSE LET c == commands[2]
       IN  /\ commands' = Tail(commands)
           /\ str' = [s \in Streams |-> Commanded(c, s, str[s])]
           /\ requests' = IF c.kind = "stop" THEN <<>> ELSE requests
           /\ eop' = (eop /\ c.kind = "pause")

Cancels ==
  \/ shutdown
  \/ Len(commands) > 1 /\ commands[2].kind \in {"start", "seek", "stop"}

-----------------------------------------------------------------------------
(* StateAsyncRead and StateAsyncCancel.                                    *)
CommandArrives ==
  /\ at \in {"read", "cancel"} /\ woken = "cmd" /\ OnCommand
  /\ Go(IF at = "read" /\ ~Cancels THEN "read" ELSE "cancel")
  /\ UNCHANGED <<api, told, ev, astate, interrupt, disk, load, curs>>

(* (Mutated form: the request is turned to while the read goes on.)         *)
RequestTakesOver ==
  /\ at = "read" /\ woken = "req"
  /\ Go(IF requests # <<>> /\ interrupt THEN "request" ELSE "read")
  /\ UNCHANGED <<api, commands, requests, told, ev, astate, interrupt, disk, load, curs,
                 str, eop>>

(* A request interrupts only a read that runs ahead of the requests.       *)
RequestArrives ==
  /\ at = "read" /\ woken = "req"
  /\ Go(IF requests # <<>> /\ interrupt THEN "cancel" ELSE "read")
  /\ UNCHANGED <<api, commands, requests, told, ev, astate, interrupt, disk, load, curs,
                 str, eop>>

(* (Mutated form: the requests are not turned to after the cancelled read.) *)
CancelDoneQuietly ==
  /\ at = "cancel" /\ woken = "async" /\ Go("request") /\ HaveBytes
  /\ UNCHANGED <<api, commands, requests, told, ev, astate, interrupt, parsed, load,
                 curs, str, eop>>

(* AsyncReadCancel, once the obsolete read is over.                        *)
CancelDone ==
  /\ at = "cancel" /\ woken = "async" /\ Back /\ HaveBytes
  /\ UNCHANGED <<api, commands, requests, told, interrupt, parsed, load, curs, str, eop>>

(* (Mutated form: a read that fails ends the thread without Error.)         *)
OnAsyncReadQuietly ==
  /\ at = "read" /\ woken = "async"
  /\ \/ shutdown /\ Back /\ UNCHANGED <<told, disk>>
     \/ ~shutdown /\ hr = "fail" /\ Dies(FALSE) /\ UNCHANGED disk
     \/ /\ ~shutdown /\ hr = "more" /\ hr' = "pending"
        /\ Go("read") /\ UNCHANGED <<told, ev, astate, io, want, parsed>>
  /\ UNCHANGED <<api, commands, requests, interrupt, load, curs, str, eop>>

(* OnAsyncRead: the source has been shut down, the read has failed, or it  *)
(* goes on with the next page.                                             *)
OnAsyncRead ==
  /\ at = "read" /\ woken = "async"
  /\ \/ shutdown /\ Back /\ UNCHANGED <<told, disk>>
     \/ ~shutdown /\ hr = "fail" /\ Dies(TRUE) /\ UNCHANGED disk
     \/ /\ ~shutdown /\ hr = "more" /\ hr' = "pending"
        /\ Go("read") /\ UNCHANGED <<told, ev, astate, io, want, parsed>>
  /\ UNCHANGED <<api, commands, requests, interrupt, load, curs, str, eop>>

(* Or all bytes are in the cache, and m_async_state is called.             *)
Ready(state) ==
  at = "read" /\ woken = "async" /\ ~shutdown /\ hr \in {"ok", "more"} /\ astate = state

-----------------------------------------------------------------------------
(* Loading.                                                                *)
HasVideo == Streams \cap VideoStreams # {}
Count    == Cardinality({c \in Clusters : parsed[c] >= 0})

LoadStep(state) ==
  /\ Ready(state)
  /\ UNCHANGED <<cancelled, asked, shutdown, rate1, calls, reqs, commands, requests, told,
                 interrupt, curs, str, eop>>

LoadComplete(ok) ==
  /\ creation' = (IF ok THEN "loaded" ELSE "bad") /\ HaveBytes
  /\ IF ok THEN Back ELSE Go("quit") /\ UNCHANGED <<ev, astate>>

Loads(state)   == Again(state) /\ UNCHANGED creation
LoadStalls(c)  == want # c /\ Pending(astate, c) /\ UNCHANGED creation
LoadFails == FailIn \cap {"load", "format"} # {} /\ LoadComplete(FALSE)

ParseEbmlHeader ==
  LoadStep("ebml") /\ (Loads("headers") \/ LoadFails) /\ UNCHANGED <<parsed, load>>

ParseSegmentHeaders ==
  /\ LoadStep("headers")
  /\ \/ (LoadStalls(1) \/ LoadFails) /\ UNCHANGED canSeek
     \/ /\ Loads(IF HasVideo /\ Cues = "end" THEN "cues" ELSE "loadCluster")
        /\ canSeek' = (HasVideo /\ Cues = "front")
  /\ UNCHANGED <<parsed, first>>

ParseCues ==
  /\ LoadStep("cues")
  /\ \/ (LoadStalls(1) \/ LoadFails) /\ UNCHANGED canSeek
     \/ Loads("loadCluster") /\ canSeek' = TRUE
  /\ UNCHANGED <<parsed, first>>

LoadCluster ==
  /\ LoadStep("loadCluster")
  /\ \/ (LoadStalls(Count + 1) \/ LoadFails) /\ UNCHANGED parsed
     \/ IF Count = Len(File) THEN LoadComplete(FALSE) /\ UNCHANGED parsed
        ELSE ParseTo(Count + 1, 0) /\ Loads("initStreams")
  /\ UNCHANGED load

ParseCluster ==
  /\ LoadStep("parseCluster")
  /\ \/ (LoadStalls(Count) \/ LoadFails) /\ UNCHANGED parsed
     \/ ParseTo(Count, parsed[Count] + 1) /\ Loads("initStreams")
  /\ UNCHANGED load

(* The first block of each stream; a stream without one in the clusters    *)
(* searched is at its end.                                                 *)
InitStreams ==
  /\ LoadStep("initStreams")
  /\ LET found == [s \in Streams |-> IF first[s] # NoBlock THEN first[s]
                                     ELSE FirstOn(Count, s, parsed[Count])]
         over  == Complete(Count) /\ Count >= LoadClusters
     IN  IF over \/ \A s \in Streams : found[s] # NoBlock
         THEN /\ LoadComplete(TRUE)
              /\ first' = [s \in Streams |-> IF found[s] = NoBlock THEN EndBlock
                                             ELSE found[s]]
         ELSE /\ first' = found
              /\ Loads(IF Complete(Count) THEN "loadCluster" ELSE "parseCluster")
  /\ UNCHANGED <<parsed, canSeek>>

Load == \/ ParseEbmlHeader \/ ParseSegmentHeaders \/ ParseCues
        \/ LoadCluster \/ ParseCluster \/ InitStreams

-----------------------------------------------------------------------------
(* OnRequestSample: the end of a source that was shut down, a command, or  *)
(* nothing to do.                                                          *)
Turn == at = "request" /\ woken \in {"cmd", "req"}
Idle == Turn /\ ~shutdown /\ Len(commands) = 1 /\ requests = <<>>

TurnEnds ==
  /\ Turn /\ shutdown /\ Go("quit") /\ commands' = <<>> /\ requests' = <<>>
  /\ UNCHANGED <<api, told, ev, astate, interrupt, disk, load, curs, str, eop>>

TurnToCommand ==
  /\ Turn /\ ~shutdown /\ Len(commands) > 1 /\ OnCommand
  /\ Go("request") /\ Signal({"req"})
  /\ UNCHANGED <<api, told, astate, interrupt, disk, load, curs>>

(* Without requests the source parses ahead: the furthest cluster that a   *)
(* selected stream is at, then the one after it.                           *)
Furthest ==
  LET here == {str[s].curr[1] : s \in {x \in Selected : IsBlock(str[x].curr)}}
  IN  IF here = {} THEN 0 ELSE CHOOSE c \in here : \A d \in here : d <= c

ParseAhead(c) ==
  LET e    == IF Complete(c) THEN c + 1 ELSE c
      over == e \in Clusters => Complete(e)
  IN  \/ over /\ Go("request") /\ UNCHANGED <<told, ev, astate, disk>>
      \/ /\ ~over /\ ParseTo(e, parsed[e] + (IF parsed[e] < 0 THEN 2 ELSE 1))
         /\ HaveBytes /\ Go("request") /\ Signal({"req"}) /\ UNCHANGED <<told, astate>>
      \/ /\ (~over \/ e > Len(File)) /\ want # e /\ Pending("request", e)
         /\ UNCHANGED <<told, parsed>>
      \/ "play" \in FailIn /\ Dies(TRUE) /\ UNCHANGED disk

TurnIdle ==
  /\ Idle
  /\ IF ~IsStopped /\ Furthest # 0 /\ rate1 THEN ParseAhead(Furthest)
     ELSE Go("request") /\ UNCHANGED <<told, ev, astate, disk>>
  /\ interrupt' = (IF IsStopped THEN interrupt ELSE TRUE)
  /\ UNCHANGED <<api, commands, requests, load, curs, str, eop>>

-----------------------------------------------------------------------------
(* The request in front is answered.                                       *)
Serves(s) ==
  /\ Turn /\ ~shutdown /\ Len(commands) = 1 /\ requests # <<>> /\ s = Head(requests)
  /\ interrupt' = FALSE /\ UNCHANGED <<api, commands, load, pNext>>

Answered == requests' = Tail(requests) /\ Go("request") /\ Signal({"req"})

ServeUnselected ==
  \E s \in Streams :
    /\ Serves(s) /\ str[s].sel # 1 /\ Answered
    /\ UNCHANGED <<told, astate, disk, pCurr, str, eop>>

(* After a seek the current block has to be found first, SetCurrBlockIndex.*)
ServeUnplaced ==
  \E s \in Streams :
    /\ Serves(s) /\ str[s].sel = 1 /\ str[s].curr = NoBlock /\ pCurr' = str[s].cpos
    /\ IF pCurr' = 0 THEN Go("crashed") /\ UNCHANGED <<ev, astate, disk, str>>
       ELSE /\ Again("currInit") /\ str' = [str EXCEPT ![s].clu = pCurr']
            /\ ParseTo(pCurr', IF parsed[pCurr'] < 0 THEN 0 ELSE parsed[pCurr'])
    /\ UNCHANGED <<told, requests, eop>>

(* (Mutated form: the first stream to end ends the presentation.)           *)
ServeEndedFirst ==
  \E s \in Streams :
    /\ Serves(s) /\ str[s].sel = 1 /\ str[s].curr = EndBlock /\ Answered
    /\ str' = [str EXCEPT ![s].eos = TRUE] /\ eop' = TRUE
    /\ UNCHANGED <<told, astate, disk, pCurr>>

(* SetEOS, then NotifyEOS.                                                 *)
ServeEnded ==
  \E s \in Streams :
    /\ Serves(s) /\ str[s].sel = 1 /\ str[s].curr = EndBlock /\ Answered
    /\ str' = [str EXCEPT ![s].eos = TRUE]
    /\ eop' = (eop \/ \A x \in Selected : str'[x].eos)
    /\ UNCHANGED <<told, astate, disk, pCurr>>

-----------------------------------------------------------------------------
(* The search for the block that follows a sample, of GetNextBlock and     *)
(* NotifyNextCluster: the stream's next block, for audio the first one     *)
(* beyond the quota; the audio blocks before it join the sample.           *)
Follows(s, b, d) ==
  File[d[1]][d[2]] = s /\ (s \in VideoStreams \/ TimeOf(d) - TimeOf(b) > AudioQuota)

Begun(s, t) ==
  IF t.nidx # 0 THEN t
  ELSE [t EXCEPT !.nidx = t.curr[2] + 1, !.ext = 0, !.group = <<t.curr>>]

Found(t, b) == [t EXCEPT !.next = b, !.ext = Len(t.group)]

(* The blocks of s from one index of cluster c up to another, in order.    *)
BlocksOf(s, c, from, upto) ==
  LET mine == {i \in from .. upto : File[c][i] = s}
  IN  [k \in 1 .. Cardinality(mine) |->
         <<c, CHOOSE i \in mine : Cardinality({j \in mine : j < i}) = k - 1>>]

(* (Mutated form: m_next_index is not reset at the end of a cluster.)       *)
ScanOn(s, t, c, n) ==
  LET hits == {i \in t.nidx .. n : Follows(s, t.curr, <<c, i>>)}
      stop == IF hits = {} THEN n + 1 ELSE Least(hits)
      u    == [t EXCEPT !.group = @ \o BlocksOf(s, c, t.nidx, stop - 1), !.nidx = stop]
  IN  IF hits = {} THEN u ELSE Found(u, <<c, stop>>)

Scan(s, t, c, n) ==
  LET hits == {i \in t.nidx .. n : Follows(s, t.curr, <<c, i>>)}
      stop == IF hits = {} THEN n + 1 ELSE Least(hits)
      u    == [t EXCEPT !.group = @ \o BlocksOf(s, c, t.nidx, stop - 1),
                        !.nidx = IF hits = {} /\ n = Size(c) THEN 1 ELSE stop]
  IN  IF hits = {} THEN u ELSE Found(u, <<c, stop>>)

(* How far cluster c must be parsed until the search is over.              *)
Needs(s, t, c) ==
  LET hits == {i \in t.nidx .. Size(c) : Follows(s, t.curr, <<c, i>>)}
  IN  IF hits = {} THEN Size(c) ELSE Least(hits)

ServesBlock(s) ==
  /\ Serves(s) /\ str[s].sel = 1 /\ IsBlock(str[s].curr)
  /\ pCurr' = str[s].curr[1] /\ UNCHANGED eop

(* The blocks up to the next one are parsed; the bytes may run out, or the *)
(* parsing fail, which is told to nobody.                                  *)
ServeShort ==
  \E s \in Streams :
    /\ ServesBlock(s) /\ str[s].next = NoBlock
    /\ LET t == Begun(s, str[s])
           c == t.curr[1]
       IN  \/ \E n \in ShortOf(c, Needs(s, t, c)) :
                /\ ParseTo(c, n) /\ str' = [str EXCEPT ![s] = Scan(s, t, c, n)]
                /\ Pending("request", c) /\ UNCHANGED told
           \/ /\ "play" \in FailIn /\ Needs(s, t, c) > parsed[c]
              /\ \E tells \in {TRUE, "block" \notin FailIn} : Dies(tells)
              /\ UNCHANGED <<disk, str>>
    /\ UNCHANGED requests

(* It is not in this cluster.                                              *)
ServeNextCluster ==
  \E s \in Streams :
    /\ ServesBlock(s) /\ str[s].next = NoBlock
    /\ LET t == Begun(s, str[s])
           c == t.curr[1]
           u == Scan(s, t, c, Size(c))
       IN  /\ u.next = NoBlock /\ str' = [str EXCEPT ![s] = u]
           /\ ParseTo(c, Size(c)) /\ Again("nextInit")
    /\ UNCHANGED <<told, requests>>

(* It is known: the bytes of the sample are read and the current block is  *)
(* locked, as far as the cache has them.                                   *)
Known(s) ==
  IF str[s].next # NoBlock THEN str[s]
  ELSE LET t == Begun(s, str[s]) IN Scan(s, t, t.curr[1], Size(t.curr[1]))

ParsedFor(s) ==
  IF str[s].next # NoBlock THEN UNCHANGED parsed
  ELSE LET t == Begun(s, str[s])
           n == Needs(s, t, t.curr[1])
       IN  ParseTo(t.curr[1], IF n > parsed[t.curr[1]] THEN n ELSE parsed[t.curr[1]])

Audio(s) == s \notin VideoStreams

ServeBytes ==
  \E s \in Streams :
    /\ ServesBlock(s) /\ Known(s).next # NoBlock /\ ParsedFor(s)
    /\ \/ \E e \in 1 .. Known(s).ext :
            /\ Audio(s) /\ str' = [str EXCEPT ![s] = [Known(s) EXCEPT !.ext = e]]
            /\ Pending("extent", 0) /\ UNCHANGED told
       \/ /\ str[s].locked = NoBlock
          /\ str' = [str EXCEPT ![s] = [Known(s) EXCEPT !.ext = 0]]
          /\ Pending("lock", 0) /\ UNCHANGED told
       \/ "play" \in FailIn /\ Dies(TRUE) /\ UNCHANGED <<io, hr, want, str>>
    /\ UNCHANGED requests

(* GetSample: the sample is made, the next block becomes the current one;  *)
(* ProcessSample holds the sample back while the source is paused.         *)
ServeSample ==
  \E s \in Streams :
    /\ ServesBlock(s) /\ Known(s).next # NoBlock /\ ParsedFor(s) /\ Answered
    /\ str' = [str EXCEPT ![s] =
                 [Known(s) EXCEPT
                    !.got = Known(s).group, !.curr = Known(s).next, !.next = NoBlock, !.nidx = 0,
                    !.group = <<>>, !.ext = 0, !.locked = NoBlock,
                    !.held = @ + (IF IsPaused THEN 1 ELSE 0)]]
    /\ HaveBytes /\ UNCHANGED <<told, astate>>

-----------------------------------------------------------------------------
(* The states that wait for a read on behalf of the request in front.  A   *)
(* stream that was deselected meanwhile has no current block to go on with.*)
PlayStep(state) ==
  /\ Ready(state) /\ UNCHANGED <<api, commands, requests, interrupt, load, eop>>

(* StateAsyncRequestSample, StateAsyncLockCurr, StateAsyncGetSampleExtent. *)
BytesAreHere ==
  /\ PlayStep("request") /\ Back /\ KeepBytes /\ UNCHANGED <<told, parsed, curs, str>>

OnFront(state, after) ==
  /\ PlayStep(state) /\ KeepBytes /\ UNCHANGED <<told, parsed, curs>>
  /\ IF requests = <<>> THEN Back /\ UNCHANGED str
     ELSE LET s == Head(requests)
          IN  IF str[s].curr = NoBlock THEN Go("crashed") /\ UNCHANGED <<ev, astate, str>>
              ELSE Back /\ str' = [str EXCEPT ![s] = after[s]]

LockCurrBlock(t) == [t EXCEPT !.locked = t.curr]
LockCurr == OnFront("lock", [s \in Streams |-> LockCurrBlock(str[s])])

ExtentDone(t) == [t EXCEPT !.ext = @ - 1]
GetSampleExtent == OnFront("extent", [s \in Streams |-> ExtentDone(str[s])])

(* SetCurrBlockObject: the stream's first block of the cluster sought, or  *)
(* its end when the cluster has none.                                      *)
SetCurrBlockObject(s, n) ==
  LET c == str[s].clu
      b == FirstOn(c, s, n)
      e == IF b # NoBlock THEN b ELSE IF n = Size(c) THEN EndBlock ELSE NoBlock
  IN  IF e = NoBlock THEN Loop("currInit") /\ UNCHANGED str
      ELSE Back /\ str' = [str EXCEPT ![s].curr = e]

GetCurrBlockObject(n) ==
  IF requests = <<>> THEN Back /\ UNCHANGED str
  ELSE IF str[Head(requests)].clu = 0
       THEN Go("crashed") /\ UNCHANGED <<ev, astate, str>>
       ELSE SetCurrBlockObject(Head(requests), n)

CurrBlockInit ==
  /\ PlayStep("currInit")
  /\ LET n == IF Complete(pCurr) THEN parsed[pCurr] ELSE parsed[pCurr] + 1
     IN  \/ ParseTo(pCurr, n) /\ GetCurrBlockObject(n) /\ HaveBytes /\ UNCHANGED told
         \/ /\ ~Complete(pCurr) /\ want # pCurr /\ Pending("currFinal", pCurr)
            /\ UNCHANGED <<told, parsed, str>>
         \/ "play" \in FailIn /\ Dies(TRUE) /\ UNCHANGED <<disk, str>>
  /\ UNCHANGED curs

CurrBlockFinal ==
  /\ PlayStep("currFinal") /\ GetCurrBlockObject(parsed[pCurr]) /\ KeepBytes
  /\ UNCHANGED <<told, parsed, curs>>

(* ParseNext finds the cluster after m_pCurr, or the end of the file.      *)
NextInit ==
  /\ PlayStep("nextInit")
  /\ LET d == pCurr + 1
     IN  \/ /\ pNext' = (IF d > Len(File) THEN 0 ELSE d) /\ Again("nextNotify")
            /\ IF d > Len(File) \/ parsed[d] >= 0 THEN UNCHANGED parsed ELSE ParseTo(d, 0)
            /\ UNCHANGED told
         \/ want # d /\ Pending("nextInit", d) /\ UNCHANGED <<told, parsed, pNext>>
         \/ "play" \in FailIn /\ Dies(TRUE) /\ UNCHANGED <<disk, pNext>>
  /\ UNCHANGED <<pCurr, str>>

(* NotifyNextCluster.                                                      *)
NotifyNext(s, t) ==
  IF pNext = 0 THEN Found(t, EndBlock) ELSE Scan(s, t, pNext, parsed[pNext])

NextNotify ==
  /\ PlayStep("nextNotify")
  /\ IF requests = <<>> THEN Back /\ KeepBytes /\ UNCHANGED <<pCurr, str>>
     ELSE LET s == Head(requests)
              t == NotifyNext(s, str[s])
          IN  IF str[s].curr = NoBlock
              THEN Go("crashed") /\ KeepBytes /\ UNCHANGED <<ev, astate, pCurr, str>>
              ELSE /\ str' = [str EXCEPT ![s] = t]
                   /\ IF t.next # NoBlock THEN Back /\ KeepBytes /\ UNCHANGED pCurr
                      ELSE IF Complete(pNext) THEN Again("nextInit") /\ pCurr' = pNext
                           ELSE Again("nextParse") /\ UNCHANGED pCurr
  /\ UNCHANGED <<told, parsed, pNext>>

NextParse ==
  /\ PlayStep("nextParse")
  /\ \/ ParseTo(pNext, parsed[pNext] + 1) /\ Again("nextNotify") /\ UNCHANGED told
     \/ want # pNext /\ Pending("nextParse", pNext) /\ UNCHANGED <<told, parsed>>
     \/ "play" \in FailIn /\ Dies(TRUE) /\ UNCHANGED disk
  /\ UNCHANGED <<curs, str>>

-----------------------------------------------------------------------------
Play == \/ BytesAreHere \/ LockCurr \/ GetSampleExtent \/ CurrBlockInit
        \/ CurrBlockFinal \/ NextInit \/ NextNotify \/ NextParse

Serve == \/ ServeUnselected \/ ServeUnplaced \/ ServeEnded \/ ServeShort
         \/ ServeNextCluster \/ ServeBytes \/ ServeSample

Worker == \/ Wake \/ Quits \/ CommandArrives \/ RequestArrives \/ CancelDone
          \/ OnAsyncRead \/ Load \/ TurnEnds \/ TurnToCommand \/ TurnIdle
          \/ Serve \/ Play

Pipeline ==
  \/ \E pos \in SeekTo : Seek(pos) \/ \E desc \in Descs : Start(desc, pos)
  \/ \E desc \in Restarts : Restart(desc)
  \/ Stop \/ Pause \/ SetRate \/ Shutdown
  \/ \E s \in Streams : RequestSample(s)

Handler == BeginCreateObject \/ CancelObjectCreation \/ EndLoad \/ Release

MFNext == Handler \/ Pipeline \/ Worker \/ ReadDone

MFSpec == MFInit /\ [][MFNext]_mvars
(* The threads run, reads end, and the work queue makes its calls.         *)
MFFairSpec == MFSpec /\ WF_mvars(Worker) /\ WF_mvars(ReadDone) /\ WF_mvars(EndLoad)

-----------------------------------------------------------------------------
StreamState ==
  [sel : {-1, 0, 1}, eos : BOOLEAN, curr : Nat \X Nat, cpos : Nat, clu : Nat,
   next : Nat \X Nat, nidx : Nat, group : Seq(Nat \X Nat), ext : Nat,
   locked : Nat \X Nat, held : Nat, got : Seq(Nat \X Nat)]

(* Every variable has its type.                                            *)
MFTypeOK ==
  /\ creation \in {"none", "loading", "loaded", "bad", "done", "failed", "refused",
                   "released"}
  /\ {cancelled, shutdown, rate1, told, interrupt, canSeek, eop} \subseteq BOOLEAN
  /\ requests \in Seq(Streams) /\ asked \subseteq Streams /\ calls \in 0 .. MaxCalls
  /\ reqs \in 0 .. MaxRequests
  /\ commands \in Seq([kind : {"start", "seek", "stop", "restart", "pause"},
                       desc : SUBSET Streams, pos : Clusters \cup {1}])
  /\ ev \in [{"quit", "cmd", "req", "async"} -> BOOLEAN]
  /\ at \in {"read", "cancel", "request", "quit", "crashed"}
  /\ woken \in {"none", "quit", "cmd", "req", "async"}
  /\ hr \in {"ok", "more", "pending", "fail"} /\ io \in 0 .. MaxPages
  /\ want \in 0 .. Len(File) + 1 /\ pCurr \in 0 .. Len(File) /\ pNext \in 0 .. Len(File)
  /\ \A c \in Clusters : parsed[c] \in -1 .. Size(c)
  /\ first \in [Streams -> Nat \X Nat] /\ str \in [Streams -> StreamState]

(* The worker waits in StateAsyncRead or StateAsyncCancel only for an      *)
(* event that comes: a read is under way or its event is set, never both.  *)
(* No read is left behind in StateRequestSample, where the next one would  *)
(* be started (assert(m_async_pos < 0), mkvreader.cc:1078).                *)
OneRead ==
  /\ at \in {"read", "cancel"} /\ creation \notin {"none", "refused"}
     => (hr = "pending") # (ev["async"] \/ woken = "async")
  /\ at = "request" /\ ~shutdown => hr \notin {"pending", "more"} /\ ~ev["async"]

(* Samples are held back only while the source is in the paused state, by  *)
(* selected streams, however the commands are queued:                      *)
(* assert(m_samples.empty()) in ProcessSample and in Start                 *)
(* (webmmfstream.cc:298 and :463).                                         *)
HeldOnlyWhenPaused ==
  \A s \in Streams : str[s].held > 0 =>
    str[s].sel = 1 /\ ~shutdown /\ commands[1].kind = "pause"

(* What a stream has locked is its current block (webmmfstream.cc:790).    *)
LockedIsCurrent ==
  \A s \in Streams : str[s].locked # NoBlock => str[s].locked = str[s].curr

(* A selected stream has a current block or a cluster to find it in:       *)
(* assert(cluster_pos >= 0), webmmfsource.cc:2604, and the worker never    *)
(* uses the current block of a stream that has none (webmmfstream.cc:802), *)
(* unless a restart deselected it while its request was being served.      *)
Crashed == at = "crashed"

SelectedIsPlaced ==
  /\ Crashed => str[Head(requests)].sel # 1
  /\ \A s \in Selected : ~shutdown => str[s].curr # NoBlock \/ str[s].cpos # 0

(* The presentation has ended exactly when every selected stream has.      *)
EndOfPresentation ==
  ~shutdown =>
    eop = (Selected # {} /\ \A s \in Selected : str[s].eos)

(* A worker thread that gives up on a source in use has told the pipeline. *)
DeathIsTold == at = "quit" /\ creation = "done" => told \/ shutdown

(* What the streams hold agrees with the commands, with each other and     *)
(* with what the pipeline has been told.                                   *)
StreamsConsistent ==
  /\ MFTypeOK /\ OneRead /\ HeldOnlyWhenPaused /\ LockedIsCurrent
  /\ SelectedIsPlaced /\ EndOfPresentation /\ DeathIsTold

(* A sample is the blocks of its stream that follow the last sample's, or  *)
(* the stream's position, up to the new current block: however the parsing *)
(* stalls, runs ahead, is interrupted or crosses clusters, no block is     *)
(* lost, repeated or out of order.                                         *)
StartsAfter(s) ==
  IF str[s].got # <<>> THEN TimeOf(Last(str[s].got))
  ELSE IF str[s].cpos # 0 THEN TimeOf(<<str[s].cpos, 0>>) ELSE TimeOf(first[s]) - 1

Between(s, from, upto) ==
  {b \in UNION {{c} \X (1 .. Size(c)) : c \in Clusters} :
     /\ File[b[1]][b[2]] = s
     /\ TimeOf(b) > from /\ (IsBlock(upto) => TimeOf(b) < TimeOf(upto))}

SamplesInOrder ==
  [][\A s \in Streams : str'[s].got \notin {<<>>, str[s].got} =>
       LET g == str'[s].got
       IN  /\ ToSet(g) = Between(s, StartsAfter(s), str'[s].curr)
           /\ \A i \in 1 .. Len(g) - 1 : TimeOf(g[i]) < TimeOf(g[i + 1])]_mvars

(* What has been asked for is carried out: every request is answered or    *)
(* dropped, every command handled, unless the worker has ended; and after  *)
(* Shutdown or the last Release the worker thread ends, which FinalThread  *)
(* waits for.                                                              *)
AllHandled ==
  /\ []<>(at = "quit" \/ Crashed \/ (requests = <<>> /\ Len(commands) = 1))
  /\ (shutdown \/ creation \in {"refused", "released"}) ~> at = "quit" \/ Crashed

=============================================================================
