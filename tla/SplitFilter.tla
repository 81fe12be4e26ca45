---------------------------- MODULE SplitFilter -----------------------------
(***************************************************************************)
(* The splitter filter at work (src/webmsplit/webmsplitfilter.cc and       *)
(* webmsplitoutpin.cc): the parser thread that loads clusters, one thread  *)
(* per connected output pin that delivers blocks, and the application      *)
(* thread that pauses, stops and seeks.                                    *)
(*                                                                         *)
(* The filter lock is never held across a call that blocks, so whatever is *)
(* done under it is one action here.  A file is the set of tracks that     *)
(* have a block in each cluster; a track has at most one block in a        *)
(* cluster, and a block is named by its cluster.  The parser library is    *)
(* not part of the repository: FirstOf, NextOf, SeekOf and EntryOf say     *)
(* what its calls return.                                                  *)
(***************************************************************************)
EXTENDS Integers, FiniteSets, FiniteSetsExt, TLC

CONSTANTS
  Clusters,    \* clusters of a file
  BlockSets,   \* which sets of tracks a cluster may have blocks of
  Cached,      \* the values Filter::InCache may have
  ParseFails,  \* whether LoadCluster and Wait may fail
  SeekTimes,   \* the times the application seeks to
  MaxCalls,    \* calls of the application
  MaxFiles     \* connections of the input pin

Tracks == {"video", "audio"}

ASSUME SplitAssumption ==
  /\ Clusters \in Nat /\ BlockSets \subseteq SUBSET Tracks
  /\ Cached \subseteq BOOLEAN /\ ParseFails \in BOOLEAN
  /\ SeekTimes \subseteq Nat /\ MaxCalls \in Nat /\ MaxFiles \in Nat

Null    == 0              \* m_pCurr or m_pSeekBase is 0: "lazy init"
EOS     == Clusters + 1   \* the end-of-stream entry or cluster
NotFull == -1             \* E_BUFFER_NOT_FULL
NoSeek  == -1             \* kNoSeek

VARIABLES
  blocks,      \* the file: the tracks each cluster has a block of
  inCache,     \* the whole file is available
  loaded,      \* m_pSegment->GetCount()
  done,        \* m_pSegment->DoneParsing()
  connected,   \* the output pins with a connection
  state,       \* m_state; paused and running differ in what GetState reports only
  app,         \* what the application thread is doing
  parser,      \* the parser thread: "none", "run", "read", "end", "failed"
  flushing,    \* the reader is between BeginFlush and EndFlush
  starvation,  \* m_cStarvation
  hNew,        \* Filter::m_hNewCluster is set
  currTime,    \* m_currTime
  seekBase,    \* m_pSeekBase
  seekBaseNs,  \* m_seekBase_ns
  seekTimeNs,  \* m_seekTime_ns
  th,          \* each pin's thread
  hStop,       \* Outpin::m_hStop is set
  hNewCluster, \* Outpin::m_hNewCluster is set
  committed,   \* the pin's allocator is committed
  curr,        \* Stream::m_pCurr
  base,        \* Stream::m_base_time_ns
  sample,      \* the block in the samples PopulateSamples filled
  sent,        \* the last block this thread has delivered, Null if none
  group,       \* pins sought to the same time one after the other
  calls,
  files

fileVars   == <<blocks, inCache, connected, files>>
parseVars  == <<loaded, done>>
seekVars   == <<currTime, seekBase, seekBaseNs, seekTimeNs, group>>
streamVars == <<curr, base, sample, sent>>
pinEvents  == <<hStop, hNewCluster>>
pinVars    == <<th, pinEvents, committed, streamVars>>
svars == <<fileVars, parseVars, state, app, parser, flushing, starvation, hNew,
           seekVars, pinVars, calls>>

NoPins(v) == [p \in Tracks |-> v]

Idle == [op |-> "idle", pin |-> "none", t |-> NoSeek, timed |-> FALSE]

SplitInit ==
  /\ blocks \in [1 .. Clusters -> BlockSets] /\ inCache \in Cached
  /\ connected \in (SUBSET Tracks) \ {{}} /\ files = 1
  /\ loaded = 0 /\ done = FALSE
  /\ state = "stopped" /\ app = Idle /\ parser = "none" /\ flushing = FALSE
  /\ starvation = -1 /\ hNew = FALSE
  /\ currTime = NoSeek /\ seekBase = Null /\ seekBaseNs = -1 /\ seekTimeNs = -1
  /\ group = [t |-> NoSeek, pins |-> {}]
  /\ th = NoPins("none") /\ hStop = NoPins(FALSE) /\ hNewCluster = NoPins(FALSE)
  /\ committed = NoPins(FALSE)
  /\ curr = NoPins(Null) /\ base = NoPins(-1)
  /\ sample = NoPins(Null) /\ sent = NoPins(Null)
  /\ calls = 0

-----------------------------------------------------------------------------
(***************************************************************************)
(* The parser library, when n clusters are loaded and d says whether the   *)
(* file has been parsed to its end.  The audio block of a cluster comes    *)
(* before its video block, which is a key frame.                           *)
(***************************************************************************)
BlocksOf(p) == {c \in 1 .. Clusters : p \in blocks[c]}

Time(p, c) == 2 * c + (IF p = "video" THEN 1 ELSE 0)

FirstTime(c) == IF "audio" \in blocks[c] THEN 2 * c ELSE 2 * c + 1

FirstIn(S, d) == IF S # {} THEN Min(S) ELSE IF d THEN EOS ELSE NotFull

\* Track::GetFirst
FirstOf(p, n, d) == FirstIn({c \in BlocksOf(p) : c <= n}, d)

\* Track::GetNext: from a cluster loaded out of order (by way of the cues) the
\* next one is read from the file
NextOf(p, c, n, d) ==
  IF c > n THEN FirstIn({e \in BlocksOf(p) : e > c}, TRUE)
  ELSE FirstIn({e \in BlocksOf(p) : c < e /\ e <= n}, d)

\* Track::Seek
SeekOf(p, ns, n, d) ==
  LET S == {c \in BlocksOf(p) : c <= n /\ Time(p, c) <= ns}
  IN IF S # {} THEN Max(S) ELSE FirstOf(p, n, d)

\* Cluster::GetEntry
EntryOf(p, c, ns) == IF p \in blocks[c] /\ Time(p, c) <= ns THEN c ELSE EOS

\* Segment::LoadCluster: one more call may be needed after the last cluster to
\* find out that it was the last
LoadCluster(n) ==
  IF n < Clusters THEN {<<n + 1, d>> : d \in {FALSE, n + 1 = Clusters}}
  ELSE {<<n, TRUE>>}

Parsed(s) == loaded' = s[1] /\ done' = s[2]

-----------------------------------------------------------------------------
(***************************************************************************)
(* Filter::OnNewCluster and Outpin::OnNewCluster.                          *)
(***************************************************************************)
OnNewCluster ==
  /\ hNew' = TRUE
  /\ hNewCluster' = [p \in Tracks |-> hNewCluster[p] \/ th[p] # "none"]

(***************************************************************************)
(* One iteration of Filter::Main: LoadCluster succeeds and everyone is     *)
(* told.                                                                   *)
(***************************************************************************)
(* (Mutated form: the thread returns before it tells anyone.)              *)
ParserLoadsQuietEnd ==
  /\ parser = "run"
  /\ \E s \in LoadCluster(loaded) : Parsed(s)
  /\ IF done' THEN UNCHANGED <<hNew, hNewCluster>> ELSE OnNewCluster
  /\ parser' = IF done' \/ state = "stopped" THEN "end" ELSE "run"
  /\ UNCHANGED <<fileVars, state, app, flushing, starvation, seekVars, th, hStop,
                 committed, streamVars, calls>>

ParserLoads ==
  /\ parser = "run"
  /\ \E s \in LoadCluster(loaded) : Parsed(s)
  /\ OnNewCluster
  /\ parser' = IF done' \/ state = "stopped" THEN "end" ELSE "run"
  /\ UNCHANGED <<fileVars, state, app, flushing, starvation, seekVars, th, hStop,
                 committed, streamVars, calls>>

(***************************************************************************)
(* LoadCluster returns E_BUFFER_NOT_FULL: the thread waits for data        *)
(* without the lock; BeginFlush cancels the wait and the thread returns.   *)
(***************************************************************************)
ParserWaits ==
  /\ parser = "run" /\ ~inCache /\ ~done
  /\ parser' = "read"
  /\ UNCHANGED <<fileVars, parseVars, state, app, flushing, starvation, hNew,
                 seekVars, pinVars, calls>>

DataArrives ==
  /\ parser = "read" /\ ~flushing
  /\ parser' = "run"
  /\ UNCHANGED <<fileVars, parseVars, state, app, flushing, starvation, hNew,
                 seekVars, pinVars, calls>>

WaitCancelled ==
  /\ parser = "read" /\ flushing
  /\ parser' = "failed"
  /\ UNCHANGED <<fileVars, parseVars, state, app, flushing, starvation, hNew,
                 seekVars, pinVars, calls>>

(***************************************************************************)
(* Any other status of LoadCluster, or Wait with every page busy: the      *)
(* thread returns 1 and nobody is told.                                    *)
(***************************************************************************)
ParserFails ==
  /\ ParseFails /\ parser \in {"run", "read"} /\ ~done
  /\ parser' = "failed"
  /\ UNCHANGED <<fileVars, parseVars, state, app, flushing, starvation, hNew,
                 seekVars, pinVars, calls>>

Parser == ParserLoads \/ ParserWaits \/ DataArrives \/ WaitCancelled \/ ParserFails

-----------------------------------------------------------------------------
(***************************************************************************)
(* An output pin's thread (Outpin::Main and PopulateSamples).  First part, *)
(* under the lock: InitCurr and GetSampleCount; on underflow OnStarvation, *)
(* and the thread goes to wait.                                            *)
(***************************************************************************)
InitCurr(p) ==
  IF curr[p] # Null THEN curr[p]
  ELSE IF loaded = 0 THEN NotFull
  ELSE FirstOf(p, loaded, done)

InitBase(p) == IF curr[p] = Null THEN FirstTime(1) ELSE base[p]

CountSamples(p) ==
  /\ th[p] = "count" /\ InitCurr(p) # NotFull
  /\ curr' = [curr EXCEPT ![p] = InitCurr(p)]
  /\ base' = [base EXCEPT ![p] = InitBase(p)]
  /\ th' = [th EXCEPT ![p] = IF InitCurr(p) = EOS THEN "eos" ELSE "buffers"]
  /\ UNCHANGED <<fileVars, parseVars, state, app, parser, flushing, starvation, hNew,
                 seekVars, pinEvents, committed, sample, sent, calls>>

Starve(p) ==
  /\ th[p] = "count" /\ InitCurr(p) = NotFull
  /\ starvation' = IF starvation < 0 THEN loaded ELSE starvation
  /\ th' = [th EXCEPT ![p] = "wait"]
  /\ UNCHANGED <<fileVars, parseVars, state, app, parser, flushing, hNew,
                 seekVars, pinEvents, committed, streamVars, calls>>

(***************************************************************************)
(* WaitForMultipleObjects on m_hStop and m_hNewCluster, auto-reset both.   *)
(***************************************************************************)
WakeStop(p) ==
  /\ th[p] = "wait" /\ hStop[p]
  /\ hStop' = [hStop EXCEPT ![p] = FALSE]
  /\ th' = [th EXCEPT ![p] = "end"]
  /\ UNCHANGED <<fileVars, parseVars, state, app, parser, flushing, starvation, hNew,
                 seekVars, hNewCluster, committed, streamVars, calls>>

WakeNewCluster(p) ==
  /\ th[p] = "wait" /\ ~hStop[p] /\ hNewCluster[p]
  /\ hNewCluster' = [hNewCluster EXCEPT ![p] = FALSE]
  /\ th' = [th EXCEPT ![p] = "count"]
  /\ UNCHANGED <<fileVars, parseVars, state, app, parser, flushing, starvation, hNew,
                 seekVars, hStop, committed, streamVars, calls>>

(***************************************************************************)
(* The buffers come, without the lock, when downstream lets go of them;    *)
(* GetBuffer fails once the allocator is decommitted.                      *)
(***************************************************************************)
GetBuffers(p) ==
  /\ th[p] = "buffers"
  /\ th' = [th EXCEPT ![p] = IF committed[p] THEN "populate" ELSE "end"]
  /\ UNCHANGED <<fileVars, parseVars, state, app, parser, flushing, starvation, hNew,
                 seekVars, pinEvents, committed, streamVars, calls>>

(* (Mutated form: a block before the base time is delivered.)              *)
PopulateAll(p) ==
  LET next == NextOf(p, curr[p], loaded, done)
  IN /\ th[p] = "populate"
     /\ th' = [th EXCEPT ![p] = IF next = NotFull THEN "end" ELSE "deliver"]
     /\ curr' = [curr EXCEPT ![p] = IF next = NotFull THEN @ ELSE next]
     /\ sample' = [sample EXCEPT ![p] = curr[p]]
     /\ UNCHANGED <<fileVars, parseVars, state, app, parser, flushing, starvation, hNew,
                    seekVars, pinEvents, committed, base, sent, calls>>

(***************************************************************************)
(* Second part, under the lock: Stream::PopulateSamples.  A block before   *)
(* the base time is thrown away and the loop goes on; if the next block is *)
(* not loaded yet the thread returns.                                      *)
(***************************************************************************)
PopulateSamples(p) ==
  LET next == NextOf(p, curr[p], loaded, done)
  IN /\ th[p] = "populate"
     /\ th' = [th EXCEPT ![p] = IF next = NotFull THEN "end"
                                ELSE IF Time(p, curr[p]) < base[p] THEN "count"
                                ELSE "deliver"]
     /\ curr' = [curr EXCEPT ![p] = IF next = NotFull THEN @ ELSE next]
     /\ sample' = [sample EXCEPT ![p] = curr[p]]
     /\ UNCHANGED <<fileVars, parseVars, state, app, parser, flushing, starvation, hNew,
                    seekVars, pinEvents, committed, base, sent, calls>>

(***************************************************************************)
(* ReceiveMultiple: downstream takes the samples, unless it is flushing,   *)
(* or says that it is done; it may keep the thread as long as it likes.    *)
(***************************************************************************)
PinFlushing(p) == app.op \in {"joinPin", "joinSeek"} /\ app.pin = p

Receive(p) ==
  /\ th[p] = "deliver" /\ ~PinFlushing(p)
  /\ sent' = [sent EXCEPT ![p] = sample[p]]
  /\ sample' = [sample EXCEPT ![p] = Null]
  /\ th' = [th EXCEPT ![p] = "count"]
  /\ UNCHANGED <<fileVars, parseVars, state, app, parser, flushing, starvation, hNew,
                 seekVars, pinEvents, committed, curr, base, calls>>

ReceiveRefused(p) ==
  /\ th[p] = "deliver"
  /\ th' = [th EXCEPT ![p] = "end"]
  /\ UNCHANGED <<fileVars, parseVars, state, app, parser, flushing, starvation, hNew,
                 seekVars, pinEvents, committed, streamVars, calls>>

EndOfStream(p) ==
  /\ th[p] = "eos"
  /\ th' = [th EXCEPT ![p] = "end"]
  /\ UNCHANGED <<fileVars, parseVars, state, app, parser, flushing, starvation, hNew,
                 seekVars, pinEvents, committed, streamVars, calls>>

PinThread(p) ==
  \/ CountSamples(p) \/ Starve(p) \/ WakeStop(p) \/ WakeNewCluster(p)
  \/ GetBuffers(p) \/ PopulateSamples(p)
  \/ Receive(p) \/ ReceiveRefused(p) \/ EndOfStream(p)

-----------------------------------------------------------------------------
(***************************************************************************)
(* The application thread.  A call that has to wait for a thread to end    *)
(* does so without the lock.                                               *)
(***************************************************************************)
Call == app = Idle /\ calls < MaxCalls /\ calls' = calls + 1

\* Outpin::StartThread for the pins of S
StartThreads(S) ==
  /\ th' = [p \in Tracks |-> IF p \in S THEN "count" ELSE th[p]]
  /\ hStop' = [p \in Tracks |-> hStop[p] /\ p \notin S]
  /\ hNewCluster' = [p \in Tracks |-> hNewCluster[p] /\ p \notin S]
  /\ sample' = [p \in Tracks |-> IF p \in S THEN Null ELSE sample[p]]
  /\ sent' = [p \in Tracks |-> IF p \in S THEN Null ELSE sent[p]]

(***************************************************************************)
(* Filter::Pause and Run, and OnStart when the filter is stopped: every    *)
(* connected pin's Start, and Init creates the parser thread unless there  *)
(* is nothing left to parse.                                               *)
(***************************************************************************)
OnStart ==
  /\ StartThreads(connected)
  /\ committed' = [p \in Tracks |-> committed[p] \/ p \in connected]
  /\ starvation' = 0
  /\ parser' = IF done THEN parser ELSE "run"

PauseOrRun ==
  /\ Call /\ state' = "active"
  /\ IF state = "stopped" THEN OnStart
     ELSE UNCHANGED <<th, pinEvents, sample, sent, committed, starvation, parser>>
  /\ UNCHANGED <<fileVars, parseVars, app, flushing, hNew, seekVars, curr, base>>

(***************************************************************************)
(* Filter::Stop: OnStop waits for the parser thread (Final) and then stops *)
(* the pins one after the other.                                           *)
(***************************************************************************)
Stop ==
  /\ Call /\ state # "stopped"
  /\ state' = "stopped" /\ flushing' = TRUE
  /\ app' = [Idle EXCEPT !.op = "final"]
  /\ UNCHANGED <<fileVars, parseVars, parser, starvation, hNew, seekVars, pinVars>>

FirstPin == IF "video" \in connected THEN "video" ELSE "audio"

(* (Mutated form: m_hStop is not set.)                                     *)
BeginStopQuiet(p) ==
  /\ committed' = [committed EXCEPT ![p] = FALSE]
  /\ hStop' = hStop
  /\ app' = [Idle EXCEPT !.op = "joinPin", !.pin = p]

\* Outpin::Stop and StopThread of pin p, up to the wait for its thread
BeginStop(p) ==
  /\ committed' = [committed EXCEPT ![p] = FALSE]
  /\ hStop' = [hStop EXCEPT ![p] = @ \/ th[p] # "none"]
  /\ app' = [Idle EXCEPT !.op = "joinPin", !.pin = p]

(* (Mutated form: Stop does not wait for the parser thread.)               *)
FinalNoWait ==
  /\ app.op = "final"
  /\ parser' = parser
  /\ BeginStop(FirstPin)
  /\ UNCHANGED <<fileVars, parseVars, state, flushing, starvation, hNew, seekVars,
                 th, hNewCluster, streamVars, calls>>

Final ==
  /\ app.op = "final" /\ parser \in {"none", "end", "failed"}
  /\ parser' = "none"
  /\ BeginStop(FirstPin)
  /\ UNCHANGED <<fileVars, parseVars, state, flushing, starvation, hNew, seekVars,
                 th, hNewCluster, streamVars, calls>>

Joined(p) == th[p] \in {"none", "end"}

StopNextPin ==
  /\ app.op = "joinPin" /\ app.pin = "video" /\ "audio" \in connected /\ Joined("video")
  /\ th' = [th EXCEPT !["video"] = "none"]
  /\ committed' = [committed EXCEPT !["audio"] = FALSE]
  /\ hStop' = [p \in Tracks |-> p = "audio" /\ th[p] # "none"]
  /\ app' = [app EXCEPT !.pin = "audio"]
  /\ UNCHANGED <<fileVars, parseVars, state, parser, flushing, starvation, hNew,
                 seekVars, hNewCluster, streamVars, calls>>

StopReturns ==
  /\ app.op = "joinPin" /\ Joined(app.pin)
  /\ app.pin = "audio" \/ "audio" \notin connected
  /\ th' = [th EXCEPT ![app.pin] = "none"]
  /\ hStop' = [p \in Tracks |-> FALSE]
  /\ flushing' = FALSE /\ app' = Idle
  /\ UNCHANGED <<fileVars, parseVars, state, parser, starvation, hNew, seekVars,
                 hNewCluster, committed, streamVars, calls>>

-----------------------------------------------------------------------------
(***************************************************************************)
(* Filter::SetCurrPosition.  A seek to the time of the last seek uses the  *)
(* base found then; any other looks for it, with what is loaded now.       *)
(***************************************************************************)
SetStream(p, ns, c) ==
  /\ curr' = [curr EXCEPT ![p] = c]
  /\ base' = [base EXCEPT ![p] = ns]

SetCurrPositionUsingSameTime(p) ==
  /\ SetStream(p, seekBaseNs,
               IF seekBase = Null THEN Null
               ELSE IF seekBase = EOS THEN EOS
               ELSE EntryOf(p, seekBase, seekTimeNs))
  /\ UNCHANGED <<parseVars, currTime, seekBase, seekBaseNs, seekTimeNs>>

SetBase(c, ns, time) == seekBase' = c /\ seekBaseNs' = ns /\ seekTimeNs' = time

\* the block found for track v: an entry of the cues or the result of the search
SeekVideo(p, v) ==
  IF v \in {Null, EOS, NotFull}
  THEN /\ SetBase(EOS, -1, -1)
       /\ SetStream(p, -1, IF p = "audio" \/ v = EOS THEN EOS ELSE Null)
  ELSE LET entry == EntryOf(p, v, Time("video", v))
           ns    == IF entry = EOS THEN Time("video", v) ELSE Time(p, entry)
       IN SetBase(v, ns, Time("video", v)) /\ SetStream(p, ns, entry)

SeekAudioOnly(c, ns) ==
  IF c \in {EOS, NotFull}
  THEN SetBase(EOS, -1, -1) /\ SetStream("audio", -1, IF c = EOS THEN EOS ELSE Null)
  ELSE SetBase(c, FirstTime(c), ns) /\ SetStream("audio", FirstTime(c), c)

\* loading clusters, when the file is cached, until the video track has a block
SearchLoads(n, d) ==
  LET later == {c \in BlocksOf("video") : c > n}
      last  == IF later = {} THEN Clusters ELSE Min(later) - 1
  IN IF ~inCache \/ FirstOf("video", n, d) # NotFull THEN {<<n, d>>}
     ELSE (IF later = {} THEN {<<Clusters, TRUE>>} ELSE LoadCluster(last))
          \cup {<<k, FALSE>> : k \in IF ParseFails THEN n .. last ELSE {}}

(* (Mutated form of SetCurrPosition: every seek looks for the base again.) *)
SeekAnew(p, t) ==
  /\ currTime' = t
  /\ loaded' = loaded /\ done' = done
  /\ IF loaded = 0 THEN SetBase(Null, -1, -1) /\ SetStream(p, -1, Null)
     ELSE IF p = "audio" /\ "video" \notin connected
     THEN SeekAudioOnly(SeekOf("audio", t, loaded, done), t)
     ELSE SeekVideo(p, SeekOf("video", t, loaded, done))

SetCurrPosition(p, t) ==
  IF currTime = t THEN SetCurrPositionUsingSameTime(p)
  ELSE
    /\ currTime' = t
    /\ \E s \in (IF inCache THEN LoadCluster(loaded) ELSE {}) \cup
                (IF inCache /\ ~ParseFails THEN {} ELSE {<<loaded, done>>}) :
         IF s[1] = 0
         THEN /\ Parsed(s)
              /\ SetBase(Null, -1, -1) /\ SetStream(p, -1, Null)
         ELSE IF p = "audio" /\ "video" \notin connected
         THEN /\ Parsed(s)
              /\ SeekAudioOnly(SeekOf("audio", t, s[1], s[2]), t)
         ELSE \/ /\ inCache /\ Parsed(s)
                 /\ \E c \in BlocksOf("video") : SeekVideo(p, c)
              \/ \E r \in SearchLoads(s[1], s[2]) :
                   /\ Parsed(r)
                   /\ SeekVideo(p, SeekOf("video", t, r[1], r[2]))

Sought(p, t) ==
  group' = [t |-> t, pins |-> {p} \cup (IF group.t = t THEN group.pins ELSE {})]

(***************************************************************************)
(* Outpin::SetPositions.  Unless the filter is stopped the pin's thread is *)
(* ended first and started again afterwards.                               *)
(***************************************************************************)
SetPositionsStopped(p, t) ==
  /\ Call /\ p \in connected /\ state = "stopped"
  /\ SetCurrPosition(p, t) /\ Sought(p, t)
  /\ UNCHANGED <<fileVars, state, app, parser, flushing, starvation, hNew, th, pinEvents,
                 committed, sample, sent>>

SetPositions(p, t) ==
  /\ Call /\ p \in connected /\ state # "stopped"
  /\ app' = [Idle EXCEPT !.op = "joinSeek", !.pin = p, !.t = t]
  /\ hStop' = [hStop EXCEPT ![p] = th[p] # "none"]
  /\ UNCHANGED <<fileVars, parseVars, state, parser, flushing, starvation, hNew, seekVars,
                 th, hNewCluster, committed, streamVars>>

SeekAndRestart ==
  /\ app.op = "joinSeek" /\ Joined(app.pin)
  /\ SetCurrPosition(app.pin, app.t) /\ Sought(app.pin, app.t)
  /\ StartThreads({app.pin})
  /\ app' = Idle
  /\ UNCHANGED <<fileVars, state, parser, flushing, starvation, hNew, committed, calls>>

(***************************************************************************)
(* Filter::GetState, with or without a time-out: while a pin starves the   *)
(* answer waits for another cluster.                                       *)
(***************************************************************************)
Fed == starvation < 0 \/ loaded > starvation

GetState(timed) ==
  /\ Call
  /\ starvation' = IF Fed THEN -1 ELSE starvation
  /\ app' = IF Fed THEN app ELSE [Idle EXCEPT !.op = "getState", !.timed = timed]
  /\ UNCHANGED <<fileVars, parseVars, state, parser, flushing, hNew, seekVars, pinVars>>

GetStateWakes ==
  /\ app.op = "getState"
  /\ \/ hNew /\ hNew' = FALSE /\ app' = (IF Fed THEN Idle ELSE app)
     \/ app.timed /\ hNew' = hNew /\ app' = Idle
  /\ starvation' = IF Fed THEN -1 ELSE starvation
  /\ UNCHANGED <<fileVars, parseVars, state, parser, flushing, seekVars, pinVars, calls>>

(***************************************************************************)
(* Filter::OnDisconnectInpin, and Open of another file.  The filter's own  *)
(* event keeps its state.                                                  *)
(***************************************************************************)
Reopen ==
  /\ Call /\ state = "stopped" /\ files < MaxFiles
  /\ blocks' \in [1 .. Clusters -> BlockSets] /\ inCache' \in Cached
  /\ connected' \in (SUBSET Tracks) \ {{}} /\ files' = files + 1
  /\ loaded' = 0 /\ done' = FALSE /\ starvation' = -1
  /\ currTime' = NoSeek /\ SetBase(Null, -1, seekTimeNs)
  /\ group' = [t |-> NoSeek, pins |-> {}]
  /\ curr' = NoPins(Null) /\ base' = NoPins(-1)
  /\ hNewCluster' = NoPins(FALSE) /\ hStop' = NoPins(FALSE)
  /\ sample' = NoPins(Null) /\ sent' = NoPins(Null) /\ committed' = NoPins(FALSE)
  /\ UNCHANGED <<state, app, parser, flushing, hNew, th>>

Application ==
  \/ PauseOrRun
  \/ Stop \/ Final \/ StopNextPin \/ StopReturns
  \/ \E p \in Tracks, t \in SeekTimes : SetPositionsStopped(p, t) \/ SetPositions(p, t)
  \/ SeekAndRestart
  \/ \E timed \in BOOLEAN : GetState(timed)
  \/ GetStateWakes
  \/ Reopen

SplitNext == Parser \/ Application \/ \E p \in Tracks : PinThread(p)

SplitSpec == SplitInit /\ [][SplitNext]_svars

(***************************************************************************)
(* Threads run; a wait ends if what it waits for is there.  Nothing is     *)
(* assumed of the network (DataArrives), and of downstream only that a     *)
(* flush gives back the samples and makes Receive return.                  *)
(***************************************************************************)
ParserRuns   == ParserLoads \/ ParserWaits \/ WaitCancelled
PinLooks(p)  == CountSamples(p) \/ Starve(p) \/ WakeStop(p) \/ WakeNewCluster(p)
PinWorks(p)  == PopulateSamples(p) \/ EndOfStream(p)
BuffersCome(p)    == (~committed[p] \/ PinFlushing(p)) /\ GetBuffers(p)
ReceiveReturns(p) == PinFlushing(p) /\ ReceiveRefused(p)
CallGoesOn   == Final \/ StopNextPin \/ StopReturns \/ SeekAndRestart \/ GetStateWakes

FairSplitSpec ==
  /\ SplitSpec
  /\ WF_svars(ParserRuns)
  /\ \A p \in Tracks :
       /\ WF_svars(PinLooks(p)) /\ WF_svars(PinWorks(p))
       /\ WF_svars(BuffersCome(p)) /\ WF_svars(ReceiveReturns(p))
  /\ WF_svars(CallGoesOn)

-----------------------------------------------------------------------------
(***************************************************************************)
(* Types.                                                                  *)
(***************************************************************************)
SplitTypeOK ==
  /\ loaded \in 0 .. Clusters /\ done \in BOOLEAN
  /\ state \in {"stopped", "active"}
  /\ parser \in {"none", "run", "read", "end", "failed"}
  /\ starvation \in -1 .. Clusters
  /\ seekBase \in Null .. EOS
  /\ \A p \in Tracks :
       /\ th[p] \in {"none", "count", "wait", "buffers", "populate", "deliver", "eos", "end"}
       /\ curr[p] \in Null .. EOS
       /\ th[p] \in {"buffers", "populate"} => curr[p] \in BlocksOf(p)

(***************************************************************************)
(* "When stop completes, all threads should be stopped": between calls a   *)
(* stopped filter has no thread, and a pin's thread runs only while its    *)
(* allocator is committed or the application waits for the thread.         *)
(***************************************************************************)
NoThreadWhenStopped ==
  /\ state = "stopped" /\ app = Idle => parser = "none" /\ th = NoPins("none")
  /\ \A p \in Tracks : th[p] # "none" =>
       p \in connected /\ (committed[p] \/ app = [Idle EXCEPT !.op = "joinPin", !.pin = p])

(***************************************************************************)
(* "All pins have the same base time": pins that are sought to the same    *)
(* time one after the other start from the same base, whatever the parser  *)
(* thread has loaded in between.                                           *)
(***************************************************************************)
SameBase ==
  \A p, q \in group.pins :
    base[p] = base[q] \/ curr[p] = Null \/ curr[q] = Null

(***************************************************************************)
(* A pin delivers the blocks of its track one after the other, none before *)
(* the base time, and ends the stream only after the last one.             *)
(***************************************************************************)
NoneBetween(p, c, e) == \A b \in BlocksOf(p) : ~(c < b /\ b < e)

DeliversInOrder ==
  \A p \in Tracks :
    /\ sent'[p] \notin {sent[p], Null} =>
         /\ Time(p, sent'[p]) >= base[p]
         /\ sent[p] # Null => sent'[p] > sent[p] /\ NoneBetween(p, sent[p], sent'[p])
    /\ EndOfStream(p) /\ sent[p] # Null => NoneBetween(p, sent[p], EOS)

DeliveredInOrder == [][DeliversInOrder]_svars

(***************************************************************************)
(* A pin's thread that sleeps for want of a cluster has nothing to         *)
(* deliver, or will be told: the parser thread is still at work, or has    *)
(* failed.                                                                 *)
(***************************************************************************)
StarvingPinIsTold ==
  \A p \in Tracks :
    th[p] = "wait" /\ ~hStop[p] /\ ~hNewCluster[p] =>
      \/ InitCurr(p) = NotFull
      \/ parser \in {"run", "read", "failed"}
      \/ state = "stopped"

(***************************************************************************)
(* GetState without a time-out does not sleep on when a cluster has come   *)
(* since the stream starved.                                               *)
(***************************************************************************)
GetStateIsTold ==
  app.op = "getState" /\ Fed => hNew \/ parser \in {"run", "read", "failed"}

(***************************************************************************)
(* Who sleeps is told, and who must not run does not, in one invariant.    *)
(***************************************************************************)
ThreadsInv == SplitTypeOK /\ NoThreadWhenStopped /\ StarvingPinIsTold /\ GetStateIsTold

(***************************************************************************)
(* Stop and SetPositions return: the threads they wait for end, wherever   *)
(* they are blocked.                                                       *)
(***************************************************************************)
WaitsForThread == app.op \in {"final", "joinPin", "joinSeek"}

StopAndSeekReturn == WaitsForThread ~> ~WaitsForThread

=============================================================================
