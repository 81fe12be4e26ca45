----------------------------- MODULE WebmSource -----------------------------
(***************************************************************************)
(* The file source filter (src/webmsource): the pins and streams of the    *)
(* splitter on a local file.  There is no parser thread: a pin's thread    *)
(* that runs out of clusters loads them itself, under the filter lock, so  *)
(* that it never starves, and both pins' threads and a seek move the same  *)
(* parser on.  What the pins do with samples and threads is as in          *)
(* SplitFilter, whose variables describe this filter too; those of the     *)
(* parser thread, the events and the starvation keep their first value.    *)
(***************************************************************************)
EXTENDS SplitFilter

(* The file is local: all of it is available, and LoadCluster succeeds.    *)
SourceInit == SplitInit /\ inCache

splitOnly == <<parser, flushing, starvation, hNew, pinEvents>>

-----------------------------------------------------------------------------
(* The loops ``for (;;) ... LoadCluster'': with n clusters loaded, what is *)
(* when the next block of track p after cluster c is known, or known not   *)
(* to be.                                                                  *)
LoadUntil(p, c, n, d) ==
  LET later == {e \in BlocksOf(p) : e > n} IN
  IF c > n \/ NextOf(p, c, n, d) # NotFull THEN {<<n, d>>}
  ELSE IF later = {} THEN {<<Clusters, TRUE>>}
  ELSE LoadCluster(Min(later) - 1)

(***************************************************************************)
(* Outpin::PopulateSamples, first part under the lock: GetSampleCount.     *)
(***************************************************************************)
SourceCountSamples(p) ==
  /\ th[p] = "count"
  /\ \E s \in IF curr[p] = Null THEN LoadUntil(p, Null, loaded, done) ELSE {<<loaded, done>>} :
       /\ Parsed(s)
       /\ curr' = [curr EXCEPT ![p] = IF @ = Null THEN FirstOf(p, s[1], s[2]) ELSE @]
  /\ base' = [base EXCEPT ![p] = InitBase(p)]
  /\ th' = [th EXCEPT ![p] = IF curr'[p] = EOS THEN "eos" ELSE "buffers"]
  /\ UNCHANGED <<fileVars, state, app, splitOnly, seekVars, committed, sample, sent, calls>>

(***************************************************************************)
(* Second part, with the buffers: Stream::PopulateSamples.                 *)
(***************************************************************************)
SourcePopulateSamples(p) ==
  /\ th[p] = "populate"
  /\ \E s \in LoadUntil(p, curr[p], loaded, done) :
       /\ Parsed(s)
       /\ curr' = [curr EXCEPT ![p] = NextOf(p, @, s[1], s[2])]
  /\ th' = [th EXCEPT ![p] = IF Time(p, curr[p]) < base[p] THEN "count" ELSE "deliver"]
  /\ sample' = [sample EXCEPT ![p] = curr[p]]
  /\ UNCHANGED <<fileVars, state, app, splitOnly, seekVars, committed, base, sent, calls>>

SourcePinThread(p) ==
  \/ SourceCountSamples(p) \/ GetBuffers(p) \/ SourcePopulateSamples(p)
  \/ Receive(p) \/ ReceiveRefused(p) \/ EndOfStream(p)

-----------------------------------------------------------------------------
(***************************************************************************)
(* Filter::Pause and Run, with OnStart and Outpin::Init.                   *)
(***************************************************************************)
SourcePauseOrRun ==
  /\ Call /\ state' = "active"
  /\ IF state = "stopped"
     THEN /\ StartThreads(connected)
          /\ committed' = [p \in Tracks |-> committed[p] \/ p \in connected]
     ELSE UNCHANGED <<th, pinEvents, sample, sent, committed>>
  /\ UNCHANGED <<fileVars, parseVars, app, parser, flushing, starvation, hNew, seekVars,
                 curr, base>>

(***************************************************************************)
(* Filter::Stop gives up the lock and finalises one pin after the other:   *)
(* Outpin::Final decommits, flushes, waits for the thread, and puts the    *)
(* stream back to its beginning.  Only then is the filter stopped.         *)
(***************************************************************************)
SourceStop ==
  /\ Call /\ state # "stopped"
  /\ committed' = [committed EXCEPT ![FirstPin] = FALSE]
  /\ app' = [Idle EXCEPT !.op = "joinPin", !.pin = FirstPin]
  /\ UNCHANGED <<fileVars, parseVars, state, splitOnly, seekVars, th, streamVars>>

\* the end of StopThread, and Stream::Init
StreamInit(p) ==
  /\ Joined(p) /\ th' = [th EXCEPT ![p] = "none"]
  /\ curr' = [curr EXCEPT ![p] = Null] /\ base' = [base EXCEPT ![p] = -1]
  /\ group' = [group EXCEPT !.pins = @ \ {p}]
  /\ UNCHANGED <<sample, sent, currTime, seekBase, seekBaseNs, seekTimeNs>>

SourceStopNextPin ==
  /\ app.op = "joinPin" /\ app.pin = "video" /\ "audio" \in connected
  /\ StreamInit("video")
  /\ committed' = [committed EXCEPT !["audio"] = FALSE]
  /\ app' = [app EXCEPT !.pin = "audio"]
  /\ UNCHANGED <<fileVars, parseVars, state, splitOnly, calls>>

SourceStopReturns ==
  /\ app.op = "joinPin" /\ (app.pin = "audio" \/ "audio" \notin connected)
  /\ StreamInit(app.pin)
  /\ state' = "stopped" /\ app' = Idle
  /\ UNCHANGED <<fileVars, parseVars, splitOnly, committed, calls>>

(***************************************************************************)
(* Filter::SetCurrPosition: as the splitter's, but what is needed for the  *)
(* search is loaded whatever it takes.                                     *)
(***************************************************************************)
SourceSetCurrPosition(p, t) ==
  IF currTime = t THEN SetCurrPositionUsingSameTime(p)
  ELSE
    /\ currTime' = t
    /\ LET sought == IF "video" \in connected THEN "video" ELSE p IN
       \E s \in LoadCluster(loaded) : \E r \in LoadUntil(sought, Null, s[1], s[2]) :
         IF sought = "audio"
         THEN Parsed(r) /\ SeekAudioOnly(SeekOf("audio", t, r[1], r[2]), t)
         ELSE \/ Parsed(r) /\ SeekVideo(p, SeekOf("video", t, r[1], r[2]))
              \/ Parsed(s) /\ \E c \in BlocksOf("video") : SeekVideo(p, c)

(***************************************************************************)
(* Outpin::SetPositions: the pin is flushed, not decommitted, and its      *)
(* thread, which may have ended long before, is waited for.                *)
(***************************************************************************)
SourceSetPositionsStopped(p, t) ==
  /\ Call /\ p \in connected /\ state = "stopped"
  /\ SourceSetCurrPosition(p, t) /\ Sought(p, t)
  /\ UNCHANGED <<fileVars, state, app, splitOnly, th, committed, sample, sent>>

SourceSetPositions(p, t) ==
  /\ Call /\ p \in connected /\ state # "stopped"
  /\ app' = [Idle EXCEPT !.op = "joinSeek", !.pin = p, !.t = t]
  /\ UNCHANGED <<fileVars, parseVars, state, splitOnly, seekVars, th, committed, streamVars>>

SourceSeekAndRestart ==
  /\ app.op = "joinSeek" /\ Joined(app.pin)
  /\ SourceSetCurrPosition(app.pin, app.t) /\ Sought(app.pin, app.t)
  /\ StartThreads({app.pin})
  /\ app' = Idle
  /\ UNCHANGED <<fileVars, state, parser, flushing, starvation, hNew, committed, calls>>

SourceApplication ==
  \/ SourcePauseOrRun
  \/ SourceStop \/ SourceStopNextPin \/ SourceStopReturns
  \/ \E p \in Tracks, t \in SeekTimes :
       SourceSetPositionsStopped(p, t) \/ SourceSetPositions(p, t)
  \/ SourceSeekAndRestart

SourceNext == SourceApplication \/ \E p \in Tracks : SourcePinThread(p)

SourceSpec == SourceInit /\ [][SourceNext]_svars

(* The fairness is the splitter's.                                         *)
SourcePinWorks(p) ==
  SourceCountSamples(p) \/ SourcePopulateSamples(p) \/ EndOfStream(p)
SourceCallGoesOn  == SourceStopNextPin \/ SourceStopReturns \/ SourceSeekAndRestart

FairSourceSpec ==
  /\ SourceSpec
  /\ \A p \in Tracks :
       /\ WF_svars(SourcePinWorks(p))
       /\ WF_svars(BuffersCome(p)) /\ WF_svars(ReceiveReturns(p))
  /\ WF_svars(SourceCallGoesOn)
=============================================================================
