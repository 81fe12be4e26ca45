----------------------------- MODULE MuxFilter ------------------------------
(***************************************************************************)
(* The muxer filter around the interleaver: the streaming threads of the   *)
(* two input pins (src/webmmux/webmmuxinpin.cc), the application thread    *)
(* that runs, pauses and stops the graph (webmmuxfilter.cc), and a thread  *)
(* that flushes, all sharing the filter lock (common/clockable.cc).        *)
(*                                                                         *)
(* A streaming thread that gets ahead of the other stream waits inside     *)
(* Receive, without the lock, on two auto-reset events: its own pin's      *)
(* m_hStateChangeOrFlush and the other pin's m_hSample.  An event that is  *)
(* set while nobody waits stays set until a wait or ResetEvent takes it;   *)
(* that a thread may still be on its way to the wait when SetEvent and     *)
(* ResetEvent are called is the case where Wake has not happened yet.      *)
(***************************************************************************)
EXTENDS MuxContext

CONSTANTS
  VideoBuffers,  \* samples in the allocator of the video connection
  Orderly,       \* upstream leaves Receive before EndFlush, and both before a restart
  MaxAppCalls    \* Pause, Run and Stop calls

ASSUME FilterAssumption ==
  VideoBuffers \in Nat /\ Orderly \in BOOLEAN /\ MaxAppCalls \in Nat

Pins == {"video", "audio"}

VARIABLES
  state,       \* m_state: "stopped", "paused", "running"
  lock,        \* holder of the filter lock: "none", a pin, "app", or "flush"
  th,          \* where each pin's streaming thread is
  pinEOS,      \* Inpin::m_bEndOfStream
  pinFlush,    \* Inpin::m_bFlush
  hSample,     \* Inpin::m_hSample is set
  hChange,     \* Inpin::m_hStateChangeOrFlush is set
  flushing,    \* the pin BeginFlush is working for, "none" if none
  planned,     \* how many frames each upstream has in this session
  completes,   \* EC_COMPLETE events sent in this session
  appCalls

pinVars == <<pinEOS, pinFlush>>
events  == <<hSample, hChange>>
filterVars == <<state, lock, th, pinVars, events, flushing, planned, completes, appCalls>>
allVars == <<vars, filterVars>>

Other(p) == IF p = "video" THEN "audio" ELSE "video"

StreamWaits(p) == IF p = "video" THEN WaitVideo ELSE WaitAudio

Arrived(p) == IF p = "video" THEN Len(video) ELSE Len(audio)

(***************************************************************************)
(* Upstream has sent what it has: planned frames, or its last timecode.    *)
(***************************************************************************)
SourceDone(p) ==
  \/ Arrived(p) = planned[p]
  \/ p = "video" /\ video # <<>> /\ \A t \in VideoTimes : t <= Back(video).t
  \/ p = "audio" /\ audio # <<>> /\ \A t \in AudioTimes : t <= Back(audio).t

FilterInit ==
  /\ Init
  /\ state = "stopped" /\ lock = "none"
  /\ th = [p \in Pins |-> "upstream"]
  /\ pinEOS = [p \in Pins |-> FALSE] /\ pinFlush = [p \in Pins |-> FALSE]
  /\ hSample = [p \in Pins |-> FALSE] /\ hChange = [p \in Pins |-> FALSE]
  /\ flushing = "none" /\ completes = 0 /\ appCalls = 0
  /\ planned \in [Pins -> 0 .. (IF MaxVideo > MaxAudio THEN MaxVideo ELSE MaxAudio)]
  /\ planned["video"] <= MaxVideo /\ planned["audio"] <= MaxAudio

-----------------------------------------------------------------------------
(***************************************************************************)
(* Inpin::Receive up to m_pStream->Receive: the sample is refused when     *)
(* stopped, after EndOfStream and while flushing (those returns change     *)
(* nothing).  The muxer keeps the video samples it has queued, so upstream *)
(* has to find a free one first.                                           *)
(***************************************************************************)
SampleArrives(p) ==
  /\ Arrived(p) < planned[p]
  /\ \/ p = "video" /\ Len(vframes) < VideoBuffers
        /\ \E t \in VideoTimes, key \in BOOLEAN : NotifyVideoFrame(t, key)
     \/ p = "audio" /\ \E t \in AudioTimes : NotifyAudioFrame(t)
     \/ p = "audio" /\ ReceiveVorbisHeader

Receive(p) ==
  /\ th[p] = "upstream" /\ lock = "none"
  /\ state # "stopped" /\ ~pinEOS[p] /\ ~pinFlush[p]
  /\ SampleArrives(p)
  /\ lock' = p /\ th' = [th EXCEPT ![p] = "receive"]
  /\ UNCHANGED <<state, pinVars, events, flushing, planned, completes, appCalls>>

(***************************************************************************)
(* ... and after it: the other pin is notified.                            *)
(***************************************************************************)
(* (Mutated form of NotifyOther: the event is not set.)                    *)
NotifyNobody(p) ==
  /\ th[p] = "receive" /\ lock = p /\ pc = "idle"
  /\ th' = [th EXCEPT ![p] = "wait"]
  /\ UNCHANGED <<vars, state, lock, pinVars, events, flushing, planned, completes, appCalls>>

NotifyOther(p) ==
  /\ th[p] = "receive" /\ lock = p /\ pc = "idle"
  /\ hSample' = [hSample EXCEPT ![p] = TRUE]
  /\ th' = [th EXCEPT ![p] = "wait"]
  /\ UNCHANGED <<vars, state, lock, pinVars, hChange, flushing, planned, completes, appCalls>>

(***************************************************************************)
(* One iteration of Inpin::Wait up to CoWaitForMultipleHandles.            *)
(***************************************************************************)
MayReturn(p) ==
  \/ pinFlush[p]
  \/ state = "stopped"
  \/ state = "running" /\ ~StreamWaits(p)

WaitCheck(p) ==
  /\ th[p] = "wait" /\ lock = p
  /\ lock' = "none"
  /\ th' = [th EXCEPT ![p] = IF MayReturn(p) THEN "upstream" ELSE "blocked"]
  /\ UNCHANGED <<vars, state, pinVars, events, flushing, planned, completes, appCalls>>

(***************************************************************************)
(* CoWaitForMultipleHandles returns and takes the event.                   *)
(***************************************************************************)
Wake(p) ==
  /\ th[p] = "blocked"
  /\ \/ hChange[p] /\ hChange' = [hChange EXCEPT ![p] = FALSE] /\ UNCHANGED hSample
     \/ /\ ~hChange[p] /\ hSample[Other(p)]
        /\ hSample' = [hSample EXCEPT ![Other(p)] = FALSE] /\ UNCHANGED hChange
  /\ th' = [th EXCEPT ![p] = "seize"]
  /\ UNCHANGED <<vars, state, lock, pinVars, flushing, planned, completes, appCalls>>

Reseize(p) ==
  /\ th[p] = "seize" /\ lock = "none"
  /\ lock' = p /\ th' = [th EXCEPT ![p] = "wait"]
  /\ UNCHANGED <<vars, state, pinVars, events, flushing, planned, completes, appCalls>>

(***************************************************************************)
(* Inpin::EndOfStream and OnEndOfStream: EC_COMPLETE is sent when the      *)
(* stream's EndOfStream has finalised the file.                            *)
(***************************************************************************)
EndOfStream(p) ==
  /\ th[p] = "upstream" /\ lock = "none" /\ pc = "idle"
  /\ state # "stopped" /\ p \in streams /\ ~pinEOS[p]
  /\ SourceDone(p)
  /\ pinEOS' = [pinEOS EXCEPT ![p] = TRUE]
  /\ IF p = "video" THEN NotifyVideoEOS ELSE NotifyAudioEOS
  /\ lock' = p /\ th' = [th EXCEPT ![p] = "eos"]
  /\ UNCHANGED <<state, pinFlush, events, flushing, planned, completes, appCalls>>

(* Mutated forms of OnEndOfStream: the other pin is not notified; each     *)
(* stream completes the graph.                                             *)
OnEndOfStreamSilent(p) ==
  /\ th[p] = "eos" /\ lock = p /\ pc = "idle"
  /\ completes' = IF cEOS = 0 THEN completes + 1 ELSE completes
  /\ lock' = "none" /\ th' = [th EXCEPT ![p] = "upstream"]
  /\ UNCHANGED <<vars, state, pinVars, events, flushing, planned, appCalls>>

OnEndOfAnyStream(p) ==
  /\ th[p] = "eos" /\ lock = p /\ pc = "idle"
  /\ hSample' = [hSample EXCEPT ![p] = TRUE]
  /\ completes' = completes + 1
  /\ lock' = "none" /\ th' = [th EXCEPT ![p] = "upstream"]
  /\ UNCHANGED <<vars, state, pinVars, hChange, flushing, planned, appCalls>>

OnEndOfStream(p) ==
  /\ th[p] = "eos" /\ lock = p /\ pc = "idle"
  /\ hSample' = [hSample EXCEPT ![p] = TRUE]
  /\ completes' = IF cEOS = 0 THEN completes + 1 ELSE completes
  /\ lock' = "none" /\ th' = [th EXCEPT ![p] = "upstream"]
  /\ UNCHANGED <<vars, state, pinVars, hChange, flushing, planned, appCalls>>

-----------------------------------------------------------------------------
(***************************************************************************)
(* BeginFlush and EndFlush of a pin.  A pin has no stream to flush while   *)
(* the filter is stopped.                                                  *)
(***************************************************************************)
FlushWithoutStream ==
  /\ streams = {} /\ flushes < MaxFlush
  /\ flushes' = flushes + 1
  /\ UNCHANGED <<queues, file, sealed, video, audio, needKey, eosVars, setup, control>>

BeginFlush(p) ==
  /\ lock = "none" /\ flushing = "none" /\ ~pinFlush[p]
  /\ \/ p = "video" /\ FlushVideo
     \/ p = "audio" /\ FlushAudio
     \/ FlushWithoutStream
  /\ lock' = "flush" /\ flushing' = p
  /\ UNCHANGED <<state, th, pinVars, events, planned, completes, appCalls>>

BeginFlushReturn ==
  /\ lock = "flush" /\ pc = "idle"
  /\ pinFlush' = [pinFlush EXCEPT ![flushing] = TRUE]
  /\ hChange' = [hChange EXCEPT ![flushing] = TRUE]
  /\ lock' = "none" /\ flushing' = "none"
  /\ UNCHANGED <<vars, state, th, pinEOS, hSample, planned, completes, appCalls>>

EndFlush(p) ==
  /\ lock = "none"
  /\ Orderly => pinFlush[p] /\ th[p] = "upstream"
  /\ hChange' = [hChange EXCEPT ![p] = FALSE]
  /\ pinFlush' = [pinFlush EXCEPT ![p] = FALSE]
  /\ UNCHANGED <<vars, state, lock, th, pinEOS, hSample, flushing, planned, completes, appCalls>>

-----------------------------------------------------------------------------
(***************************************************************************)
(* Leaving the stopped state: Inpin::Init of both pins and Outpin::Init.   *)
(***************************************************************************)
InitPins ==
  /\ Orderly => \A p \in Pins : th[p] = "upstream" /\ ~pinFlush[p]
  /\ \E ss \in StreamSets, isOgg \in OggModes : Open(ss, TRUE, isOgg)
  /\ pinEOS' = [p \in Pins |-> FALSE] /\ pinFlush' = [p \in Pins |-> FALSE]
  /\ hSample' = [p \in Pins |-> FALSE] /\ hChange' = [p \in Pins |-> FALSE]
  /\ completes' = 0

AppCall ==
  /\ lock = "none" /\ appCalls < MaxAppCalls
  /\ appCalls' = appCalls + 1
  /\ UNCHANGED <<th, flushing, planned>>

Pause ==
  /\ AppCall
  /\ \/ state = "stopped" /\ InitPins
     \/ state # "stopped" /\ UNCHANGED <<vars, pinVars, events, completes>>
  /\ state' = "paused"
  /\ UNCHANGED lock

Run ==
  /\ AppCall
  /\ \/ state = "stopped" /\ InitPins
     \/ /\ state # "stopped" /\ hChange' = [p \in Pins |-> TRUE]
        /\ UNCHANGED <<vars, pinVars, hSample, completes>>
  /\ state' = "running"
  /\ UNCHANGED lock

(***************************************************************************)
(* Filter::Stop: Outpin::Final closes the context, the pins delete their   *)
(* streams and signal the transition, and the state becomes stopped.       *)
(***************************************************************************)
Stop ==
  /\ AppCall
  /\ state # "stopped"
  /\ Close
  /\ lock' = "app"
  /\ UNCHANGED <<state, pinVars, events, completes>>

(* Mutated forms of StopReturn: the threads are not signalled; the state   *)
(* is left as it was.                                                      *)
StopReturnSilent ==
  /\ lock = "app" /\ pc = "idle"
  /\ state' = "stopped"
  /\ lock' = "none"
  /\ UNCHANGED <<vars, th, pinVars, events, flushing, planned, completes, appCalls>>

StopReturnKeepsState ==
  /\ lock = "app" /\ pc = "idle"
  /\ hChange' = [p \in Pins |-> TRUE]
  /\ lock' = "none"
  /\ UNCHANGED <<vars, state, th, pinVars, hSample, flushing, planned, completes, appCalls>>

StopReturn ==
  /\ lock = "app" /\ pc = "idle"
  /\ hChange' = [p \in Pins |-> TRUE]
  /\ state' = "stopped"
  /\ lock' = "none"
  /\ UNCHANGED <<vars, th, pinVars, hSample, flushing, planned, completes, appCalls>>

SetMuxMode ==
  /\ state = "stopped" /\ lock = "none"
  /\ \E mode \in LiveModes : mode # live /\ SetLiveMuxMode(mode)
  /\ UNCHANGED filterVars

-----------------------------------------------------------------------------
ContextStep == lock # "none" /\ InternalStep /\ UNCHANGED filterVars

StreamingStep(p) ==
  \/ Receive(p) \/ NotifyOther(p) \/ WaitCheck(p) \/ Wake(p) \/ Reseize(p)
  \/ EndOfStream(p) \/ OnEndOfStream(p)

FilterNext ==
  \/ ContextStep
  \/ \E p \in Pins : StreamingStep(p)
  \/ \E p \in Pins : BeginFlush(p) \/ EndFlush(p)
  \/ BeginFlushReturn
  \/ Pause \/ Run \/ Stop \/ StopReturn
  \/ SetMuxMode

FilterSpec == FilterInit /\ [][FilterNext]_allVars

(***************************************************************************)
(* Every thread that can take a step eventually does, and a flush that     *)
(* began is ended; whether the application or a seek ever calls is not     *)
(* assumed.                                                                *)
(***************************************************************************)
FairFilterSpec ==
  /\ FilterSpec
  /\ WF_allVars(ContextStep)
  /\ \A p \in Pins : WF_allVars(StreamingStep(p)) /\ WF_allVars(EndFlush(p))
  /\ WF_allVars(BeginFlushReturn)
  /\ WF_allVars(StopReturn)

-----------------------------------------------------------------------------
(* Every variable of the filter holds a value its declaration allows, and  *)
(* the context is entered only with the lock.                              *)
FilterTypeOK ==
  /\ state \in {"stopped", "paused", "running"}
  /\ lock \in Pins \cup {"none", "app", "flush"}
  /\ th \in [Pins -> {"upstream", "receive", "wait", "blocked", "seize", "eos"}]
  /\ pinEOS \in [Pins -> BOOLEAN] /\ pinFlush \in [Pins -> BOOLEAN]
  /\ hSample \in [Pins -> BOOLEAN] /\ hChange \in [Pins -> BOOLEAN]
  /\ flushing \in Pins \cup {"none"}
  /\ pc # "idle" => lock # "none"
  /\ planned \in [Pins -> Nat] /\ completes \in Nat /\ appCalls \in 0..MaxAppCalls

(* The loop of Wait and the calls after Receive use m_pStream with the     *)
(* lock held: Stop, which deletes the streams, cannot have come in         *)
(* between, however long the thread was blocked.                           *)
StreamAlive ==
  /\ FilterTypeOK
  /\ \A p \in Pins :
       /\ lock = p
       /\ pc # "idle" \/ th[p] = "receive" \/ (th[p] = "wait" /\ state = "running")
       => p \in streams

(* No wake-up is lost: a thread that is blocked although its pin is being  *)
(* flushed, the filter has been stopped, or the other stream has caught up *)
(* has an event coming.  (A flush of the audio pin empties the video queue *)
(* too and sets no event of the video pin, whose thread sleeps on until    *)
(* the next audio sample: the last case is for sessions without a flush.)  *)
NoLostWakeup ==
  \A p \in Pins :
    /\ th[p] = "blocked" /\ lock = "none"
    /\ \/ pinFlush[p]
       \/ state = "stopped"
       \/ state = "running" /\ ~StreamWaits(p) /\ flushes = 0
    => hChange[p] \/ hSample[Other(p)]

(* EC_COMPLETE is sent at most once per session, and only for a file that  *)
(* is complete: the graph manager stops the graph on it.                   *)
CompleteOnce ==
  /\ completes <= 1
  /\ completes = 1 => finals = 1 /\ \A p \in streams : pinEOS[p]

(* While the graph keeps running, the file is finished: no thread stays    *)
(* blocked for good.                                                       *)
FileFinished ==
  <>[](state = "running") => <>(finals = 1)

(* A blocked thread is let go once the filter stops or flushes its pin.    *)
Released ==
  \A p \in Pins :
    th[p] = "blocked" /\ (state = "stopped" \/ pinFlush[p]) ~> th[p] = "upstream"

=============================================================================
