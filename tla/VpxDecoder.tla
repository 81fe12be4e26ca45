----------------------------- MODULE VpxDecoder -----------------------------
(***************************************************************************)
(* The DirectShow VP8/VP9 decoder (src/vpxdecoder; src/vp8decoder and      *)
(* src/vp9decoder are the same filter for one codec).  It has no thread:   *)
(* the source's streaming thread decodes in Receive, gives up the lock to  *)
(* wait for a buffer of the renderer's, and takes the picture from the     *)
(* codec afterwards; meanwhile the application stops, seeks or pauses.     *)
(*                                                                         *)
(* A sample is its number since the last start or seek, a media type the   *)
(* size of its pictures.  The filter graph stops the renderer first and    *)
(* the source last, whose thread it waits for; a source that flushes waits *)
(* for its thread between BeginFlush and EndFlush (SplitFilter).           *)
(***************************************************************************)
EXTENDS Naturals, Sequences

CONSTANTS
  PictureSizes,  \* the sizes a stream, or a line of a picture in memory, may have
  CBuffers,      \* buffers of the output pin's allocator
  MaxFed,        \* bound: samples between two seeks
  MaxOps         \* bound: calls of the application

ASSUME SizesAssumption == PictureSizes \subseteq Nat \ {0}
ASSUME LimitsAssumption == CBuffers \in Nat \ {0} /\ MaxFed \in Nat /\ MaxOps \in Nat

VARIABLES
  mode,       \* Filter::m_state
  input,      \* the type the input pin is connected with, or Unconnected
  output,     \* Outpin::m_pPinConnection is set
  outType,    \* Outpin::m_connection_mtv[0]
  preferred,  \* the size in Outpin::m_preferred_mtv
  cbBuffer,   \* size of the allocator's buffers
  open,       \* the allocator is committed
  spare,      \* its buffers that nobody has
  ctx,        \* m_ctx: the picture get_frame would return
  endOf,      \* Inpin::m_bEndOfStream
  inFlush,    \* Inpin::m_bFlush
  stream,     \* where the source's thread is
  cur,        \* the sample in Receive
  fed,        \* samples since the last start or seek
  picture,    \* the picture on its way to the renderer
  sinkFlush,  \* the renderer is being flushed
  kept,       \* buffers the renderer has
  shown,      \* what it accepted since the last start or seek
  sealed,     \* and whether the stream ended
  refused,    \* it refused a picture while it was running
  keySeen,    \* a key frame was decoded since the last start or failure
  graph, ops  \* where the application's call is, and how many it made

filter   == <<mode, ctx, endOf, inFlush, keySeen>>
pinVars  == <<input, output, outType, preferred, cbBuffer>>
outPool  == <<open, spare>>
renderer == <<sinkFlush, kept, shown, sealed, refused>>
thread   == <<stream, cur, fed, picture>>
vpxVars  == <<filter, pinVars, outPool, renderer, thread, graph, ops>>

Unconnected == 0
NoPicture == 0
Gone == MaxFed + 1  \* what a destroyed codec would return

Waiting == {"pausedWaiting", "runningWaiting"}
Running == {"running", "runningWaiting"}

VpxInit ==
  /\ mode = "stopped" /\ ctx = Gone
  /\ endOf = FALSE /\ inFlush = FALSE /\ keySeen = FALSE
  /\ input = Unconnected /\ output = FALSE /\ outType = Unconnected
  /\ preferred = Unconnected /\ cbBuffer = 0
  /\ open = FALSE /\ spare = CBuffers
  /\ sinkFlush = FALSE /\ kept = 0 /\ shown = <<>> /\ sealed = FALSE /\ refused = FALSE
  /\ stream = "none" /\ cur = 0 /\ fed = 0 /\ picture = NoPicture
  /\ graph = "idle" /\ ops = 0

-----------------------------------------------------------------------------
(* The application.                                                        *)
Op == graph = "idle" /\ ops < MaxOps /\ ops' = ops + 1

(* Pins are connected and disconnected while the whole graph is stopped.   *)
ConnectOp ==
  /\ Op /\ mode = "stopped" /\ stream = "none"
  /\ UNCHANGED <<filter, outPool, renderer, thread, graph>>

(* Inpin::ReceiveConnection and Outpin::OnInpinConnect.                    *)
ReceiveConnection(size) ==
  /\ ConnectOp /\ input = Unconnected
  /\ input' = size /\ preferred' = size
  /\ UNCHANGED <<output, outType, cbBuffer>>

(* Outpin::QueryAccept: the lines may be longer than the picture's.        *)
QueryAccept(type) == input # Unconnected /\ type >= input

(***************************************************************************)
(* Outpin::Connect, with a type or with those the pin prefers.  The other  *)
(* pin may refuse, the allocator when the type is stored already.          *)
(***************************************************************************)
Connect(type) ==
  /\ ConnectOp /\ ~output /\ input # Unconnected
  /\ QueryAccept(type) \/ type = preferred
  /\ \/ /\ output' = TRUE /\ outType' = type
        /\ cbBuffer' \in {size \in PictureSizes : size >= type}
     \/ outType' \in {Unconnected, type} /\ UNCHANGED <<output, cbBuffer>>
  /\ UNCHANGED <<input, preferred>>

DisconnectOutpin ==
  /\ ConnectOp /\ output
  /\ output' = FALSE /\ outType' = Unconnected /\ cbBuffer' = 0
  /\ UNCHANGED <<input, preferred>>

(* Mutated form: the output pin stays connected.                           *)
DisconnectInpinAlone ==
  /\ ConnectOp /\ input # Unconnected
  /\ input' = Unconnected /\ preferred' = Unconnected
  /\ UNCHANGED <<output, outType, cbBuffer>>

(* Pin::Disconnect of the input pin, with Outpin::OnInpinDisconnect.       *)
DisconnectInpin ==
  /\ ConnectOp /\ input # Unconnected
  /\ input' = Unconnected /\ preferred' = Unconnected
  /\ output' = FALSE
  /\ IF output THEN outType' = Unconnected /\ cbBuffer' = 0
     ELSE UNCHANGED <<outType, cbBuffer>>

\* what is seen anew after a start or a seek
NewSegment ==
  /\ fed' = 0 /\ shown' = <<>> /\ sealed' = FALSE /\ refused' = FALSE
  /\ stream' = "idle"

(* Filter::OnStart; then the source starts its thread.                     *)
OnStart(m) ==
  /\ mode = "stopped" /\ input # Unconnected /\ stream = "none"
  /\ mode' = m
  /\ endOf' = FALSE /\ inFlush' = FALSE /\ ctx' = NoPicture /\ keySeen' = FALSE
  /\ open' = output
  /\ NewSegment
  /\ UNCHANGED <<spare, cur, picture, sinkFlush, kept>>

ChangeMode(from, to) ==
  /\ mode = from /\ mode' = to
  /\ UNCHANGED <<ctx, endOf, inFlush, keySeen, outPool, renderer, thread>>

(* Mutated form: a key frame is no longer waited for.                      *)
PauseForgetsWaiting ==
  /\ Op
  /\ \/ OnStart("pausedWaiting")
     \/ ChangeMode("running", "paused")
     \/ ChangeMode("runningWaiting", "paused")
  /\ UNCHANGED <<pinVars, graph>>

VpxPause ==
  /\ Op
  /\ \/ OnStart("pausedWaiting")
     \/ ChangeMode("running", "paused")
     \/ ChangeMode("runningWaiting", "pausedWaiting")
  /\ UNCHANGED <<pinVars, graph>>

VpxRun ==
  /\ Op
  /\ \/ OnStart("runningWaiting")
     \/ ChangeMode("paused", "running")
     \/ ChangeMode("pausedWaiting", "runningWaiting")
  /\ UNCHANGED <<pinVars, graph>>

(* Filter::Stop, before it the renderer's, after it the source's.          *)
VpxStop ==
  /\ Op /\ mode # "stopped"
  /\ mode' = "stopped" /\ ctx' = Gone /\ open' = FALSE
  /\ spare' = spare + kept /\ kept' = 0
  /\ graph' = "joinStop"
  /\ UNCHANGED <<endOf, inFlush, keySeen, pinVars, sinkFlush, shown, sealed, refused, thread>>

SourceStopped ==
  /\ graph = "joinStop" /\ stream = "none"
  /\ graph' = "idle"
  /\ UNCHANGED <<filter, pinVars, outPool, renderer, thread, ops>>

(***************************************************************************)
(* A seek: Inpin::BeginFlush sets the flag, and then passes the flush on   *)
(* without the lock; the source waits for its thread, ends the flush and   *)
(* starts another.                                                         *)
(***************************************************************************)
VpxBeginFlush ==
  /\ Op /\ mode # "stopped"
  /\ inFlush' = TRUE
  /\ graph' = IF output THEN "flush" ELSE "joinFlush"
  /\ UNCHANGED <<mode, ctx, endOf, keySeen, pinVars, outPool, renderer, thread>>

(* Mutated form: the flush is not passed on.                               *)
FlushNobody ==
  /\ graph = "flush" /\ graph' = "joinFlush"
  /\ UNCHANGED <<filter, pinVars, outPool, renderer, thread, ops>>

FlushRenderer ==
  /\ graph = "flush" /\ graph' = "joinFlush"
  /\ sinkFlush' = TRUE /\ spare' = spare + kept /\ kept' = 0
  /\ UNCHANGED <<filter, pinVars, open, shown, sealed, refused, thread, ops>>

(* Mutated form: the end of stream outlives the seek.                      *)
VpxEndFlushKeepsEnd ==
  /\ graph = "joinFlush" /\ stream = "none"
  /\ inFlush' = FALSE /\ sinkFlush' = FALSE
  /\ NewSegment /\ graph' = "idle"
  /\ UNCHANGED <<mode, ctx, endOf, keySeen, pinVars, outPool, kept, cur, picture, ops>>

VpxEndFlush ==
  /\ graph = "joinFlush" /\ stream = "none"
  /\ inFlush' = FALSE /\ endOf' = FALSE /\ sinkFlush' = FALSE
  /\ NewSegment /\ graph' = "idle"
  /\ UNCHANGED <<mode, ctx, keySeen, pinVars, outPool, kept, cur, picture, ops>>

-----------------------------------------------------------------------------
(* The source's thread; it ends when a call does not return S_OK.          *)

\* the source has its thread end between two samples, or has no more of them
ThreadEnds ==
  /\ stream = "idle" /\ graph # "idle" /\ stream' = "none"
  /\ UNCHANGED <<filter, pinVars, outPool, renderer, cur, fed, picture, graph, ops>>

Rejects == ~output \/ mode = "stopped" \/ endOf \/ inFlush

SampleRejected ==
  /\ stream = "idle" /\ fed < MaxFed /\ Rejects /\ stream' = "none"
  /\ UNCHANGED <<filter, pinVars, outPool, renderer, cur, fed, picture, graph, ops>>

(* Filter::OnDecodeFailureLocked and OnDecodeSuccessLocked.                *)
AfterFailure == CASE mode = "running" -> "runningWaiting"
                  [] mode = "paused"  -> "pausedWaiting"
                  [] OTHER -> mode
AfterSuccess(key) == CASE key /\ mode = "runningWaiting" -> "running"
                       [] key /\ mode = "pausedWaiting"  -> "paused"
                       [] OTHER -> mode

DecodeFails ==
  /\ stream = "idle" /\ fed < MaxFed /\ ~Rejects
  /\ mode' = AfterFailure /\ keySeen' = FALSE /\ ctx' = NoPicture
  /\ fed' = fed + 1
  /\ UNCHANGED <<endOf, inFlush, pinVars, outPool, renderer, stream, cur, picture, graph, ops>>

(* Receive up to where the lock is released: a frame may be hidden, and    *)
(* the picture of a preroll sample stays in the codec.                     *)
Decode(key, preroll, hidden) ==
  /\ stream = "idle" /\ fed < MaxFed /\ ~Rejects
  /\ mode' = AfterSuccess(key) /\ keySeen' = (keySeen \/ key)
  /\ fed' = fed + 1 /\ cur' = fed + 1
  /\ ctx' = IF hidden THEN NoPicture ELSE fed + 1
  /\ stream' = IF preroll THEN "idle" ELSE "getBuffer"
  /\ UNCHANGED <<endOf, inFlush, pinVars, outPool, renderer, picture, graph, ops>>

GetOutBuffer ==
  /\ stream = "getBuffer"
  /\ \/ ~open /\ stream' = "none" /\ UNCHANGED spare
     \/ open /\ spare > 0 /\ stream' = "getFrame" /\ spare' = spare - 1
  /\ UNCHANGED <<filter, pinVars, open, renderer, cur, fed, picture, graph, ops>>

(* Mutated form: the filter's state is not looked at again.                *)
GetFrameUnchecked ==
  /\ stream = "getFrame"
  /\ IF ctx = NoPicture
     THEN stream' = "idle" /\ spare' = spare + 1 /\ UNCHANGED <<picture, outType>>
     ELSE /\ stream' = "render" /\ picture' = ctx
          /\ outType' \in {outType} \cup {t \in PictureSizes : QueryAccept(t) /\ t <= cbBuffer}
          /\ UNCHANGED spare
  /\ UNCHANGED <<filter, input, output, preferred, cbBuffer, open, renderer, cur, fed, graph, ops>>

(***************************************************************************)
(* Receive with the buffer and the lock again.  The renderer may have      *)
(* attached another media type to its buffer.                              *)
(***************************************************************************)
GetFrame ==
  /\ stream = "getFrame"
  /\ IF mode = "stopped" \/ ctx = NoPicture
     THEN /\ stream' = IF mode = "stopped" THEN "none" ELSE "idle"
          /\ spare' = spare + 1 /\ UNCHANGED <<picture, outType>>
     ELSE /\ stream' = "render" /\ picture' = ctx
          /\ outType' \in {outType} \cup {t \in PictureSizes : QueryAccept(t) /\ t <= cbBuffer}
          /\ UNCHANGED spare
  /\ UNCHANGED <<filter, input, output, preferred, cbBuffer, open, renderer, cur, fed, graph, ops>>

(* The renderer's Receive: it shows a picture when the graph runs, holds   *)
(* the thread while it is paused, and may fail.                            *)
RendererShows ==
  /\ stream = "render" /\ mode \in Running /\ ~sinkFlush
  /\ shown' = Append(shown, [picture |-> picture, time |-> cur])
  /\ kept' = kept + 1 /\ stream' = "idle"
  /\ UNCHANGED <<filter, pinVars, outPool, sinkFlush, sealed, refused, cur, fed, picture,
                 graph, ops>>

RendererRefuses ==
  /\ stream = "render"
  /\ refused' = (refused \/ (mode # "stopped" /\ ~sinkFlush))
  /\ spare' = spare + 1 /\ stream' = "none"
  /\ UNCHANGED <<filter, pinVars, open, sinkFlush, kept, shown, sealed, cur, fed, picture,
                 graph, ops>>

RendererReleases ==
  /\ kept > 0 /\ mode \in Running
  /\ kept' = kept - 1 /\ spare' = spare + 1
  /\ UNCHANGED <<filter, pinVars, open, sinkFlush, shown, sealed, refused, thread, graph, ops>>

(* Inpin::EndOfStream, which is passed on without the lock.                *)
VpxEndOfStream ==
  /\ stream = "idle"
  /\ endOf' = TRUE
  /\ stream' = IF output THEN "end" ELSE "none"
  /\ UNCHANGED <<mode, ctx, inFlush, keySeen, pinVars, outPool, renderer, cur, fed, picture,
                 graph, ops>>

EndIsPassed ==
  /\ stream = "end" /\ stream' = "none"
  /\ sealed' = (mode # "stopped" /\ ~sinkFlush)
  /\ UNCHANGED <<filter, pinVars, outPool, sinkFlush, kept, shown, refused, cur, fed, picture,
                 graph, ops>>

-----------------------------------------------------------------------------
VpxApplication ==
  \/ \E size \in PictureSizes : ReceiveConnection(size) \/ Connect(size)
  \/ DisconnectOutpin \/ DisconnectInpin
  \/ VpxPause \/ VpxRun \/ VpxStop \/ SourceStopped
  \/ VpxBeginFlush \/ FlushRenderer \/ VpxEndFlush

VpxThread ==
  \/ ThreadEnds \/ SampleRejected \/ DecodeFails
  \/ \E key, preroll, hidden \in BOOLEAN : Decode(key, preroll, hidden)
  \/ GetOutBuffer \/ GetFrame
  \/ RendererShows \/ RendererRefuses \/ RendererReleases
  \/ VpxEndOfStream \/ EndIsPassed

VpxNext == VpxApplication \/ VpxThread

(* A call that began goes on, a thread that is asked to end does, and a    *)
(* running renderer shows what it gets and gives buffers back; nothing is  *)
(* assumed of a paused one.                                                *)
CallEnds == SourceStopped \/ FlushRenderer \/ VpxEndFlush
ReceiveGoesOn == ThreadEnds \/ GetOutBuffer \/ GetFrame \/ EndIsPassed
RendererAnswers ==
  RendererShows \/ (stream = "render" /\ (sinkFlush \/ mode = "stopped") /\ RendererRefuses)

VpxFairness ==
  /\ WF_vpxVars(CallEnds) /\ WF_vpxVars(ReceiveGoesOn)
  /\ WF_vpxVars(RendererAnswers) /\ WF_vpxVars(RendererReleases)

VpxSpec == VpxInit /\ [][VpxNext]_vpxVars

FairVpxSpec == VpxSpec /\ VpxFairness

-----------------------------------------------------------------------------
Samples == 1..MaxFed

FlagTypes ==
  /\ output \in BOOLEAN /\ open \in BOOLEAN /\ endOf \in BOOLEAN /\ inFlush \in BOOLEAN
  /\ sinkFlush \in BOOLEAN /\ sealed \in BOOLEAN /\ refused \in BOOLEAN /\ keySeen \in BOOLEAN

SizeTypes ==
  /\ input \in PictureSizes \cup {Unconnected} /\ outType \in PictureSizes \cup {Unconnected}
  /\ preferred \in PictureSizes \cup {Unconnected} /\ cbBuffer \in PictureSizes \cup {0}

DataTypes ==
  /\ mode \in {"stopped", "paused"} \cup Waiting \cup Running
  /\ spare \in 0..CBuffers /\ kept \in 0..CBuffers
  /\ ctx \in Samples \cup {NoPicture, Gone} /\ cur \in 0..MaxFed /\ fed \in 0..MaxFed
  /\ stream \in {"none", "idle", "getBuffer", "getFrame", "render", "end"}
  /\ graph \in {"idle", "joinStop", "flush", "joinFlush"} /\ ops \in 0..MaxOps

VpxTypeOK == FlagTypes /\ SizeTypes /\ DataTypes

(* The output pin is connected only with the input pin, and its buffers    *)
(* hold the pictures of the stream that is connected now.                  *)
PinsAgree ==
  output => /\ input # Unconnected /\ preferred = input
            /\ outType >= input /\ cbBuffer >= outType

(* The picture on its way to the renderer is the one decoded from the      *)
(* sample whose time it bears, not one of a codec that has been destroyed  *)
(* meanwhile, and pictures are shown in the order of the samples and none  *)
(* twice, though the lock was given up between decoding and taking it.     *)
ShownInOrder ==
  /\ stream = "render" => picture = cur
  /\ \A i \in DOMAIN shown : shown[i].picture = shown[i].time
  /\ \A i, j \in DOMAIN shown : i < j => shown[i].time < shown[j].time

(* The filter waits for a key frame exactly when it has decoded none since *)
(* it was started or a frame failed, however it is paused and run.         *)
WaitsForKeyframe == mode # "stopped" => (mode \in Waiting <=> ~keySeen)

(* The source's thread does not end early: after every start and seek it   *)
(* goes on to the end of the stream, unless nothing is connected or the    *)
(* renderer failed.                                                        *)
NotCutOff ==
  mode # "stopped" /\ graph = "idle" /\ stream = "none" => sealed \/ ~output \/ refused

DecoderSound == VpxTypeOK /\ PinsAgree /\ ShownInOrder /\ WaitsForKeyframe /\ NotCutOff

(* Stop and seek end, also while a paused renderer holds the thread, and a *)
(* thread that waits for a buffer of a running renderer gets on.           *)
DecoderGoesOn ==
  /\ graph # "idle" ~> graph = "idle"
  /\ stream = "getBuffer" ~> stream # "getBuffer" \/ mode \in {"paused", "pausedWaiting"}
=============================================================================
