--------------------------- MODULE VorbisDecoder ----------------------------
(***************************************************************************)
(* The DirectShow Vorbis decoder (src/webmvorbisdecoder).  The streaming   *)
(* thread of the splitter upstream decodes in Receive and cuts what it     *)
(* decoded into buffers of fixed length, for which it waits; a thread of   *)
(* the decoder's own takes them from a queue and passes them to the        *)
(* renderer; the application starts, stops and seeks.                      *)
(*                                                                         *)
(* A packet is the number of PCM samples it decodes to, a buffer the range *)
(* of PCM samples it carries, counted since decoding last began (`epoch'). *)
(* Each action that holds the filter lock in the code holds it throughout, *)
(* so the lock itself needs no variable.                                   *)
(***************************************************************************)
EXTENDS Naturals, Sequences, FiniteSets

CONSTANTS
  Target,      \* PCM samples of a full buffer: nSamplesPerSec / kSampleRateDivisor
  NBuffers,    \* buffers of the allocator: cBuffers, at least 3
  Packets,     \* numbers of PCM samples a packet may decode to
  LateEOS,     \* whether the upstream may end the stream of a stopped filter
  MaxPackets,  \* bound: packets received between two flushes
  MaxCalls     \* bound: calls of the application

ASSUME TargetAssumption  == Target \in Nat \ {0}
ASSUME BuffersAssumption == NBuffers \in Nat /\ NBuffers >= 3
ASSUME PacketsAssumption == Packets \subseteq Nat
ASSUME LateAssumption    == LateEOS \in BOOLEAN
ASSUME BoundsAssumption  == MaxPackets \in Nat /\ MaxCalls \in Nat

VARIABLES
  active,     \* Filter::m_state # State_Stopped, and then m_packet.packetno >= 0
  eos,        \* Inpin::m_bEndOfStream
  flush,      \* Inpin::m_bFlush
  done,       \* Inpin::m_bDone
  first,      \* Inpin::m_first_reftime >= 0
  pcm,        \* length of every m_channels[j]
  given,      \* Inpin::m_samples: PCM samples put into buffers
  disc,       \* Inpin::m_bDiscontinuity
  buffers,    \* Inpin::m_buffers: buffers and the end of stream
  samples,    \* the event m_hSamples
  free,       \* buffers of the allocator that nobody has
  committed,  \* whether the allocator hands them out
  th, hand,   \* where the decoder's thread is, and its pSample
  up,         \* where the upstream's streaming thread is
  app, calls, \* where the application's call is, and how many it made
  received,   \* packets since decoding last began
  epoch,      \* how often it began
  held,       \* buffers the renderer keeps
  out, ended  \* what it got since then: buffers, and the end of stream

inpin == <<eos, flush, done, first, pcm, given, disc, buffers, samples>>
pool  == <<free, committed>>
sink  == <<held, out, ended>>
vars  == <<active, inpin, pool, th, hand, up, app, calls, received, epoch, sink>>

EOS  == [kind |-> "eos"]
None == [kind |-> "none"]
Buffer(from, d) ==
  [kind |-> "pcm", epoch |-> epoch, from |-> from, to |-> from + Target, disc |-> d]
IsBuffer(b) == b.kind = "pcm"

BuffersIn(q) == Cardinality({i \in 1..Len(q) : IsBuffer(q[i])})
InHand(b)    == IF IsBuffer(b) THEN 1 ELSE 0

Init ==
  /\ active = FALSE /\ eos = FALSE /\ flush = FALSE /\ done = FALSE
  /\ first = FALSE /\ disc = FALSE /\ samples = FALSE
  /\ pcm = 0 /\ given = 0 /\ buffers = <<>>
  /\ free = NBuffers /\ committed = FALSE
  /\ th = "none" /\ hand = None /\ up = "gone" /\ app = "idle"
  /\ calls = 0 /\ received = 0 /\ epoch = 0
  /\ held = 0 /\ out = <<>> /\ ended = FALSE

-----------------------------------------------------------------------------
(***************************************************************************)
(* The upstream's streaming thread.  It ends when Receive does not return  *)
(* S_OK, and after EndOfStream (Outpin::Main of the splitter).             *)
(***************************************************************************)
Refuses == ~active \/ eos \/ flush \/ done

(* Inpin::Receive up to the release of the lock: decoding starts anew with *)
(* the first packet, and Decode appends to every channel.                  *)
Receive ==
  /\ up = "idle" /\ ~Refuses /\ received < MaxPackets
  /\ \E n \in Packets : pcm' = pcm + n
  /\ IF first THEN UNCHANGED <<given, disc>> ELSE given' = 0 /\ disc' = TRUE
  /\ first' = TRUE
  /\ received' = received + 1
  /\ up' = "getbuffer"
  /\ UNCHANGED <<active, eos, flush, done, buffers, samples, pool, th, hand, app,
                 calls, epoch, sink>>

ReceiveRefused ==
  /\ up = "idle" /\ Refuses
  /\ up' = "gone"
  /\ UNCHANGED <<active, inpin, pool, th, hand, app, calls, received, epoch, sink>>

(* PopulateSamples, without the lock: GetBuffer waits for a free buffer    *)
(* and fails when the allocator is decommitted.                            *)
GetBuffer ==
  /\ up = "getbuffer" /\ committed /\ free > 0
  /\ free' = free - 1 /\ up' = "populate"
  /\ UNCHANGED <<active, inpin, committed, th, hand, app, calls, received, epoch, sink>>

GetBufferFails ==
  /\ up = "getbuffer" /\ ~committed
  /\ up' = "gone"
  /\ UNCHANGED <<active, inpin, pool, th, hand, app, calls, received, epoch, sink>>

(* ... and with it: the buffer is filled and queued, or given back, either *)
(* because there is not enough to fill it or because the call is refused.  *)
(* (Mutated form: a packet fills one buffer at most.)                      *)
PopulateSampleOnce ==
  /\ up = "populate" /\ ~Refuses /\ pcm >= Target
  /\ buffers' = Append(buffers, Buffer(given, disc))
  /\ pcm' = pcm - Target /\ given' = given + Target /\ disc' = FALSE
  /\ samples' = TRUE
  /\ up' = "idle"
  /\ UNCHANGED <<active, eos, flush, done, first, pool, th, hand, app, calls, received,
                 epoch, sink>>

PopulateSample ==
  /\ up = "populate" /\ ~Refuses /\ pcm >= Target
  /\ buffers' = Append(buffers, Buffer(given, disc))
  /\ pcm' = pcm - Target /\ given' = given + Target /\ disc' = FALSE
  /\ samples' = TRUE
  /\ up' = "getbuffer"
  /\ UNCHANGED <<active, eos, flush, done, first, pool, th, hand, app, calls, received,
                 epoch, sink>>

(* (Mutated form: the buffer that was not needed is not given back.)       *)
PopulateReturnsLeak ==
  /\ up = "populate" /\ (Refuses \/ pcm < Target)
  /\ up' = IF Refuses THEN "gone" ELSE "idle"
  /\ UNCHANGED <<active, inpin, pool, th, hand, app, calls, received, epoch, sink>>

PopulateReturns ==
  /\ up = "populate" /\ (Refuses \/ pcm < Target)
  /\ free' = free + 1
  /\ up' = IF Refuses THEN "gone" ELSE "idle"
  /\ UNCHANGED <<active, inpin, committed, th, hand, app, calls, received, epoch, sink>>

(* Inpin::EndOfStream: whatever the state of the filter.                   *)
(* (Mutated form: the thread is not woken.)                                *)
EndOfStreamQuietly ==
  /\ up = "idle" /\ (active \/ LateEOS)
  /\ up' = "gone"
  /\ IF flush
     THEN UNCHANGED <<eos, buffers>>
     ELSE eos' = TRUE /\ buffers' = Append(buffers, EOS)
  /\ UNCHANGED <<active, flush, done, first, pcm, given, disc, samples, pool, th, hand,
                 app, calls, received, epoch, sink>>

EndOfStream ==
  /\ up = "idle" /\ (active \/ LateEOS)
  /\ up' = "gone"
  /\ IF flush
     THEN UNCHANGED <<eos, buffers, samples>>
     ELSE eos' = TRUE /\ buffers' = Append(buffers, EOS) /\ samples' = TRUE
  /\ UNCHANGED <<active, flush, done, first, pcm, given, disc, pool, th, hand, app,
                 calls, received, epoch, sink>>

-----------------------------------------------------------------------------
(***************************************************************************)
(* The decoder's thread, Outpin::Main.                                     *)
(***************************************************************************)
(* Inpin::GetSample and what Main makes of its result: the thread ends     *)
(* when the pin is flushed, or stopped with an empty queue.                *)
GetSample ==
  /\ th = "get"
  /\ \/ /\ flush \/ (buffers = <<>> /\ ~active)
        /\ th' = "none" /\ UNCHANGED <<hand, buffers>>
     \/ /\ ~flush /\ buffers = <<>> /\ active
        /\ th' = "wait" /\ UNCHANGED <<hand, buffers>>
     \/ /\ ~flush /\ buffers # <<>>
        /\ buffers' = Tail(buffers)
        /\ IF IsBuffer(Head(buffers))
           THEN th' = "send" /\ hand' = Head(buffers)
           ELSE th' = "sendeos" /\ UNCHANGED hand
  /\ UNCHANGED <<active, eos, flush, done, first, pcm, given, disc, samples, pool, up,
                 app, calls, received, epoch, sink>>

(* The renderer's Receive takes the buffer and keeps it for a while, or    *)
(* does not take it; while it is flushed or stopped it takes none.         *)
Deliver ==
  /\ th = "send" /\ active /\ ~flush
  /\ out' = Append(out, hand) /\ held' = held + 1
  /\ hand' = None /\ th' = "get"
  /\ UNCHANGED <<active, inpin, pool, up, app, calls, received, epoch, ended>>

DeliverFails ==
  /\ th = "send" /\ th' = "completing"
  /\ UNCHANGED <<active, inpin, pool, hand, up, app, calls, received, epoch, sink>>

(* Inpin::OnCompletion: the buffers are dropped, an end of stream is not.  *)
FromEOS(q) == IF \A i \in 1..Len(q) : IsBuffer(q[i]) THEN <<>> ELSE <<EOS>>

OnCompletion ==
  /\ th = "completing" /\ th' = "wait"
  /\ buffers' = FromEOS(buffers) /\ free' = free + BuffersIn(buffers)
  /\ pcm' = 0 /\ done' = TRUE
  /\ UNCHANGED <<active, eos, flush, first, given, disc, samples, committed, hand, up,
                 app, calls, received, epoch, sink>>

PassEOS ==
  /\ th = "sendeos" /\ th' = "wait"
  /\ ended' = (ended \/ (active /\ ~flush))
  /\ UNCHANGED <<active, inpin, pool, hand, up, app, calls, received, epoch, held, out>>

(* WaitForSingleObject on m_hSamples returns; the buffer that was not      *)
(* taken lives until then.                                                 *)
Wake ==
  /\ th = "wait" /\ samples
  /\ samples' = FALSE /\ th' = "get"
  /\ free' = free + InHand(hand) /\ hand' = None
  /\ UNCHANGED <<active, eos, flush, done, first, pcm, given, disc, buffers, committed,
                 up, app, calls, received, epoch, sink>>

(* The renderer has played a buffer.                                       *)
Rendered ==
  /\ held > 0 /\ held' = held - 1 /\ free' = free + 1
  /\ UNCHANGED <<active, inpin, committed, th, hand, up, app, calls, received, epoch,
                 out, ended>>

-----------------------------------------------------------------------------
(***************************************************************************)
(* The application and the graph manager, one call at a time.  A session   *)
(* begins with the decoder and then the upstream; it ends with the         *)
(* renderer, the decoder and then the upstream, which flushes the decoder  *)
(* when it stops its thread (Outpin::StopThread of the splitter).          *)
(***************************************************************************)
Call ==
  /\ app = "idle" /\ calls < MaxCalls
  /\ calls' = calls + 1

Begins ==
  /\ first' = FALSE /\ pcm' = 0
  /\ epoch' = epoch + 1 /\ received' = 0 /\ out' = <<>> /\ ended' = FALSE

(* Filter::OnStart: Inpin::Start, Outpin::Start with Commit and the thread *)
Start ==
  /\ Call /\ ~active
  /\ active' = TRUE /\ eos' = FALSE /\ flush' = FALSE /\ done' = FALSE
  /\ Begins
  /\ committed' = TRUE /\ th' = "get"
  /\ up' = "idle"
  /\ UNCHANGED <<given, disc, buffers, samples, free, hand, app, held>>

(* Filter::Stop: the state and Inpin::Stop with the lock, Outpin::Stop,    *)
(* that is Decommit and then StopThread, without it.                       *)
(* (Mutated form: the thread is not woken.)                                *)
StopQuietly ==
  /\ Call /\ active
  /\ active' = FALSE
  /\ buffers' = <<>> /\ free' = free + BuffersIn(buffers) + held
  /\ first' = FALSE /\ pcm' = 0 /\ held' = 0
  /\ app' = "decommit"
  /\ UNCHANGED <<eos, flush, done, given, disc, samples, committed, th, hand, up,
                 received, epoch, out, ended>>

Stop ==
  /\ Call /\ active
  /\ active' = FALSE
  /\ buffers' = <<>> /\ free' = free + BuffersIn(buffers) + held
  /\ samples' = TRUE
  /\ first' = FALSE /\ pcm' = 0 /\ held' = 0
  /\ app' = "decommit"
  /\ UNCHANGED <<eos, flush, done, given, disc, committed, th, hand, up, received,
                 epoch, out, ended>>

Decommit ==
  /\ app = "decommit" /\ app' = "join" /\ committed' = FALSE
  /\ UNCHANGED <<active, inpin, free, th, hand, up, calls, received, epoch, sink>>

(* (Mutated form: nobody waits for the thread.)                            *)
ThreadStoppedAtOnce ==
  /\ \/ app = "join" /\ app' = "stopped"
     \/ app = "flush" /\ app' = "flushed"
  /\ UNCHANGED <<active, inpin, pool, th, hand, up, calls, received, epoch, sink>>

ThreadStopped ==
  /\ th = "none"
  /\ \/ app = "join" /\ app' = "stopped"
     \/ app = "flush" /\ app' = "flushed"
  /\ UNCHANGED <<active, inpin, pool, th, hand, up, calls, received, epoch, sink>>

(* Inpin::BeginFlush, for a seek and at the end of a session: the renderer *)
(* gives its buffers back and the thread is told; StopThread waits for it. *)
BeginFlush ==
  /\ \/ Call /\ active
     \/ app = "stopped" /\ UNCHANGED calls
  /\ flush' = TRUE /\ samples' = TRUE
  /\ free' = free + held /\ held' = 0
  /\ app' = "flush"
  /\ UNCHANGED <<active, eos, done, first, pcm, given, disc, buffers, committed, th,
                 hand, up, received, epoch, out, ended>>

(* The upstream has waited for its thread, sends Inpin::EndFlush and, when *)
(* this was a seek, starts its thread again.                               *)
(* (Mutated form: decoding goes on from the time it had.)                  *)
EndFlushKeepsTime ==
  /\ app = "flushed" /\ up = "gone"
  /\ flush' = FALSE /\ eos' = FALSE /\ done' = FALSE
  /\ pcm' = 0 /\ UNCHANGED first
  /\ epoch' = epoch + 1 /\ received' = 0 /\ out' = <<>> /\ ended' = FALSE
  /\ buffers' = <<>> /\ free' = free + BuffersIn(buffers)
  /\ IF active THEN th' = "get" /\ up' = "idle" ELSE UNCHANGED <<th, up>>
  /\ app' = "idle"
  /\ UNCHANGED <<active, given, disc, samples, committed, hand, calls, held>>

EndFlush ==
  /\ app = "flushed" /\ up = "gone"
  /\ flush' = FALSE /\ eos' = FALSE /\ done' = FALSE
  /\ Begins
  /\ buffers' = <<>> /\ free' = free + BuffersIn(buffers)
  /\ IF active THEN th' = "get" /\ up' = "idle" ELSE UNCHANGED <<th, up>>
  /\ app' = "idle"
  /\ UNCHANGED <<active, given, disc, samples, committed, hand, calls, held>>

-----------------------------------------------------------------------------
Upstream ==
  \/ Receive \/ ReceiveRefused \/ EndOfStream
  \/ GetBuffer \/ GetBufferFails \/ PopulateSample \/ PopulateReturns

Thread == GetSample \/ Deliver \/ DeliverFails \/ OnCompletion \/ PassEOS \/ Wake

Application ==
  \/ Start \/ Stop \/ BeginFlush
  \/ Decommit \/ ThreadStopped \/ EndFlush

Next == Upstream \/ Thread \/ Rendered \/ Application

Spec == Init /\ [][Next]_vars

(***************************************************************************)
(* Both threads run, the renderer answers and gives buffers back, and a    *)
(* call that began goes on; nobody has to send a packet or make a call.    *)
(***************************************************************************)
VorbisFairness ==
  /\ WF_vars(ReceiveRefused) /\ WF_vars(GetBuffer) /\ WF_vars(GetBufferFails)
  /\ WF_vars(PopulateSample \/ PopulateReturns)
  /\ WF_vars(Thread) /\ WF_vars(Rendered)
  /\ WF_vars(Decommit) /\ WF_vars(ThreadStopped) /\ WF_vars(EndFlush)

FairSpec == Spec /\ VorbisFairness

-----------------------------------------------------------------------------
(* Types, and the buffers of the allocator: each is free, queued, with one *)
(* of the two threads or with the renderer.                                *)
VorbisTypeOK ==
  /\ th \in {"none", "get", "send", "sendeos", "completing", "wait"}
  /\ up \in {"gone", "idle", "getbuffer", "populate"}
  /\ app \in {"idle", "decommit", "join", "stopped", "flush", "flushed"}
  /\ pcm \in Nat /\ given \in Nat /\ received \in 0..MaxPackets /\ calls \in 0..MaxCalls
  /\ free + held + BuffersIn(buffers) + InHand(hand) + (IF up = "populate" THEN 1 ELSE 0)
       = NBuffers

(* The renderer gets what was decoded since the last start or seek, from   *)
(* its beginning, without a gap or a repetition, the first buffer and no   *)
(* other marked as a discontinuity.                                        *)
DecodedInOrder ==
  \A i \in 1..Len(out) :
    out[i] = [kind |-> "pcm", epoch |-> epoch, from |-> (i - 1) * Target,
              to |-> i * Target, disc |-> i = 1]

(* An end of stream comes after every buffer that could be filled, unless  *)
(* the renderer has refused one.                                           *)
EndIsComplete ==
  active /\ ended /\ ~done =>
    Len(out) * Target = (IF first THEN given ELSE 0) /\ pcm < Target

(* Inpin::Start, assert(m_buffers.empty()), and Outpin::StartThread,       *)
(* assert(m_hThread == 0): nothing of the last session is left when one    *)
(* begins, though EndOfStream is accepted by a stopped filter; nor does    *)
(* EndFlush start a second thread.                                         *)
StartsClean ==
  /\ app \in {"stopped", "flushed"} => th = "none" /\ hand = None
  /\ app = "idle" /\ ~active => th = "none" /\ buffers = <<>> /\ hand = None

(* What the renderer gets is the audio from the start or the seek to the   *)
(* end, once and in order, and from one thread at a time.                  *)
RenderedOnce == VorbisTypeOK /\ DecodedInOrder /\ EndIsComplete /\ StartsClean

(* Stop and BeginFlush return, and a Receive that waits for a buffer, or   *)
(* fills one, does; an end of stream is passed on, unless the pin is       *)
(* flushed, stopped or the renderer has refused a buffer.                  *)
CallsReturn ==
  /\ up \in {"getbuffer", "populate"} ~> up \in {"idle", "gone"} \/ flush
  /\ app \in {"decommit", "join"} ~> app = "stopped"
  /\ app = "flush" ~> app = "flushed"
  /\ buffers # <<>> /\ eos ~> ended \/ done \/ flush \/ ~active

(* Inpin::BeginFlush: ``(3) Returns from any blocked calls to the Receive  *)
(* method''.                                                               *)
FlushReleasesReceive == up = "getbuffer" /\ flush ~> up # "getbuffer"

=============================================================================
