--------------------------- MODULE DecoderProofs ----------------------------
(***************************************************************************)
(* Proofs about the two DirectShow decoders: the Vorbis decoder, for any   *)
(* length and number of buffers, and the VP8/VP9 decoder.                  *)
(***************************************************************************)
EXTENDS VorbisDecoder, VpxDecoder, SequenceTheorems, FiniteSetTheorems, TLAPS

(***************************************************************************)
(* The Vorbis decoder.                                                     *)
(***************************************************************************)
PcmBuffer == [kind : {"pcm"}, epoch : Nat, from : Nat, to : Nat, disc : BOOLEAN]

(* The values of each variable.                                            *)
VorbisFlags ==
  /\ active \in BOOLEAN /\ eos \in BOOLEAN /\ flush \in BOOLEAN /\ done \in BOOLEAN
  /\ first \in BOOLEAN /\ disc \in BOOLEAN /\ samples \in BOOLEAN
  /\ committed \in BOOLEAN /\ ended \in BOOLEAN
  /\ th \in {"none", "get", "send", "sendeos", "completing", "wait"}
  /\ up \in {"gone", "idle", "getbuffer", "populate"}
  /\ app \in {"idle", "decommit", "join", "stopped", "flush", "flushed"}

VorbisSizes ==
  /\ pcm \in Nat /\ given \in Nat /\ received \in 0..MaxPackets /\ calls \in 0..MaxCalls
  /\ free \in Nat /\ held \in Nat /\ epoch \in Nat

VorbisData ==
  /\ disc \in BOOLEAN
  /\ hand \in PcmBuffer \cup {None}
  /\ buffers \in Seq(PcmBuffer \cup {EOS})
  /\ out \in Seq(PcmBuffer)

VorbisTypes == VorbisFlags /\ VorbisSizes /\ VorbisData

AllocatorInv ==
  free + held + BuffersIn(buffers) + InHand(hand) + (IF up = "populate" THEN 1 ELSE 0)
    = NBuffers

(* The buffer that is the k-th since decoding began for the e-th time.     *)
Piece(e, k) ==
  [kind |-> "pcm", epoch |-> e, from |-> k * Target, to |-> (k + 1) * Target,
   disc |-> k = 0]

\* buffers filled since then that were not dropped
Filled == Len(out) + InHand(hand) + BuffersIn(buffers)

(* What is queued follows what the thread has in hand, and that follows    *)
(* what the renderer got; only an end of stream ends the queue.            *)
ChainInv ==
  /\ \A i \in 1..Len(out) : out[i] = Piece(epoch, i - 1)
  /\ IsBuffer(hand) => hand = Piece(epoch, Len(out))
  /\ \A i \in 1..Len(buffers) :
       IF IsBuffer(buffers[i])
       THEN buffers[i] = Piece(epoch, Len(out) + InHand(hand) + i - 1)
       ELSE i = Len(buffers) /\ eos

(* The time of the next buffer is that of all buffers before it.           *)
TimeInv ==
  active /\ ~done =>
    IF first THEN given = Filled * Target /\ disc = (Filled = 0) ELSE Filled = 0

(* Where the threads are, and what they have.                              *)
PlacesInv ==
  /\ IsBuffer(hand) => th \in {"send", "completing"} \/ (th = "wait" /\ done)
  /\ th \in {"send", "completing"} => IsBuffer(hand) /\ ~done
  /\ ~active \/ done => \A i \in 1..Len(buffers) : ~IsBuffer(buffers[i])
  /\ up # "gone" => ~eos
  /\ up \in {"getbuffer", "populate"} => first \/ ~active
  /\ up = "idle" \/ eos => pcm < Target
  /\ th = "sendeos" \/ ended => eos /\ buffers = <<>> /\ ~IsBuffer(hand)

(* Where the application is.                                               *)
SessionInv ==
  /\ app \in {"decommit", "join", "stopped"} => ~active
  /\ app \in {"flush", "flushed"} => flush
  /\ StartsClean
  /\ app = "idle" /\ ~active => up = "gone"

VorbisInv ==
  /\ VorbisTypes /\ AllocatorInv /\ ChainInv /\ TimeInv /\ PlacesInv /\ SessionInv

-----------------------------------------------------------------------------
(* The buffers in a queue.                                                 *)
InQueue(q) == {i \in 1..Len(q) : IsBuffer(q[i])}

LEMMA CountNat ==
  ASSUME NEW S, NEW q \in Seq(S)
  PROVE  /\ IsFiniteSet(InQueue(q))
         /\ BuffersIn(q) = Cardinality(InQueue(q)) /\ BuffersIn(q) \in Nat
<1>1. Len(q) \in Nat
  BY LenProperties
<1>2. IsFiniteSet(1..Len(q)) /\ InQueue(q) \subseteq 1..Len(q)
  BY <1>1, FS_Interval DEF InQueue
<1>3. IsFiniteSet(InQueue(q))
  BY <1>2, FS_Subset
<1> QED
  BY <1>3, FS_CardinalityType DEF BuffersIn, InQueue

LEMMA CountNone ==
  ASSUME NEW q, \A i \in 1..Len(q) : ~IsBuffer(q[i])
  PROVE  BuffersIn(q) = 0
<1>1. {i \in 1..Len(q) : IsBuffer(q[i])} = {}
  OBVIOUS
<1> QED
  BY <1>1, FS_EmptySet DEF BuffersIn

LEMMA CountAll ==
  ASSUME NEW S, NEW q \in Seq(S), \A i \in 1..Len(q) : IsBuffer(q[i])
  PROVE  BuffersIn(q) = Len(q)
<1>1. Len(q) \in Nat
  BY LenProperties
<1>2. {i \in 1..Len(q) : IsBuffer(q[i])} = 1..Len(q)
  OBVIOUS
<1>3. Cardinality(1..Len(q)) = Len(q)
  BY <1>1, FS_Interval
<1> QED
  BY <1>2, <1>3 DEF BuffersIn

LEMMA CountAppend ==
  ASSUME NEW S, NEW q \in Seq(S), NEW b \in S
  PROVE  BuffersIn(Append(q, b)) = BuffersIn(q) + InHand(b)
<1>1. /\ Len(q) \in Nat /\ Len(Append(q, b)) = Len(q) + 1
      /\ \A i \in 1..Len(q) : Append(q, b)[i] = q[i]
      /\ Append(q, b)[Len(q) + 1] = b
  BY LenProperties, AppendProperties
<1>2. CASE IsBuffer(b)
  <2>1. InQueue(Append(q, b)) = InQueue(q) \cup {Len(q) + 1} /\ Len(q) + 1 \notin InQueue(q)
    BY <1>1, <1>2 DEF InQueue
  <2>2. Cardinality(InQueue(Append(q, b))) = Cardinality(InQueue(q)) + 1
    BY <2>1, CountNat, FS_AddElement
  <2>3. Append(q, b) \in Seq(S)
    BY AppendProperties
  <2> QED
    BY <1>2, <2>2, <2>3, CountNat DEF InHand
<1>3. CASE ~IsBuffer(b)
  <2>1. InQueue(Append(q, b)) = InQueue(q)
    BY <1>1, <1>3 DEF InQueue
  <2>2. Append(q, b) \in Seq(S)
    BY AppendProperties
  <2>3. BuffersIn(Append(q, b)) = BuffersIn(q)
    BY <2>1 DEF BuffersIn, InQueue
  <2> QED
    BY <1>3, <2>3, CountNat DEF InHand
<1> QED
  BY <1>2, <1>3

LEMMA CountTail ==
  ASSUME NEW S, NEW q \in Seq(S), q # <<>>
  PROVE  BuffersIn(q) = InHand(Head(q)) + BuffersIn(Tail(q))
<1> DEFINE A == InQueue(q) \ {1}
           B == InQueue(Tail(q))
           f == [i \in A |-> i - 1]
<1>1. /\ Len(q) \in Nat \ {0} /\ Len(Tail(q)) = Len(q) - 1 /\ Tail(q) \in Seq(S)
      /\ \A i \in 1..Len(Tail(q)) : Tail(q)[i] = q[i + 1]
      /\ Head(q) = q[1]
  BY HeadTailProperties, LenProperties, EmptySeq
<1>2. IsFiniteSet(InQueue(q)) /\ IsFiniteSet(A)
  BY CountNat, FS_RemoveElement
<1>3. f \in Bijection(A, B)
  <2>1. \A i \in A : i \in 2..Len(q) /\ i - 1 \in 1..Len(Tail(q)) /\ IsBuffer(Tail(q)[i - 1])
    BY <1>1 DEF InQueue
  <2>2. f \in [A -> B]
    BY <2>1 DEF InQueue
  <2>3. \A i, j \in A : f[i] = f[j] => i = j
    BY <2>1
  <2>4. \A j \in B : j + 1 \in A /\ f[j + 1] = j
    BY <1>1 DEF InQueue
  <2> QED
    BY <2>2, <2>3, <2>4 DEF Bijection, Injection, Surjection, IsInjective
<1>4. Cardinality(A) = Cardinality(B)
  BY <1>2, <1>3, FS_Bijection DEF ExistsBijection
<1>5. Cardinality(A) = IF 1 \in InQueue(q) THEN Cardinality(InQueue(q)) - 1
                                           ELSE Cardinality(InQueue(q))
  BY <1>2, FS_RemoveElement
<1>6. 1 \in InQueue(q) <=> IsBuffer(Head(q))
  BY <1>1 DEF InQueue
<1>7. BuffersIn(q) = Cardinality(InQueue(q)) /\ BuffersIn(Tail(q)) = Cardinality(B)
  BY DEF BuffersIn, InQueue
<1>8. BuffersIn(q) \in Nat /\ BuffersIn(Tail(q)) \in Nat
  BY <1>1, CountNat
<1> HIDE DEF A, B
<1> QED
  BY <1>4, <1>5, <1>6, <1>7, <1>8 DEF InHand

-----------------------------------------------------------------------------
USE DEF vars, inpin, pool, sink

LEMMA VorbisInitInv == Init => VorbisInv
<1> SUFFICES ASSUME Init PROVE VorbisInv
  OBVIOUS
<1>1. BuffersIn(<<>>) = 0
  BY CountNone
<1>2. VorbisFlags
  BY Zenon DEF Init, VorbisFlags
<1>6. VorbisSizes
  BY BoundsAssumption, BuffersAssumption DEF Init, VorbisSizes
<1>7. VorbisData
  <2>1. disc \in BOOLEAN
    BY Zenon DEF Init
  <2> QED
    BY <2>1 DEF Init, VorbisData
<1>3. AllocatorInv
  BY <1>1, BuffersAssumption DEF Init, AllocatorInv, InHand, IsBuffer, None
<1>4. ChainInv /\ TimeInv
  BY <1>1 DEF Init, ChainInv, TimeInv, IsBuffer, None
<1>5. PlacesInv /\ SessionInv
  BY TargetAssumption DEF Init, PlacesInv, SessionInv, StartsClean, IsBuffer, None
<1> QED
  BY <1>2, <1>3, <1>4, <1>5, <1>6, <1>7 DEF VorbisInv, VorbisTypes

LEMMA NotBuffers == ~IsBuffer(None) /\ ~IsBuffer(EOS) /\ InHand(None) = 0 /\ InHand(EOS) = 0
BY DEF IsBuffer, InHand, None, EOS

LEMMA PcmIsBuffer ==
  ASSUME NEW b \in PcmBuffer
  PROVE  IsBuffer(b) /\ InHand(b) = 1 /\ b # EOS /\ b # None
BY DEF IsBuffer, InHand, PcmBuffer, EOS, None

LEMMA InHandIs ==
  ASSUME NEW b
  PROVE  InHand(b) \in Nat /\ (IsBuffer(b) => InHand(b) = 1) /\ (~IsBuffer(b) => InHand(b) = 0)
BY DEF InHand

(* Only the end of stream is left of a queue.                              *)
LEMMA FromEOSIs ==
  ASSUME NEW q
  PROVE  /\ FromEOS(q) \in Seq(PcmBuffer \cup {EOS})
         /\ \A i \in 1..Len(FromEOS(q)) : ~IsBuffer(FromEOS(q)[i]) /\ i = Len(FromEOS(q))
         /\ BuffersIn(FromEOS(q)) = 0
         /\ FromEOS(q) # <<>> => \E i \in 1..Len(q) : ~IsBuffer(q[i])
<1>1. CASE \A i \in 1..Len(q) : IsBuffer(q[i])
  <2>1. FromEOS(q) = <<>>
    BY <1>1 DEF FromEOS
  <2> QED
    BY <2>1, CountNone
<1>2. CASE ~(\A i \in 1..Len(q) : IsBuffer(q[i]))
  <2>1. FromEOS(q) = <<EOS>>
    BY <1>2 DEF FromEOS
  <2>2. /\ <<EOS>> \in Seq(PcmBuffer \cup {EOS})
        /\ \A i \in 1..Len(<<EOS>>) : ~IsBuffer(<<EOS>>[i]) /\ i = Len(<<EOS>>)
    BY NotBuffers
  <2>3. BuffersIn(<<EOS>>) = 0
    BY <2>2, CountNone
  <2> QED
    BY <1>2, <2>1, <2>2, <2>3
<1> QED
  BY <1>1, <1>2

(* The types are kept by each step.                                        *)
LEMMA VorbisFlagsKept ==
  ASSUME VorbisFlags, Next
  PROVE  VorbisFlags'
<1> USE DEF VorbisFlags
<1>1. CASE Upstream
  <2>1. CASE Receive
    <3>1. first' = TRUE /\ disc' \in BOOLEAN /\ up' = "getbuffer"
      BY <2>1, Zenon DEF Receive
    <3>2. UNCHANGED <<active, eos, flush, done, samples, committed, th, app, ended>>
      BY <2>1 DEF Receive
    <3> QED
      BY <3>1, <3>2
  <2>2. CASE ReceiveRefused
    BY <2>2 DEF ReceiveRefused
  <2>3. CASE EndOfStream
    <3>1. up' = "gone" /\ eos' \in BOOLEAN /\ samples' \in BOOLEAN
      BY <2>3, Zenon DEF EndOfStream
    <3>2. UNCHANGED <<active, flush, done, first, disc, committed, th, app, ended>>
      BY <2>3 DEF EndOfStream
    <3> QED
      BY <3>1, <3>2
  <2>4. CASE GetBuffer
    BY <2>4 DEF GetBuffer
  <2>5. CASE GetBufferFails
    BY <2>5 DEF GetBufferFails
  <2>6. CASE PopulateSample
    BY <2>6 DEF PopulateSample
  <2>7. CASE PopulateReturns
    <3>1. up' \in {"gone", "idle"}
      BY <2>7 DEF PopulateReturns
    <3>2. UNCHANGED <<active, eos, flush, done, first, disc, samples, committed, th, app, ended>>
      BY <2>7 DEF PopulateReturns
    <3> QED
      BY <3>1, <3>2
  <2> QED
    BY <1>1, <2>1, <2>2, <2>3, <2>4, <2>5, <2>6, <2>7 DEF Upstream
<1>2. CASE Thread
  <2>1. CASE GetSample
    <3>1. th' \in {"none", "wait", "send", "sendeos"}
      BY <2>1 DEF GetSample
    <3>2. UNCHANGED <<active, eos, flush, done, first, disc, samples, committed, up, app, ended>>
      BY <2>1 DEF GetSample
    <3> QED
      BY <3>1, <3>2
  <2>2. CASE Deliver
    BY <2>2 DEF Deliver
  <2>3. CASE DeliverFails
    BY <2>3 DEF DeliverFails
  <2>4. CASE OnCompletion
    BY <2>4 DEF OnCompletion
  <2>5. CASE PassEOS
    BY <2>5 DEF PassEOS
  <2>6. CASE Wake
    BY <2>6, ZenonT(40) DEF Wake
  <2> QED
    BY <1>2, <2>1, <2>2, <2>3, <2>4, <2>5, <2>6 DEF Thread
<1>3. CASE Rendered
  BY <1>3 DEF Rendered
<1>4. CASE Application
  <2>1. CASE Start
    BY <2>1 DEF Start, Begins, Call
  <2>2. CASE Stop
    BY <2>2 DEF Stop, Call
  <2>3. CASE BeginFlush
    BY <2>3 DEF BeginFlush
  <2>4. CASE Decommit
    BY <2>4, ZenonT(40) DEF Decommit
  <2>5. CASE ThreadStopped
    BY <2>5 DEF ThreadStopped
  <2>6. CASE EndFlush
    BY <2>6 DEF EndFlush, Begins
  <2> QED
    BY <1>4, <2>1, <2>2, <2>3, <2>4, <2>5, <2>6 DEF Application
<1> QED
  BY <1>1, <1>2, <1>3, <1>4 DEF Next

LEMMA VorbisSizesKept ==
  ASSUME VorbisSizes, VorbisData, Next
  PROVE  VorbisSizes'
<1>1. BuffersIn(buffers) \in Nat /\ InHand(hand) \in Nat
  BY CountNat, InHandIs DEF VorbisData
<1> USE <1>1 DEF VorbisSizes
<1>2. CASE Upstream
  <2>1. CASE Receive
    BY <2>1, PacketsAssumption, BoundsAssumption DEF Receive
  <2>2. CASE PopulateSample
    BY <2>2, TargetAssumption DEF PopulateSample
  <2>3. CASE ReceiveRefused \/ EndOfStream
    BY <2>3 DEF ReceiveRefused, EndOfStream
  <2>4. CASE GetBuffer \/ GetBufferFails \/ PopulateReturns
    BY <2>4 DEF GetBuffer, GetBufferFails, PopulateReturns
  <2> QED
    BY <1>2, <2>1, <2>2, <2>3, <2>4 DEF Upstream
<1>3. CASE Thread
  <2>1. CASE GetSample
    BY <2>1 DEF GetSample
  <2>2. CASE Deliver \/ DeliverFails \/ PassEOS
    BY <2>2 DEF Deliver, DeliverFails, PassEOS
  <2>3. CASE OnCompletion \/ Wake
    BY <2>3 DEF OnCompletion, Wake
  <2> QED
    BY <1>3, <2>1, <2>2, <2>3 DEF Thread
<1>4. CASE Rendered
  BY <1>4 DEF Rendered
<1>5. CASE Application
  <2>1. CASE Start \/ Stop
    BY <2>1, BoundsAssumption, SMTT(30) DEF Start, Stop, Begins, Call
  <2>2. CASE BeginFlush \/ EndFlush
    BY <2>2, BoundsAssumption, SMTT(30) DEF BeginFlush, EndFlush, Begins, Call
  <2>3. CASE Decommit \/ ThreadStopped
    BY <2>3 DEF Decommit, ThreadStopped
  <2> QED
    BY <1>5, <2>1, <2>2, <2>3 DEF Application
<1> QED
  BY <1>2, <1>3, <1>4, <1>5 DEF Next

LEMMA VorbisDataKept ==
  ASSUME VorbisInv, Next
  PROVE  VorbisData'
<1>1. disc' \in BOOLEAN
  BY VorbisFlagsKept, Zenon DEF VorbisInv, VorbisTypes, VorbisFlags
<1> USE <1>1 DEF VorbisInv, VorbisTypes, VorbisData
<1>3. CASE EndOfStream
  <2>1. Append(buffers, EOS) \in Seq(PcmBuffer \cup {EOS})
    BY AppendProperties
  <2> QED
    BY <1>3, <2>1 DEF EndOfStream
<1>6. CASE PopulateSample
  <2>1. Buffer(given, disc) \in PcmBuffer
    BY TargetAssumption DEF VorbisSizes, Buffer, PcmBuffer
  <2>2. Append(buffers, Buffer(given, disc)) \in Seq(PcmBuffer \cup {EOS})
    BY <2>1, AppendProperties
  <2> QED
    BY <1>6, <2>2 DEF PopulateSample
<1>8. CASE GetSample
  <2>1. buffers # <<>> => /\ Tail(buffers) \in Seq(PcmBuffer \cup {EOS})
                          /\ Head(buffers) \in PcmBuffer \cup {EOS}
    BY HeadTailProperties
  <2>2. buffers # <<>> /\ IsBuffer(Head(buffers)) => Head(buffers) \in PcmBuffer
    BY <2>1, NotBuffers
  <2> QED
    BY <1>8, <2>1, <2>2 DEF GetSample
<1>9. CASE Deliver
  <2>1. hand \in PcmBuffer
    BY <1>9, NotBuffers DEF Deliver, PlacesInv
  <2>2. Append(out, hand) \in Seq(PcmBuffer)
    BY <2>1, AppendProperties
  <2> QED
    BY <1>9, <2>2 DEF Deliver
<1>11. CASE OnCompletion
  BY <1>11, FromEOSIs DEF OnCompletion
<1>12. CASE Wake
  BY <1>12 DEF Wake
<1>15. CASE Start
  BY <1>15 DEF Start, Begins
<1>16. CASE Stop
  BY <1>16 DEF Stop
<1>20. CASE EndFlush
  BY <1>20 DEF EndFlush, Begins
<1>21. CASE UNCHANGED <<buffers, hand, out>>
  BY <1>21
<1> QED
  BY <1>3, <1>6, <1>8, <1>9, <1>11, <1>12, <1>15, <1>16, <1>20, <1>21
     DEF Next, Upstream, Thread, Application, Receive, ReceiveRefused, GetBuffer,
         GetBufferFails, PopulateReturns, DeliverFails, PassEOS, Rendered, BeginFlush,
         Decommit, ThreadStopped

(* Counting what the steps do with the queue.                              *)
LEMMA QueueCounts ==
  ASSUME VorbisData
  PROVE  /\ BuffersIn(buffers) \in Nat
         /\ BuffersIn(<<>>) = 0
         /\ BuffersIn(Append(buffers, EOS)) = BuffersIn(buffers)
         /\ Buffer(given, disc) \in PcmBuffer =>
              BuffersIn(Append(buffers, Buffer(given, disc))) = BuffersIn(buffers) + 1
         /\ buffers # <<>> =>
              BuffersIn(buffers) = InHand(Head(buffers)) + BuffersIn(Tail(buffers))
<1> USE DEF VorbisData
<1>1. BuffersIn(buffers) \in Nat /\ BuffersIn(<<>>) = 0
  BY CountNat, CountNone
<1>2. BuffersIn(Append(buffers, EOS)) = BuffersIn(buffers)
  BY <1>1, CountAppend, NotBuffers
<1>3. ASSUME Buffer(given, disc) \in PcmBuffer
      PROVE  BuffersIn(Append(buffers, Buffer(given, disc))) = BuffersIn(buffers) + 1
  BY <1>3, CountAppend, PcmIsBuffer
<1>4. buffers # <<>> => BuffersIn(buffers) = InHand(Head(buffers)) + BuffersIn(Tail(buffers))
  BY CountTail
<1> QED
  BY <1>1, <1>2, <1>3, <1>4

LEMMA NewBuffer ==
  ASSUME VorbisTypes
  PROVE  Buffer(given, disc) \in PcmBuffer
BY TargetAssumption DEF VorbisTypes, VorbisSizes, VorbisData, Buffer, PcmBuffer

(* No step loses a buffer of the allocator or makes one.                   *)
LEMMA AllocatorKept ==
  ASSUME VorbisInv, Next
  PROVE  AllocatorInv'
<1>1. VorbisData /\ VorbisSizes /\ InHand(hand) \in Nat /\ BuffersIn(buffers) \in Nat
  BY InHandIs, QueueCounts DEF VorbisInv, VorbisTypes
<1>2. AllocatorInv /\ NBuffers \in Nat
  BY BuffersAssumption DEF VorbisInv
<1> USE <1>1, <1>2, NotBuffers, QueueCounts DEF AllocatorInv, VorbisSizes
<1>3. CASE EndOfStream
  BY <1>3 DEF EndOfStream
<1>4. CASE GetBuffer
  BY <1>4 DEF GetBuffer
<1>5. CASE PopulateSample
  BY <1>5, NewBuffer, SMTT(30) DEF PopulateSample, VorbisInv
<1>6. CASE PopulateReturns
  BY <1>6 DEF PopulateReturns
<1>7. CASE GetSample
  <2>1. th = "get" => InHand(hand) = 0
    BY InHandIs DEF VorbisInv, PlacesInv
  <2>2. CASE UNCHANGED <<buffers, hand>>
    BY <1>7, <2>2 DEF GetSample
  <2>3. CASE ~UNCHANGED <<buffers, hand>>
    <3>1. buffers # <<>> /\ buffers' = Tail(buffers)
      BY <1>7, <2>3 DEF GetSample
    <3>2. InHand(hand') = InHand(Head(buffers))
      BY <1>7, <2>1, <2>3, InHandIs DEF GetSample
    <3>3. BuffersIn(Tail(buffers)) \in Nat
      BY <3>1, CountNat, HeadTailProperties DEF VorbisData
    <3> QED
      BY <1>7, <2>1, <3>1, <3>2, <3>3, InHandIs DEF GetSample
  <2> QED
    BY <2>2, <2>3
<1>8. CASE Deliver
  <2>1. InHand(hand) = 1
    BY <1>8, InHandIs DEF Deliver, VorbisInv, PlacesInv
  <2> QED
    BY <1>8, <2>1 DEF Deliver
<1>9. CASE OnCompletion
  BY <1>9, FromEOSIs DEF OnCompletion
<1>10. CASE Wake
  BY <1>10 DEF Wake
<1>11. CASE Rendered
  BY <1>11 DEF Rendered
<1>12. CASE Start
  BY <1>12, InHandIs DEF Start, Begins, Call, VorbisInv, SessionInv, StartsClean
<1>13. CASE Stop
  BY <1>13 DEF Stop, Call
<1>14. CASE BeginFlush
  BY <1>14 DEF BeginFlush
<1>15. CASE EndFlush
  BY <1>15 DEF EndFlush
<1>16. CASE UNCHANGED <<free, held, buffers, hand>> /\ (up' = "populate" <=> up = "populate")
  BY <1>16
<1> QED
  BY <1>3, <1>4, <1>5, <1>6, <1>7, <1>8, <1>9, <1>10, <1>11, <1>12, <1>13, <1>14, <1>15,
     <1>16
     DEF Next, Upstream, Thread, Application, Receive, ReceiveRefused, GetBufferFails,
         DeliverFails, PassEOS, Decommit, ThreadStopped

(* Where the application is.                                               *)
LEMMA SessionKept ==
  ASSUME VorbisInv, Next
  PROVE  SessionInv'
<1> USE DEF VorbisInv, SessionInv, StartsClean
<1>1. CASE Upstream
  BY <1>1
     DEF Upstream, Receive, ReceiveRefused, EndOfStream, GetBuffer, GetBufferFails,
         PopulateSample, PopulateReturns, Refuses
<1>2. CASE Thread
  BY <1>2 DEF Thread, GetSample, Deliver, DeliverFails, OnCompletion, PassEOS, Wake
<1>3. CASE Rendered
  BY <1>3 DEF Rendered
<1>4. CASE Application
  <2>1. CASE Start
    BY <2>1 DEF Start, Begins, Call
  <2>2. CASE Stop
    BY <2>2 DEF Stop, Call
  <2>3. CASE BeginFlush
    BY <2>3 DEF BeginFlush, Call
  <2>4. CASE Decommit
    BY <2>4 DEF Decommit
  <2>5. CASE ThreadStopped
    <3>1. th = "none" => hand = None
      BY NotBuffers, PcmIsBuffer DEF PlacesInv, VorbisTypes, VorbisData
    <3> QED
      BY <2>5, <3>1 DEF ThreadStopped
  <2>6. CASE EndFlush
    BY <2>6 DEF EndFlush, Begins
  <2> QED
    BY <1>4, <2>1, <2>2, <2>3, <2>4, <2>5, <2>6 DEF Application
<1> QED
  BY <1>1, <1>2, <1>3, <1>4 DEF Next

(* Where the threads are, and what they have.                              *)
LEMMA PlacesKept ==
  ASSUME VorbisInv, Next
  PROVE  PlacesInv'
<1>1. /\ buffers \in Seq(PcmBuffer \cup {EOS}) /\ Len(buffers) \in Nat
      /\ pcm \in Nat
  BY LenProperties DEF VorbisInv, VorbisTypes, VorbisData, VorbisSizes
<1> USE <1>1, NotBuffers, TargetAssumption DEF VorbisInv, PlacesInv
<1>2. CASE Receive
  BY <1>2 DEF Receive, Refuses
<1>3. CASE ReceiveRefused
  BY <1>3 DEF ReceiveRefused
<1>4. CASE EndOfStream
  <2>1. CASE flush
    BY <1>4, <2>1 DEF EndOfStream
  <2>2. CASE ~flush
    <3>1. /\ Len(Append(buffers, EOS)) = Len(buffers) + 1
          /\ \A i \in 1..Len(buffers) : Append(buffers, EOS)[i] = buffers[i]
          /\ Append(buffers, EOS)[Len(buffers) + 1] = EOS
      BY AppendProperties
    <3>2. ~active \/ done => \A i \in 1..Len(buffers') : ~IsBuffer(buffers'[i])
      BY <1>4, <2>2, <3>1 DEF EndOfStream
    <3> QED
      BY <1>4, <2>2, <3>2 DEF EndOfStream
  <2> QED
    BY <2>1, <2>2
<1>5. CASE GetBuffer
  BY <1>5 DEF GetBuffer
<1>6. CASE GetBufferFails
  BY <1>6 DEF GetBufferFails
<1>7. CASE PopulateSample
  BY <1>7 DEF PopulateSample, Refuses
<1>8. CASE PopulateReturns
  BY <1>8 DEF PopulateReturns, Refuses
<1>9. CASE GetSample
  <2>1. ~IsBuffer(hand)
    BY <1>9 DEF GetSample
  <2>2. CASE UNCHANGED buffers /\ UNCHANGED hand
    BY <1>9, <2>1, <2>2 DEF GetSample
  <2>3. CASE buffers # <<>> /\ buffers' = Tail(buffers)
    <3>1. /\ Len(Tail(buffers)) = Len(buffers) - 1 /\ Head(buffers) = buffers[1]
          /\ \A i \in 1..Len(Tail(buffers)) : Tail(buffers)[i] = buffers[i + 1]
          /\ 1 \in 1..Len(buffers)
      BY <2>3, HeadTailProperties, EmptySeq
    <3>2. ~active \/ done => \A i \in 1..Len(Tail(buffers)) : ~IsBuffer(Tail(buffers)[i])
      BY <3>1
    <3>3. ~IsBuffer(Head(buffers)) => eos /\ Tail(buffers) = <<>>
      BY <3>1, <2>3, EmptySeq, HeadTailProperties DEF ChainInv
    <3>4. ~active \/ done => ~IsBuffer(Head(buffers))
      BY <3>1
    <3>5. CASE IsBuffer(Head(buffers))
      BY <1>9, <2>3, <3>2, <3>4, <3>5 DEF GetSample
    <3>6. CASE ~IsBuffer(Head(buffers))
      BY <1>9, <2>1, <2>3, <3>2, <3>3, <3>6 DEF GetSample
    <3> QED
      BY <3>5, <3>6
  <2> QED
    BY <1>9, <2>2, <2>3 DEF GetSample
<1>10. CASE Deliver
  BY <1>10 DEF Deliver
<1>11. CASE DeliverFails
  BY <1>11 DEF DeliverFails
<1>12. CASE OnCompletion
  BY <1>12, FromEOSIs DEF OnCompletion
<1>13. CASE PassEOS
  BY <1>13 DEF PassEOS
<1>14. CASE Wake
  BY <1>14 DEF Wake
<1>15. CASE Rendered
  BY <1>15 DEF Rendered
<1>16. CASE Start
  BY <1>16 DEF Start, Begins, Call, SessionInv, StartsClean
<1>17. CASE Stop
  BY <1>17 DEF Stop, Call
<1>18. CASE BeginFlush
  BY <1>18 DEF BeginFlush, Call
<1>19. CASE Decommit
  BY <1>19 DEF Decommit
<1>20. CASE ThreadStopped
  BY <1>20 DEF ThreadStopped
<1>21. CASE EndFlush
  BY <1>21 DEF EndFlush, Begins, SessionInv, StartsClean
<1> QED
  BY <1>2, <1>3, <1>4, <1>5, <1>6, <1>7, <1>8, <1>9, <1>10, <1>11, <1>12, <1>13, <1>14,
     <1>15, <1>16, <1>17, <1>18, <1>19, <1>20, <1>21
     DEF Next, Upstream, Thread, Application

(* The order of the buffers.                                               *)
LEMMA ChainKept ==
  ASSUME VorbisInv, Next
  PROVE  ChainInv'
<1>1. /\ VorbisData /\ buffers \in Seq(PcmBuffer \cup {EOS}) /\ out \in Seq(PcmBuffer)
      /\ Len(buffers) \in Nat /\ Len(out) \in Nat
      /\ InHand(hand) \in Nat
  BY LenProperties, InHandIs DEF VorbisInv, VorbisTypes, VorbisData
<1> USE <1>1, NotBuffers DEF VorbisInv, ChainInv
<1>2. CASE EndOfStream
  <2>1. CASE flush
    BY <1>2, <2>1 DEF EndOfStream
  <2>2. CASE ~flush
    <3>1. /\ Len(Append(buffers, EOS)) = Len(buffers) + 1
          /\ \A i \in 1..Len(buffers) : Append(buffers, EOS)[i] = buffers[i]
          /\ Append(buffers, EOS)[Len(buffers) + 1] = EOS
      BY AppendProperties
    <3>2. \A i \in 1..Len(buffers) : IsBuffer(buffers[i])
      BY <1>2 DEF EndOfStream, PlacesInv
    <3>3. /\ buffers' = Append(buffers, EOS) /\ eos'
          /\ UNCHANGED <<out, hand, epoch>>
      BY <1>2, <2>2 DEF EndOfStream
    <3>4. \A i \in 1..Len(buffers') : i \in 1..Len(buffers) \/ i = Len(buffers) + 1
      BY <3>1, <3>3
    <3>5. ASSUME NEW i \in 1..Len(buffers')
          PROVE  IF IsBuffer(buffers'[i])
                 THEN buffers'[i] = Piece(epoch', Len(out') + InHand(hand') + i - 1)
                 ELSE i = Len(buffers') /\ eos'
      <4>1. CASE i \in 1..Len(buffers)
        BY <3>1, <3>2, <3>3, <4>1
      <4>2. CASE i = Len(buffers) + 1
        BY <3>1, <3>3, <4>2
      <4> QED
        BY <3>4, <4>1, <4>2
    <3> QED
      BY <3>3, <3>5
  <2> QED
    BY <2>1, <2>2
<1>3. CASE PopulateSample
  <2>1. /\ Len(Append(buffers, Buffer(given, disc))) = Len(buffers) + 1
        /\ \A i \in 1..Len(buffers) : Append(buffers, Buffer(given, disc))[i] = buffers[i]
        /\ Append(buffers, Buffer(given, disc))[Len(buffers) + 1] = Buffer(given, disc)
    BY NewBuffer, AppendProperties
  <2>2. \A i \in 1..Len(buffers) : IsBuffer(buffers[i])
    BY <1>3 DEF PopulateSample, Refuses
  <2>3. BuffersIn(buffers) = Len(buffers)
    BY <2>2, CountAll
  <2>4. given = Filled * Target /\ disc = (Filled = 0)
    BY <1>3 DEF PopulateSample, Refuses, TimeInv, PlacesInv
  <2>5. Filled \in Nat /\ Filled = Len(out) + InHand(hand) + Len(buffers)
    BY <2>3 DEF Filled
  <2>6. (Filled + 1) * Target = Filled * Target + Target
    BY <2>5, TargetAssumption
  <2>7. Buffer(given, disc) = Piece(epoch, Filled)
    BY <2>4, <2>6 DEF Buffer, Piece
  <2>8. IsBuffer(Buffer(given, disc))
    BY NewBuffer, PcmIsBuffer
  <2>9. /\ buffers' = Append(buffers, Buffer(given, disc))
        /\ UNCHANGED <<out, hand, epoch, eos>>
    BY <1>3 DEF PopulateSample
  <2>10. \A i \in 1..Len(buffers') : i \in 1..Len(buffers) \/ i = Len(buffers) + 1
    BY <2>1, <2>9
  <2>11. ASSUME NEW i \in 1..Len(buffers')
         PROVE  /\ IsBuffer(buffers'[i])
                /\ buffers'[i] = Piece(epoch, Len(out) + InHand(hand) + i - 1)
    <3>1. CASE i \in 1..Len(buffers)
      BY <2>1, <2>2, <2>9, <3>1
    <3>2. CASE i = Len(buffers) + 1
      <4>1. Filled = Len(out) + InHand(hand) + i - 1
        BY <2>5, <3>2
      <4> QED
        BY <2>1, <2>7, <2>8, <2>9, <3>2, <4>1
    <3> QED
      BY <2>10, <3>1, <3>2
  <2> QED
    BY <2>9, <2>11
<1>4. CASE GetSample
  <2>1. ~IsBuffer(hand) /\ InHand(hand) = 0
    BY <1>4, InHandIs DEF GetSample, PlacesInv
  <2>2. CASE th' \in {"none", "wait"}
    BY <1>4, <2>2 DEF GetSample
  <2>3. CASE /\ buffers # <<>> /\ buffers' = Tail(buffers)
             /\ IF IsBuffer(Head(buffers)) THEN hand' = Head(buffers) ELSE UNCHANGED hand
    <3>1. /\ Len(Tail(buffers)) = Len(buffers) - 1 /\ Head(buffers) = buffers[1]
          /\ \A i \in 1..Len(Tail(buffers)) : Tail(buffers)[i] = buffers[i + 1]
          /\ 1 \in 1..Len(buffers)
      BY <2>3, HeadTailProperties, EmptySeq
    <3>2. CASE IsBuffer(Head(buffers))
      <4>1. hand' = Head(buffers) /\ UNCHANGED <<out, epoch, eos>>
        BY <1>4, <2>3, <3>2 DEF GetSample
      <4>2. InHand(hand') = 1
        BY <4>1, <3>2, InHandIs
      <4>3. Head(buffers) = Piece(epoch, Len(out))
        BY <2>1, <3>1, <3>2
      <4>4. ASSUME NEW i \in 1..Len(Tail(buffers))
            PROVE  IF IsBuffer(Tail(buffers)[i])
                   THEN Tail(buffers)[i] = Piece(epoch, Len(out) + 1 + i - 1)
                   ELSE i = Len(Tail(buffers)) /\ eos
        <5>1. i + 1 \in 1..Len(buffers) /\ Tail(buffers)[i] = buffers[i + 1]
          BY <3>1
        <5>2. Len(out) + 0 + (i + 1) - 1 = Len(out) + 1 + i - 1
          OBVIOUS
        <5> QED
          BY <2>1, <3>1, <5>1, <5>2
      <4> QED
        BY <2>3, <4>1, <4>2, <4>3, <4>4
    <3>3. CASE ~IsBuffer(Head(buffers))
      <4>1. Len(buffers) = 1 /\ Len(buffers') = 0
        <5>1. ~IsBuffer(buffers[1]) /\ 1 \in 1..Len(buffers)
          BY <3>1, <3>3
        <5>2. 1 = Len(buffers)
          BY ONLY <5>1, ChainInv DEF ChainInv
        <5>3. buffers' = Tail(buffers) /\ Len(Tail(buffers)) = Len(buffers) - 1
          BY <2>3, <3>1
        <5> QED
          BY ONLY <5>2, <5>3
      <4>2. UNCHANGED <<hand, out, epoch>>
        BY <1>4, <2>3, <3>3 DEF GetSample
      <4> QED
        BY <2>1, <4>1, <4>2
    <3> QED
      BY <3>2, <3>3
  <2> QED
    BY <1>4, <2>2, <2>3 DEF GetSample
<1>5. CASE Deliver
  <2>1. IsBuffer(hand) /\ InHand(hand) = 1 /\ hand = Piece(epoch, Len(out)) /\ hand \in PcmBuffer
    BY <1>5, InHandIs DEF Deliver, PlacesInv, VorbisTypes, VorbisData
  <2>2. /\ Len(Append(out, hand)) = Len(out) + 1
        /\ \A i \in 1..Len(out) : Append(out, hand)[i] = out[i]
        /\ Append(out, hand)[Len(out) + 1] = hand
    BY <2>1, AppendProperties
  <2> QED
    BY <1>5, <2>1, <2>2 DEF Deliver
<1>6. CASE OnCompletion
  <2>1. \A i \in 1..Len(buffers') : ~IsBuffer(buffers'[i]) /\ i = Len(buffers')
    BY <1>6, FromEOSIs DEF OnCompletion
  <2>2. buffers' # <<>> => eos
    BY <1>6, FromEOSIs DEF OnCompletion
  <2> QED
    BY <1>6, <2>1, <2>2 DEF OnCompletion
<1>7. CASE Wake
  <2>1. CASE IsBuffer(hand)
    <3>1. \A i \in 1..Len(buffers) : ~IsBuffer(buffers[i])
      BY <1>7, <2>1 DEF Wake, PlacesInv
    <3> QED
      BY <1>7, <3>1 DEF Wake
  <2>2. CASE ~IsBuffer(hand)
    BY <1>7, <2>2, InHandIs DEF Wake
  <2> QED
    BY <2>1, <2>2
<1>8. CASE Start
  BY <1>8 DEF Start, Begins, Call, SessionInv, StartsClean
<1>9. CASE Stop
  BY <1>9 DEF Stop
<1>10. CASE EndFlush
  BY <1>10 DEF EndFlush, Begins, SessionInv, StartsClean
<1>11. CASE UNCHANGED <<buffers, hand, out, epoch, eos>>
  BY <1>11
<1> QED
  BY <1>2, <1>3, <1>4, <1>5, <1>6, <1>7, <1>8, <1>9, <1>10, <1>11
     DEF Next, Upstream, Thread, Application, Receive, ReceiveRefused, GetBuffer,
         GetBufferFails, PopulateReturns, DeliverFails, PassEOS, Rendered, BeginFlush,
         Decommit, ThreadStopped

(* The time of the buffers.                                                *)
LEMMA TimeKept ==
  ASSUME VorbisInv, Next
  PROVE  TimeInv'
<1>1. /\ VorbisData /\ VorbisSizes
      /\ Len(out) \in Nat /\ InHand(hand) \in Nat /\ BuffersIn(buffers) \in Nat
  BY LenProperties, InHandIs, QueueCounts DEF VorbisInv, VorbisTypes, VorbisData
<1> USE <1>1, NotBuffers, QueueCounts DEF VorbisInv, TimeInv
<1>2. CASE Receive
  <2>1. Filled' = Filled
    BY <1>2 DEF Receive, Filled
  <2>2. ~first => Filled = 0 /\ 0 * Target = 0
    BY <1>2, TargetAssumption DEF Receive, Refuses
  <2> QED
    BY <1>2, <2>1, <2>2 DEF Receive, Refuses
<1>3. CASE EndOfStream
  <2>1. Filled' = Filled
    BY <1>3 DEF EndOfStream, Filled
  <2> QED
    BY <1>3, <2>1 DEF EndOfStream
<1>4. CASE PopulateSample
  <2>1. Filled' = Filled + 1
    BY <1>4, NewBuffer DEF PopulateSample, Filled
  <2>2. Filled \in Nat
    BY DEF Filled
  <2>3. (Filled + 1) * Target = Filled * Target + Target
    BY <2>2, TargetAssumption
  <2>4. first /\ given = Filled * Target
    BY <1>4 DEF PopulateSample, Refuses, PlacesInv
  <2>5. given' = (Filled + 1) * Target /\ first' /\ disc' = FALSE /\ Filled + 1 # 0
    BY <1>4, <2>2, <2>3, <2>4 DEF PopulateSample
  <2> QED
    BY <2>1, <2>5
<1>5. CASE GetSample
  <2>1. InHand(hand) = 0
    BY <1>5, InHandIs DEF GetSample, PlacesInv
  <2>2. Filled' = Filled
    <3>1. CASE UNCHANGED <<buffers, hand>>
      BY <1>5, <3>1 DEF GetSample, Filled
    <3>2. CASE ~UNCHANGED <<buffers, hand>>
      <4>1. buffers # <<>> /\ buffers' = Tail(buffers)
        BY <1>5, <3>2 DEF GetSample
      <4>2. InHand(hand') = InHand(Head(buffers))
        BY <1>5, <2>1, <3>2, InHandIs DEF GetSample
      <4>3. BuffersIn(Tail(buffers)) \in Nat
        BY <4>1, CountNat, HeadTailProperties DEF VorbisData
      <4> QED
        BY <1>5, <2>1, <4>1, <4>2, <4>3, InHandIs DEF GetSample, Filled
    <3> QED
      BY <3>1, <3>2
  <2> QED
    BY <1>5, <2>2 DEF GetSample
<1>6. CASE Deliver
  <2>1. InHand(hand) = 1
    BY <1>6, InHandIs DEF Deliver, PlacesInv
  <2>2. Len(Append(out, hand)) = Len(out) + 1
    BY <1>6, AppendProperties, NotBuffers DEF Deliver, PlacesInv, VorbisData
  <2>3. Filled' = Filled
    BY <1>6, <2>1, <2>2 DEF Deliver, Filled
  <2> QED
    BY <1>6, <2>3 DEF Deliver
<1>7. CASE OnCompletion
  BY <1>7 DEF OnCompletion
<1>8. CASE Wake
  <2>1. CASE IsBuffer(hand)
    BY <1>8, <2>1 DEF Wake, PlacesInv
  <2>2. CASE ~IsBuffer(hand)
    <3>1. Filled' = Filled
      BY <1>8, <2>2, InHandIs DEF Wake, Filled
    <3> QED
      BY <1>8, <3>1 DEF Wake
  <2> QED
    BY <2>1, <2>2
<1>9. CASE Start
  BY <1>9, InHandIs DEF Start, Begins, Call, SessionInv, StartsClean, Filled
<1>10. CASE Stop
  BY <1>10 DEF Stop
<1>11. CASE EndFlush
  BY <1>11, InHandIs DEF EndFlush, Begins, SessionInv, StartsClean, Filled
<1>12. CASE UNCHANGED <<active, done, first, given, disc, out, hand, buffers>>
  <2>1. Filled' = Filled
    BY <1>12 DEF Filled
  <2> QED
    BY <1>12, <2>1
<1> QED
  BY <1>2, <1>3, <1>4, <1>5, <1>6, <1>7, <1>8, <1>9, <1>10, <1>11, <1>12
     DEF Next, Upstream, Thread, Application, ReceiveRefused, GetBuffer,
         GetBufferFails, PopulateReturns, DeliverFails, PassEOS, Rendered, BeginFlush,
         Decommit, ThreadStopped

(* The decoder of the application's calls, of both threads and of the      *)
(* allocator keeps its books (Inpin and Outpin of src/webmvorbisdecoder).  *)
THEOREM VorbisInvariance == Spec => []VorbisInv
<1>1. VorbisInv /\ [Next]_vars => VorbisInv'
  <2> SUFFICES ASSUME VorbisInv, [Next]_vars PROVE VorbisInv'
    OBVIOUS
  <2>1. CASE Next
    <3>1. VorbisTypes'
      BY <2>1, VorbisFlagsKept, VorbisSizesKept, VorbisDataKept DEF VorbisInv, VorbisTypes
    <3> QED
      BY <2>1, <3>1, AllocatorKept, ChainKept, TimeKept, PlacesKept, SessionKept
         DEF VorbisInv
  <2>2. CASE UNCHANGED vars
    BY <2>2
       DEF VorbisInv, VorbisTypes, VorbisFlags, VorbisSizes, VorbisData, AllocatorInv,
           ChainInv, TimeInv, Filled, PlacesInv, SessionInv, StartsClean
  <2> QED
    BY <2>1, <2>2
<1> QED
  BY <1>1, VorbisInitInv, PTL DEF Spec

(* What the renderer gets is the audio since the start or the seek, to its *)
(* end, once and in order, however packets, ends of stream, refusals,      *)
(* stops and seeks interleave (Inpin::PopulateSamples, GetSample and       *)
(* OnCompletion of src/webmvorbisdecoder, with Outpin::Main).              *)
THEOREM AudioRenderedOnce == Spec => []RenderedOnce
<1>1. VorbisInv => RenderedOnce
  <2> SUFFICES ASSUME VorbisInv PROVE RenderedOnce
    OBVIOUS
  <2>1. VorbisTypeOK
    BY DEF VorbisInv, VorbisTypes, VorbisFlags, VorbisSizes, AllocatorInv, VorbisTypeOK
  <2>2. DecodedInOrder
    <3> SUFFICES ASSUME NEW i \in 1..Len(out)
                 PROVE  out[i] = [kind |-> "pcm", epoch |-> epoch, from |-> (i - 1) * Target,
                                  to |-> i * Target, disc |-> i = 1]
      BY DEF DecodedInOrder
    <3>1. out[i] = Piece(epoch, i - 1)
      BY DEF VorbisInv, ChainInv
    <3>2. i \in Nat /\ (i - 1) + 1 = i /\ (i - 1 = 0 <=> i = 1)
      BY LenProperties DEF VorbisInv, VorbisTypes, VorbisData
    <3> QED
      BY <3>1, <3>2, Zenon DEF Piece
  <2>3. EndIsComplete
    <3> SUFFICES ASSUME active, ended, ~done
                 PROVE  Len(out) * Target = (IF first THEN given ELSE 0) /\ pcm < Target
      BY DEF EndIsComplete
    <3>1. eos /\ buffers = <<>> /\ ~IsBuffer(hand) /\ pcm < Target
      BY DEF VorbisInv, PlacesInv
    <3>2. Len(out) \in Nat
      BY LenProperties DEF VorbisInv, VorbisTypes, VorbisData
    <3>3. Filled = Len(out)
      BY <3>1, <3>2, CountNone, InHandIs DEF Filled
    <3>4. 0 * Target = 0
      BY TargetAssumption
    <3> QED
      BY <3>1, <3>3, <3>4 DEF VorbisInv, TimeInv
  <2> QED
    BY <2>1, <2>2, <2>3 DEF VorbisInv, SessionInv, RenderedOnce
<1> QED
  BY <1>1, VorbisInvariance, PTL

HIDE DEF vars, inpin, pool, sink

-----------------------------------------------------------------------------
(***************************************************************************)
(* The VP8/VP9 decoder.                                                    *)
(***************************************************************************)
InReceive == {"getBuffer", "getFrame", "render"}
HasBuffer == IF stream \in {"getFrame", "render"} THEN 1 ELSE 0

ShownType == shown \in Seq([picture : Nat, time : Nat])

(* Every buffer is spare, with the renderer or with the thread.            *)
BuffersCounted == spare \in Nat /\ kept \in Nat /\ spare + kept + HasBuffer = CBuffers

(* The preferred types are always those of the connected input.            *)
PreferredFollows == preferred = input

(* A thread in Receive is about the last sample fed, and the codec of a    *)
(* filter that was not stopped still has that sample's picture, or none.   *)
LastSampleInHand ==
  /\ stream \in InReceive => cur = fed /\ fed # 0
  /\ stream \in {"getBuffer", "getFrame"} /\ mode # "stopped" => ctx \in {NoPicture, cur}
  /\ stream = "render" => picture = cur
  /\ picture \in Samples \cup {NoPicture}

\* what was shown is older than the sample in Receive
ShownBefore ==
  \A i \in DOMAIN shown :
    /\ shown[i].time <= fed
    /\ stream \in InReceive => shown[i].time < cur

(* The flags fit where the application's call is.                          *)
FlagsFit ==
  /\ graph = "joinStop" => mode = "stopped"
  /\ inFlush => graph \in {"flush", "joinFlush"}
  /\ sinkFlush => graph = "joinFlush"
  /\ mode # "stopped" => open = output
  /\ stream \in InReceive \cup {"idle"} => ~endOf

VpxInv ==
  /\ VpxTypeOK /\ ShownType /\ BuffersCounted
  /\ PreferredFollows /\ PinsAgree
  /\ LastSampleInHand /\ ShownBefore /\ ShownInOrder
  /\ FlagsFit /\ WaitsForKeyframe /\ NotCutOff

USE DEF Unconnected, NoPicture, Gone, Waiting, Running, Samples, InReceive, HasBuffer
USE DEF vpxVars, filter, pinVars, outPool, renderer, thread

LEMMA InitInv == VpxInit => VpxInv
<1> SUFFICES ASSUME VpxInit PROVE VpxInv
  OBVIOUS
<1>1. FlagTypes /\ SizeTypes
  BY DEF VpxInit, FlagTypes, SizeTypes
<1>2. DataTypes
  BY LimitsAssumption DEF VpxInit, DataTypes
<1>3. ShownType /\ shown = <<>>
  BY DEF VpxInit, ShownType
<1>4. PreferredFollows /\ PinsAgree /\ BuffersCounted
  BY LimitsAssumption DEF VpxInit, PreferredFollows, PinsAgree, BuffersCounted
<1>5. LastSampleInHand /\ FlagsFit
  BY DEF VpxInit, LastSampleInHand, FlagsFit
<1>6. WaitsForKeyframe /\ NotCutOff
  BY DEF VpxInit, WaitsForKeyframe, NotCutOff
<1>7. ShownBefore /\ ShownInOrder
  BY <1>3 DEF VpxInit, ShownBefore, ShownInOrder
<1> QED
  BY <1>1, <1>2, <1>3, <1>4, <1>5, <1>6, <1>7 DEF VpxInv, VpxTypeOK

LEMMA FlagTypesStep == VpxInv /\ [VpxNext]_vpxVars => FlagTypes'
<1> SUFFICES ASSUME VpxInv, [VpxNext]_vpxVars PROVE FlagTypes'
  OBVIOUS
<1>0. FlagTypes
  BY DEF VpxInv, VpxTypeOK
<1> USE <1>0 DEF FlagTypes
<1>1. CASE \E s \in PictureSizes : Connect(s)
  BY <1>1 DEF Connect, ConnectOp, Op, QueryAccept
<1>2. CASE VpxPause
  BY <1>2 DEF VpxPause, Op, OnStart, ChangeMode, NewSegment
<1>3. CASE VpxRun
  BY <1>3 DEF VpxRun, Op, OnStart, ChangeMode, NewSegment
<1>4. CASE RendererRefuses
  BY <1>4 DEF RendererRefuses
<1>5. CASE EndIsPassed
  BY <1>5 DEF EndIsPassed
<1>6. CASE \E k, p, h \in BOOLEAN : Decode(k, p, h)
  BY <1>6 DEF Decode, AfterSuccess, Rejects
<1>7. CASE \/ (\E s \in PictureSizes : ReceiveConnection(s)) \/ DisconnectOutpin
           \/ DisconnectInpin \/ VpxStop \/ SourceStopped \/ VpxBeginFlush
           \/ FlushRenderer \/ VpxEndFlush \/ ThreadEnds \/ SampleRejected
           \/ DecodeFails \/ GetOutBuffer \/ GetFrame \/ RendererShows
           \/ RendererReleases \/ VpxEndOfStream \/ UNCHANGED vpxVars
  BY <1>7, ZenonT(40) DEF ReceiveConnection, ConnectOp, Op, DisconnectOutpin,
    DisconnectInpin, VpxStop, SourceStopped, VpxBeginFlush, FlushRenderer,
    VpxEndFlush, NewSegment, ThreadEnds, SampleRejected, Rejects, DecodeFails,
    AfterFailure, GetOutBuffer, GetFrame, QueryAccept, RendererShows,
    RendererReleases, VpxEndOfStream
<1> QED
  BY <1>1, <1>2, <1>3, <1>4, <1>5, <1>6, <1>7 DEF VpxNext, VpxApplication,
    VpxThread

LEMMA SizeTypesStep == VpxInv /\ [VpxNext]_vpxVars => SizeTypes'
<1> SUFFICES ASSUME VpxInv, [VpxNext]_vpxVars PROVE SizeTypes'
  OBVIOUS
<1>0. SizeTypes
  BY DEF VpxInv, VpxTypeOK
<1> USE <1>0 DEF SizeTypes
<1>1. CASE \E s \in PictureSizes : ReceiveConnection(s)
  BY <1>1 DEF ReceiveConnection, ConnectOp, Op
<1>2. CASE \E s \in PictureSizes : Connect(s)
  BY <1>2 DEF Connect, ConnectOp, Op, QueryAccept
<1>3. CASE DisconnectInpin
  BY <1>3 DEF DisconnectInpin, ConnectOp, Op
<1>4. CASE DisconnectOutpin
  BY <1>4 DEF DisconnectOutpin, ConnectOp, Op
<1>5. CASE GetFrame
  BY <1>5 DEF GetFrame, QueryAccept
<1>6. CASE \/ VpxPause \/ VpxRun \/ VpxStop \/ SourceStopped \/ VpxBeginFlush
           \/ FlushRenderer \/ VpxEndFlush \/ ThreadEnds \/ SampleRejected
           \/ DecodeFails \/ (\E k, p, h \in BOOLEAN : Decode(k, p, h))
           \/ GetOutBuffer \/ RendererShows \/ RendererRefuses \/ RendererReleases
           \/ VpxEndOfStream \/ EndIsPassed \/ UNCHANGED vpxVars
  BY <1>6 DEF VpxPause, Op, OnStart, ChangeMode, NewSegment, VpxRun, VpxStop,
    SourceStopped, VpxBeginFlush, FlushRenderer, VpxEndFlush, ThreadEnds,
    SampleRejected, Rejects, DecodeFails, AfterFailure, Decode, AfterSuccess,
    GetOutBuffer, RendererShows, RendererRefuses, RendererReleases,
    VpxEndOfStream, EndIsPassed
<1> QED
  BY <1>1, <1>2, <1>3, <1>4, <1>5, <1>6 DEF VpxNext, VpxApplication, VpxThread

LEMMA DataTypesStep == VpxInv /\ [VpxNext]_vpxVars => DataTypes'
<1> SUFFICES ASSUME VpxInv, [VpxNext]_vpxVars PROVE DataTypes'
  OBVIOUS
<1>0. DataTypes /\ BuffersCounted
  BY DEF VpxInv, VpxTypeOK
<1> USE LimitsAssumption, <1>0 DEF DataTypes, BuffersCounted
<1>1. CASE VpxPause
  BY <1>1 DEF VpxPause, Op, OnStart, ChangeMode, NewSegment
<1>2. CASE VpxRun
  BY <1>2 DEF VpxRun, Op, OnStart, ChangeMode, NewSegment
<1>3. CASE VpxStop
  BY <1>3 DEF VpxStop, Op
<1>4. CASE FlushRenderer
  BY <1>4 DEF FlushRenderer
<1>5. CASE VpxEndFlush
  BY <1>5 DEF VpxEndFlush, NewSegment
<1>6. CASE DecodeFails
  BY <1>6 DEF DecodeFails, AfterFailure, Rejects
<1>7. CASE \E k, p, h \in BOOLEAN : Decode(k, p, h)
  BY <1>7 DEF Decode, AfterSuccess, Rejects
<1>8. CASE GetOutBuffer
  BY <1>8 DEF GetOutBuffer
<1>9. CASE GetFrame
  BY <1>9 DEF GetFrame, QueryAccept
<1>10. CASE RendererShows
  BY <1>10 DEF RendererShows
<1>11. CASE RendererRefuses
  BY <1>11 DEF RendererRefuses
<1>12. CASE RendererReleases
  BY <1>12 DEF RendererReleases
<1>13. CASE \/ (\E s \in PictureSizes : ReceiveConnection(s))
            \/ (\E s \in PictureSizes : Connect(s)) \/ DisconnectOutpin
            \/ DisconnectInpin \/ SourceStopped \/ VpxBeginFlush \/ ThreadEnds
            \/ SampleRejected \/ VpxEndOfStream \/ EndIsPassed \/ UNCHANGED vpxVars
  BY <1>13 DEF ReceiveConnection, ConnectOp, Op, Connect, QueryAccept,
    DisconnectOutpin, DisconnectInpin, SourceStopped, VpxBeginFlush,
    ThreadEnds, SampleRejected, Rejects, VpxEndOfStream, EndIsPassed
<1> QED
  BY <1>1, <1>2, <1>3, <1>4, <1>5, <1>6, <1>7, <1>8, <1>9, <1>10, <1>11, <1>12,
    <1>13 DEF VpxNext, VpxApplication, VpxThread

(* A buffer only changes hands.                                           *)
LEMMA BuffersStep == VpxInv /\ [VpxNext]_vpxVars => BuffersCounted'
<1> SUFFICES ASSUME VpxInv, [VpxNext]_vpxVars PROVE BuffersCounted'
  OBVIOUS
<1>0. DataTypes /\ BuffersCounted
  BY DEF VpxInv, VpxTypeOK
<1> USE LimitsAssumption, <1>0 DEF DataTypes, BuffersCounted
<1>1. CASE VpxStop
  BY <1>1 DEF VpxStop, Op
<1>2. CASE FlushRenderer
  BY <1>2 DEF FlushRenderer
<1>3. CASE GetOutBuffer
  BY <1>3 DEF GetOutBuffer
<1>4. CASE GetFrame
  BY <1>4 DEF GetFrame, QueryAccept
<1>5. CASE RendererShows
  BY <1>5 DEF RendererShows
<1>6. CASE RendererRefuses
  BY <1>6 DEF RendererRefuses
<1>7. CASE RendererReleases
  BY <1>7 DEF RendererReleases
<1>8. CASE \/ (\E s \in PictureSizes : ReceiveConnection(s))
           \/ (\E s \in PictureSizes : Connect(s)) \/ DisconnectOutpin
           \/ DisconnectInpin \/ VpxPause \/ VpxRun \/ SourceStopped
           \/ VpxBeginFlush \/ VpxEndFlush \/ ThreadEnds \/ SampleRejected
           \/ DecodeFails \/ (\E k, p, h \in BOOLEAN : Decode(k, p, h))
           \/ VpxEndOfStream \/ EndIsPassed \/ UNCHANGED vpxVars
  BY <1>8 DEF ReceiveConnection, ConnectOp, Op, Connect, QueryAccept,
    DisconnectOutpin, DisconnectInpin, VpxPause, OnStart, ChangeMode,
    NewSegment, VpxRun, SourceStopped, VpxBeginFlush, VpxEndFlush, ThreadEnds,
    SampleRejected, Rejects, DecodeFails, AfterFailure, Decode, AfterSuccess,
    VpxEndOfStream, EndIsPassed
<1> QED
  BY <1>1, <1>2, <1>3, <1>4, <1>5, <1>6, <1>7, <1>8 DEF VpxNext,
    VpxApplication, VpxThread

(* The output pin's type changes while the filter is stopped, or to one    *)
(* that the buffers have room for.                                         *)
LEMMA PinsStep == VpxInv /\ [VpxNext]_vpxVars => PreferredFollows' /\ PinsAgree'
<1> SUFFICES ASSUME VpxInv, [VpxNext]_vpxVars PROVE PreferredFollows' /\ PinsAgree'
  OBVIOUS
<1>0. SizeTypes /\ FlagTypes /\ PreferredFollows /\ PinsAgree
  BY DEF VpxInv, VpxTypeOK
<1> USE SizesAssumption, <1>0 DEF SizeTypes, FlagTypes, PreferredFollows, PinsAgree
<1>1. CASE \E s \in PictureSizes : ReceiveConnection(s)
  BY <1>1 DEF ReceiveConnection, ConnectOp, Op
<1>2. CASE \E s \in PictureSizes : Connect(s)
  BY <1>2 DEF Connect, ConnectOp, Op, QueryAccept
<1>3. CASE DisconnectInpin
  BY <1>3 DEF DisconnectInpin, ConnectOp, Op
<1>4. CASE DisconnectOutpin
  BY <1>4 DEF DisconnectOutpin, ConnectOp, Op
<1>5. CASE GetFrame
  BY <1>5 DEF GetFrame, QueryAccept
<1>6. CASE \/ VpxPause \/ VpxRun \/ VpxStop \/ SourceStopped \/ VpxBeginFlush
           \/ FlushRenderer \/ VpxEndFlush \/ ThreadEnds \/ SampleRejected
           \/ DecodeFails \/ (\E k, p, h \in BOOLEAN : Decode(k, p, h))
           \/ GetOutBuffer \/ RendererShows \/ RendererRefuses \/ RendererReleases
           \/ VpxEndOfStream \/ EndIsPassed \/ UNCHANGED vpxVars
  BY <1>6 DEF VpxPause, Op, OnStart, ChangeMode, NewSegment, VpxRun, VpxStop,
    SourceStopped, VpxBeginFlush, FlushRenderer, VpxEndFlush, ThreadEnds,
    SampleRejected, Rejects, DecodeFails, AfterFailure, Decode, AfterSuccess,
    GetOutBuffer, RendererShows, RendererRefuses, RendererReleases,
    VpxEndOfStream, EndIsPassed
<1> QED
  BY <1>1, <1>2, <1>3, <1>4, <1>5, <1>6 DEF VpxNext, VpxApplication, VpxThread

(* A call of the application begins only when the one before it has ended. *)
LEMMA FlagsStep == VpxInv /\ [VpxNext]_vpxVars => FlagsFit'
<1> SUFFICES ASSUME VpxInv, [VpxNext]_vpxVars PROVE FlagsFit'
  OBVIOUS
<1>0. FlagTypes /\ DataTypes /\ FlagsFit
  BY DEF VpxInv, VpxTypeOK
<1> USE <1>0 DEF FlagTypes, DataTypes, FlagsFit
<1>1. CASE \E s \in PictureSizes : Connect(s)
  BY <1>1 DEF Connect, ConnectOp, Op, QueryAccept
<1>2. CASE DisconnectOutpin
  BY <1>2 DEF DisconnectOutpin, ConnectOp, Op
<1>3. CASE DisconnectInpin
  BY <1>3 DEF DisconnectInpin, ConnectOp, Op
<1>4. CASE VpxPause
  BY <1>4 DEF VpxPause, Op, OnStart, ChangeMode, NewSegment
<1>5. CASE VpxRun
  BY <1>5 DEF VpxRun, Op, OnStart, ChangeMode, NewSegment
<1>6. CASE VpxStop
  BY <1>6 DEF VpxStop, Op
<1>7. CASE VpxBeginFlush
  BY <1>7 DEF VpxBeginFlush, Op
<1>8. CASE FlushRenderer
  BY <1>8 DEF FlushRenderer
<1>9. CASE VpxEndFlush
  BY <1>9 DEF VpxEndFlush, NewSegment
<1>10. CASE DecodeFails
  BY <1>10 DEF DecodeFails, AfterFailure, Rejects
<1>11. CASE \E k, p, h \in BOOLEAN : Decode(k, p, h)
  BY <1>11 DEF Decode, AfterSuccess, Rejects
<1>12. CASE VpxEndOfStream
  BY <1>12 DEF VpxEndOfStream
<1>13. CASE \/ (\E s \in PictureSizes : ReceiveConnection(s)) \/ SourceStopped
            \/ ThreadEnds \/ SampleRejected \/ GetOutBuffer \/ GetFrame
            \/ RendererShows \/ RendererRefuses \/ RendererReleases \/ EndIsPassed
            \/ UNCHANGED vpxVars
  BY <1>13 DEF ReceiveConnection, ConnectOp, Op, SourceStopped, ThreadEnds,
    SampleRejected, Rejects, GetOutBuffer, GetFrame, QueryAccept,
    RendererShows, RendererRefuses, RendererReleases, EndIsPassed
<1> QED
  BY <1>1, <1>2, <1>3, <1>4, <1>5, <1>6, <1>7, <1>8, <1>9, <1>10, <1>11, <1>12,
    <1>13 DEF VpxNext, VpxApplication, VpxThread

(* No frame is decoded while the thread is in Receive, so that the codec    *)
(* still has the last one's picture when the lock is taken again.          *)
LEMMA HandStep == VpxInv /\ [VpxNext]_vpxVars => LastSampleInHand'
<1> SUFFICES ASSUME VpxInv, [VpxNext]_vpxVars PROVE LastSampleInHand'
  OBVIOUS
<1>0. DataTypes /\ LastSampleInHand
  BY DEF VpxInv, VpxTypeOK
<1> USE LimitsAssumption, <1>0 DEF DataTypes, LastSampleInHand
<1>1. CASE VpxPause
  BY <1>1 DEF VpxPause, Op, OnStart, ChangeMode, NewSegment
<1>2. CASE VpxRun
  BY <1>2 DEF VpxRun, Op, OnStart, ChangeMode, NewSegment
<1>3. CASE VpxStop
  BY <1>3 DEF VpxStop, Op
<1>4. CASE VpxEndFlush
  BY <1>4 DEF VpxEndFlush, NewSegment
<1>5. CASE DecodeFails
  BY <1>5 DEF DecodeFails, AfterFailure, Rejects
<1>6. CASE \E k, p, h \in BOOLEAN : Decode(k, p, h)
  BY <1>6 DEF Decode, AfterSuccess, Rejects
<1>7. CASE GetOutBuffer
  BY <1>7 DEF GetOutBuffer
<1>8. CASE GetFrame
  BY <1>8 DEF GetFrame, QueryAccept
<1>9. CASE \/ (\E s \in PictureSizes : ReceiveConnection(s))
           \/ (\E s \in PictureSizes : Connect(s)) \/ DisconnectOutpin
           \/ DisconnectInpin \/ SourceStopped \/ VpxBeginFlush \/ FlushRenderer
           \/ ThreadEnds \/ SampleRejected \/ RendererShows \/ RendererRefuses
           \/ RendererReleases \/ VpxEndOfStream \/ EndIsPassed \/ UNCHANGED vpxVars
  BY <1>9 DEF ReceiveConnection, ConnectOp, Op, Connect, QueryAccept,
    DisconnectOutpin, DisconnectInpin, SourceStopped, VpxBeginFlush,
    FlushRenderer, ThreadEnds, SampleRejected, Rejects, RendererShows,
    RendererRefuses, RendererReleases, VpxEndOfStream, EndIsPassed
<1> QED
  BY <1>1, <1>2, <1>3, <1>4, <1>5, <1>6, <1>7, <1>8, <1>9 DEF VpxNext,
    VpxApplication, VpxThread

LEMMA KeyframeStep == VpxInv /\ [VpxNext]_vpxVars => WaitsForKeyframe'
<1> SUFFICES ASSUME VpxInv, [VpxNext]_vpxVars PROVE WaitsForKeyframe'
  OBVIOUS
<1>0. FlagTypes /\ DataTypes /\ WaitsForKeyframe
  BY DEF VpxInv, VpxTypeOK
<1> USE <1>0 DEF FlagTypes, DataTypes, WaitsForKeyframe
<1>1. CASE VpxPause
  BY <1>1 DEF VpxPause, Op, OnStart, ChangeMode, NewSegment
<1>2. CASE VpxRun
  BY <1>2 DEF VpxRun, Op, OnStart, ChangeMode, NewSegment
<1>3. CASE VpxStop
  BY <1>3 DEF VpxStop, Op
<1>4. CASE DecodeFails
  BY <1>4 DEF DecodeFails, AfterFailure, Rejects
<1>5. CASE \E k, p, h \in BOOLEAN : Decode(k, p, h)
  BY <1>5 DEF Decode, AfterSuccess, Rejects
<1>6. CASE \/ (\E s \in PictureSizes : ReceiveConnection(s))
           \/ (\E s \in PictureSizes : Connect(s)) \/ DisconnectOutpin
           \/ DisconnectInpin \/ SourceStopped \/ VpxBeginFlush \/ FlushRenderer
           \/ VpxEndFlush \/ ThreadEnds \/ SampleRejected \/ GetOutBuffer
           \/ GetFrame \/ RendererShows \/ RendererRefuses \/ RendererReleases
           \/ VpxEndOfStream \/ EndIsPassed \/ UNCHANGED vpxVars
  BY <1>6 DEF ReceiveConnection, ConnectOp, Op, Connect, QueryAccept,
    DisconnectOutpin, DisconnectInpin, SourceStopped, VpxBeginFlush,
    FlushRenderer, VpxEndFlush, NewSegment, ThreadEnds, SampleRejected,
    Rejects, GetOutBuffer, GetFrame, RendererShows, RendererRefuses,
    RendererReleases, VpxEndOfStream, EndIsPassed
<1> QED
  BY <1>1, <1>2, <1>3, <1>4, <1>5, <1>6 DEF VpxNext, VpxApplication, VpxThread

(* What ends the thread between two calls is the end of the stream, an     *)
(* output pin that is not connected, or the renderer's failure.            *)
LEMMA NotCutOffStep == VpxInv /\ [VpxNext]_vpxVars => NotCutOff'
<1> SUFFICES ASSUME VpxInv, [VpxNext]_vpxVars PROVE NotCutOff'
  OBVIOUS
<1>0. FlagTypes /\ DataTypes /\ FlagsFit /\ NotCutOff
  BY DEF VpxInv, VpxTypeOK
<1> USE <1>0 DEF FlagTypes, DataTypes, FlagsFit, NotCutOff
<1>1. CASE VpxPause
  BY <1>1 DEF VpxPause, Op, OnStart, ChangeMode, NewSegment
<1>2. CASE VpxRun
  BY <1>2 DEF VpxRun, Op, OnStart, ChangeMode, NewSegment
<1>3. CASE VpxStop
  BY <1>3 DEF VpxStop, Op
<1>4. CASE VpxEndFlush
  BY <1>4 DEF VpxEndFlush, NewSegment
<1>5. CASE SampleRejected
  BY <1>5 DEF SampleRejected, Rejects
<1>6. CASE GetOutBuffer
  BY <1>6 DEF GetOutBuffer
<1>7. CASE GetFrame
  BY <1>7 DEF GetFrame, QueryAccept
<1>8. CASE RendererRefuses
  BY <1>8 DEF RendererRefuses
<1>9. CASE VpxEndOfStream
  BY <1>9 DEF VpxEndOfStream
<1>10. CASE EndIsPassed
  BY <1>10 DEF EndIsPassed
<1>11. CASE \/ (\E s \in PictureSizes : ReceiveConnection(s))
            \/ (\E s \in PictureSizes : Connect(s)) \/ DisconnectOutpin
            \/ DisconnectInpin \/ SourceStopped \/ VpxBeginFlush \/ FlushRenderer
            \/ ThreadEnds \/ DecodeFails
            \/ (\E k, p, h \in BOOLEAN : Decode(k, p, h)) \/ RendererShows
            \/ RendererReleases \/ UNCHANGED vpxVars
  BY <1>11 DEF ReceiveConnection, ConnectOp, Op, Connect, QueryAccept,
    DisconnectOutpin, DisconnectInpin, SourceStopped, VpxBeginFlush,
    FlushRenderer, ThreadEnds, DecodeFails, AfterFailure, Rejects, Decode,
    AfterSuccess, RendererShows, RendererReleases
<1> QED
  BY <1>1, <1>2, <1>3, <1>4, <1>5, <1>6, <1>7, <1>8, <1>9, <1>10,
    <1>11 DEF VpxNext, VpxApplication, VpxThread

LEMMA TimesAreNumbers ==
  ASSUME ShownType PROVE \A i \in DOMAIN shown : shown[i].time \in Nat
<1>1. TAKE i \in DOMAIN shown
<1>2. i \in 1..Len(shown) /\ shown \in Seq([picture : Nat, time : Nat])
  BY DEF ShownType
<1>3. shown[i] \in [picture : Nat, time : Nat]
  BY <1>2, ElementOfSeq
<1> QED
  BY <1>3

(* What is shown next is the sample in Receive, newer than all before it.  *)
LEMMA ShownStep == VpxInv /\ [VpxNext]_vpxVars => ShownType' /\ ShownBefore' /\ ShownInOrder'
<1> SUFFICES ASSUME VpxInv, [VpxNext]_vpxVars PROVE ShownType' /\ ShownBefore' /\ ShownInOrder'
  OBVIOUS
<1>0. DataTypes /\ ShownType /\ ShownBefore /\ ShownInOrder /\ LastSampleInHand
  BY DEF VpxInv, VpxTypeOK
<1> USE LimitsAssumption, <1>0
    DEF DataTypes, ShownType, ShownBefore, ShownInOrder, LastSampleInHand
<1>1. CASE VpxPause
  <2>1. CASE fed' = 0 /\ shown' = <<>> /\ stream' = "idle"
    BY <2>1
  <2>2. CASE UNCHANGED <<shown, fed, stream, cur, picture>>
    BY <2>2
  <2> QED
    BY <1>1, <2>1, <2>2 DEF VpxPause, Op, OnStart, ChangeMode, NewSegment
<1>2. CASE VpxRun
  <2>1. CASE fed' = 0 /\ shown' = <<>> /\ stream' = "idle"
    BY <2>1
  <2>2. CASE UNCHANGED <<shown, fed, stream, cur, picture>>
    BY <2>2
  <2> QED
    BY <1>2, <2>1, <2>2 DEF VpxRun, Op, OnStart, ChangeMode, NewSegment
<1>3. CASE VpxEndFlush
  BY <1>3 DEF VpxEndFlush, NewSegment
<1>4. CASE DecodeFails
  <2>1. fed' = fed + 1 /\ shown' = shown /\ stream' # "render"
    BY <1>4 DEF DecodeFails, AfterFailure, Rejects
  <2>2. stream' \in InReceive => cur' = fed + 1
    BY <1>4 DEF DecodeFails, AfterFailure, Rejects
  <2>3. ShownType' /\ ShownInOrder'
    BY <2>1
  <2>4. ShownBefore'
    BY <2>1, <2>2, TimesAreNumbers
  <2> QED
    BY <2>3, <2>4
<1>5. CASE \E k, p, h \in BOOLEAN : Decode(k, p, h)
  <2>1. fed' = fed + 1 /\ shown' = shown /\ stream' # "render"
    BY <1>5 DEF Decode, AfterSuccess, Rejects
  <2>2. stream' \in InReceive => cur' = fed + 1
    BY <1>5 DEF Decode, AfterSuccess, Rejects
  <2>3. ShownType' /\ ShownInOrder'
    BY <2>1
  <2>4. ShownBefore'
    BY <2>1, <2>2, TimesAreNumbers
  <2> QED
    BY <2>3, <2>4
<1>6. CASE GetOutBuffer
  BY <1>6 DEF GetOutBuffer
<1>7. CASE GetFrame
  BY <1>7 DEF GetFrame, QueryAccept
<1>8. CASE RendererShows
  BY <1>8, SMTT(30) DEF RendererShows
<1>9. CASE \/ (\E s \in PictureSizes : ReceiveConnection(s))
           \/ (\E s \in PictureSizes : Connect(s)) \/ DisconnectOutpin
           \/ DisconnectInpin \/ VpxStop \/ SourceStopped \/ VpxBeginFlush
           \/ FlushRenderer \/ ThreadEnds \/ SampleRejected \/ RendererRefuses
           \/ RendererReleases \/ VpxEndOfStream \/ EndIsPassed \/ UNCHANGED vpxVars
  BY <1>9 DEF ReceiveConnection, ConnectOp, Op, Connect, QueryAccept,
    DisconnectOutpin, DisconnectInpin, VpxStop, SourceStopped, VpxBeginFlush,
    FlushRenderer, ThreadEnds, SampleRejected, Rejects, RendererRefuses,
    RendererReleases, VpxEndOfStream, EndIsPassed
<1> QED
  BY <1>1, <1>2, <1>3, <1>4, <1>5, <1>6, <1>7, <1>8, <1>9 DEF VpxNext,
    VpxApplication, VpxThread

(* However the calls of the application, of the source's thread and of the *)
(* renderer mix, pictures are shown in the order and with the times of the *)
(* samples they were decoded from, the filter waits for a key frame when   *)
(* it needs one, and the thread is not cut off.                            *)
THEOREM DecoderIsSound == VpxSpec => []DecoderSound
<1>1. VpxInit => VpxInv
  BY InitInv
<1>2. VpxInv /\ [VpxNext]_vpxVars => VpxInv'
  BY FlagTypesStep, SizeTypesStep, DataTypesStep, BuffersStep, PinsStep, FlagsStep,
     HandStep, KeyframeStep, NotCutOffStep, ShownStep DEF VpxInv, VpxTypeOK
<1>3. VpxInv => DecoderSound
  BY DEF VpxInv, DecoderSound
<1> QED
  BY <1>1, <1>2, <1>3, PTL DEF VpxSpec
=============================================================================
