----------------------------- MODULE MuxProofs ------------------------------
(***************************************************************************)
(* Proofs about the muxer, for every set of streams, every timecode and    *)
(* every bound: what keeps the interleaver sound, then what it writes, and *)
(* last the threads of the filter.                                         *)
(***************************************************************************)
EXTENDS MuxFilter, MuxContextRefinesFile, SequenceTheorems, TLAPS

(***************************************************************************)
(* The inductive invariant.  ClusterInv: the cluster loops are entered     *)
(* with something to write.                                                *)
(***************************************************************************)
ClusterPCs == {"newCluster", "merge", "newAudioCluster", "audioMerge"}

ClusterInv ==
  /\ pc = "newCluster" => vframes # <<>>
  /\ pc = "newAudioCluster" => aframes # <<>>
  /\ pc \in {"merge", "audioMerge"} => clusters # <<>>

(***************************************************************************)
(* EndInv: cEOS counts the streams still to end and the one whose end is   *)
(* being handled; the queues are empty once both have ended, and stay so   *)
(* without a file.                                                         *)
(***************************************************************************)
Draining == pc = "drain" \/ (pc \in ClusterPCs /\ ret = "drain")

Writing == pc \in ClusterPCs \cup {"drain", "flushVideo", "flushAudio"}

QueuesEmpty == vframes = <<>> /\ aframes = <<>>

StreamsToEnd ==
  (IF VideoOver THEN 0 ELSE 1) + (IF AudioOver THEN 0 ELSE 1)
    + (IF Draining \/ pc = "eos" THEN 1 ELSE 0)

EndInv ==
  /\ cEOS = StreamsToEnd
  /\ ~open => QueuesEmpty
  /\ VideoOver /\ AudioOver /\ ~Draining => QueuesEmpty
  /\ pc \in {"final", "detach"} => VideoOver /\ AudioOver
  /\ pc = "detach" => ~open
  /\ streams = {} => ~open
  /\ Writing => open

IInv == TypeOK /\ FramesKept /\ ClusterInv /\ EndInv

-----------------------------------------------------------------------------
(***************************************************************************)
(* Types.                                                                  *)
(***************************************************************************)

(* A relative timecode is a number, however far it has wrapped.            *)
LEMMA ToShortType == \A x \in Int : ToShort(x) \in Int
  BY DEF ToShort

(* The front of the video queue is the first frame not in the file.        *)
LEMMA FrontVideo ==
  ASSUME TypeOK, FramesKept, vframes # <<>>
  PROVE  /\ Head(vframes) = Len(videoOut) + 1
         /\ Head(vframes) \in 1..Len(video)
         /\ VT(Head(vframes)) \in Nat
         /\ video[Head(vframes)] \in [t : Nat, key : BOOLEAN]
<1>1. Len(vframes) \in Nat /\ Len(vframes) > 0 /\ Head(vframes) = vframes[1]
  BY EmptySeq, HeadTailProperties DEF TypeOK
<1>2. Len(video) \in Nat /\ Len(videoOut) \in Nat
  BY DEF TypeOK
<1>3. Head(vframes) = Len(videoOut) + 1 /\ Head(vframes) \in 1..Len(video)
  BY <1>1, <1>2 DEF FramesKept
<1>4. video[Head(vframes)] \in [t : Nat, key : BOOLEAN]
  BY <1>3, ElementOfSeq DEF TypeOK
<1> QED
  BY <1>3, <1>4 DEF VT

(* The same of the audio queue.                                            *)
LEMMA FrontAudio ==
  ASSUME TypeOK, FramesKept, aframes # <<>>
  PROVE  /\ Head(aframes) = Len(audioOut) + 1
         /\ Head(aframes) \in 1..Len(audio)
         /\ AT(Head(aframes)) \in Nat
<1>1. Len(aframes) \in Nat /\ Len(aframes) > 0 /\ Head(aframes) = aframes[1]
  BY EmptySeq, HeadTailProperties DEF TypeOK
<1>2. Len(audio) \in Nat /\ Len(audioOut) \in Nat
  BY DEF TypeOK
<1>3. Head(aframes) = Len(audioOut) + 1 /\ Head(aframes) \in 1..Len(audio)
  BY <1>1, <1>2 DEF FramesKept
<1>4. audio[Head(aframes)] \in [t : Nat]
  BY <1>3, ElementOfSeq DEF TypeOK
<1> QED
  BY <1>3, <1>4 DEF AT

ClusterType == [tc : Nat, keys : Seq([t : Nat, block : Nat])]

(* The cluster being created is the last one.                              *)
LEMMA LastCluster ==
  ASSUME TypeOK, clusters # <<>>
  PROVE  /\ Len(clusters) \in 1..Len(clusters)
         /\ Back(clusters) \in ClusterType
         /\ Back(clusters).tc \in Nat
<1>1. clusters \in Seq(ClusterType)
  BY DEF TypeOK, ClusterType
<1>2. Len(clusters) \in Nat /\ Len(clusters) > 0
  BY <1>1, EmptySeq
<1>3. Back(clusters) \in ClusterType
  BY <1>1, <1>2, ElementOfSeq DEF Back
<1> QED
  BY <1>2, <1>3 DEF ClusterType

(* A block holds what BlockType says.                                      *)
LEMMA BlockIsTyped ==
  ASSUME TypeOK, clusters # <<>>, NEW p \in Nat, NEW t \in Nat
  PROVE  Block(p, t) \in BlockType
<1>1. Back(clusters).tc \in Nat /\ Len(clusters) \in Nat
  BY LastCluster
<1>2. ToShort(t - Back(clusters).tc) \in Int
  BY <1>1, ToShortType
<1> QED
  BY <1>1, <1>2 DEF Block, BlockType, TypeOK

LEMMA TypeInit == Init => TypeOK
<1> SUFFICES ASSUME Init PROVE TypeOK
  OBVIOUS
<1>1. /\ vframes \in Seq(Nat) /\ rframes \in Seq(Nat) /\ aframes \in Seq(Nat)
      /\ clusters \in Seq([tc : Nat, keys : Seq([t : Nat, block : Nat])])
      /\ video \in Seq([t : Nat, key : BOOLEAN]) /\ audio \in Seq([t : Nat])
      /\ videoOut \in Seq(BlockType) /\ audioOut \in Seq(BlockType)
  BY EmptySeq DEF Init
<1>2. headers \in 0..3 /\ sessions \in 0..MaxSessions /\ flushes \in 0..MaxFlush
  BY BoundsAssumption DEF Init
<1>3. streams \in SUBSET {"video", "audio"} /\ cues \subseteq [t : Nat, cluster : Nat, block : Nat]
  BY DEF Init
<1>4. /\ cEOS \in Int /\ maxTimecode \in Nat /\ duration \in Nat /\ finals \in Nat
      /\ stop \in Nat /\ cFrames \in Nat
  BY DEF Init, NoStop
<1>5. /\ open \in BOOLEAN /\ live \in BOOLEAN /\ buffering \in BOOLEAN /\ ogg \in BOOLEAN
      /\ eosVideo \in BOOLEAN /\ eosAudio \in BOOLEAN /\ closing \in BOOLEAN
      /\ needKey \in BOOLEAN /\ pc \in PCs /\ ret \in {"idle", "drain", "flushVideo", "flushAudio"}
  BY DEF Init, PCs
<1> QED
  BY <1>1, <1>2, <1>3, <1>4, <1>5 DEF TypeOK

(* A key frame's entry goes to the cluster being created.                  *)
LEMMA KeyframeAdded ==
  ASSUME TypeOK, clusters # <<>>, NEW t \in Nat
  PROVE  [clusters EXCEPT ![Len(clusters)].keys = Append(@, KeyframeEntry(t))]
           \in Seq(ClusterType)
<1> DEFINE c == Back(clusters)
           d == [c EXCEPT !.keys = Append(c.keys, KeyframeEntry(t))]
<1>1. clusters \in Seq(ClusterType) /\ Len(clusters) \in 1..Len(clusters) /\ c \in ClusterType
  BY LastCluster DEF TypeOK, ClusterType
<1>2. KeyframeEntry(t) \in [t : Nat, block : Nat]
  BY DEF KeyframeEntry, TypeOK
<1>3. Append(c.keys, KeyframeEntry(t)) \in Seq([t : Nat, block : Nat])
  BY <1>1, <1>2, AppendProperties DEF ClusterType
<1>4. d \in ClusterType
  BY <1>1, <1>3 DEF ClusterType
<1>5. [clusters EXCEPT ![Len(clusters)] = d] \in Seq(ClusterType)
  BY <1>1, <1>4, ExceptSeq
<1> QED
  BY <1>5 DEF Back

(* What FinalSegment writes.                                               *)
LEMMA FinalTypes ==
  ASSUME TypeOK, FinalSegment, pc' \in PCs
  PROVE  TypeOK'
<1>1. CuePoints \subseteq [t : Nat, cluster : Nat, block : Nat]
  <2>1. clusters \in Seq(ClusterType)
    BY DEF TypeOK, ClusterType
  <2>2. ASSUME NEW i \in DOMAIN clusters, NEW k \in DOMAIN clusters[i].keys
        PROVE  /\ i \in Nat
               /\ clusters[i].keys[k] \in [t : Nat, block : Nat]
    <3>1. i \in 1..Len(clusters) /\ clusters[i] \in ClusterType
      BY <2>1, <2>2, LenProperties, ElementOfSeq
    <3>2. clusters[i].keys \in Seq([t : Nat, block : Nat])
      BY <3>1 DEF ClusterType
    <3>3. k \in 1..Len(clusters[i].keys)
      BY <3>2, LenProperties
    <3>4. clusters[i].keys[k] \in [t : Nat, block : Nat]
      BY <3>2, <3>3, ElementOfSeq
    <3> QED
      BY <3>1, <3>4
  <2> QED
    BY <2>2 DEF CuePoints
<1>2. cues' \subseteq [t : Nat, cluster : Nat, block : Nat]
  BY <1>1 DEF FinalSegment, TypeOK
<1>3. clusters' \in Seq([tc : Nat, keys : Seq([t : Nat, block : Nat])])
  BY EmptySeq DEF FinalSegment, TypeOK
<1>4. finals' \in Nat /\ duration' \in Nat
  BY DEF FinalSegment, TypeOK
<1>5. open' \in BOOLEAN
  BY DEF FinalSegment
<1> QED
  BY <1>2, <1>3, <1>4, <1>5 DEF FinalSegment, TypeOK, BlockType, queues, inputs, eosVars

(* No step of the context leaves the types.                                *)
LEMMA TypeStep ==
  ASSUME TypeOK, FramesKept, ClusterInv, [Next]_vars
  PROVE  TypeOK'
<1> USE DEF TypeOK, PCs
<1> USE DEF queues, file, sealed, inputs, eosVars, setup, control
<1>1. CASE UNCHANGED vars
  BY <1>1 DEF vars
<1>2. ASSUME NEW mode \in LiveModes, SetLiveMuxMode(mode) PROVE TypeOK'
  BY <1>2, ModesAssumption DEF SetLiveMuxMode
<1>3. ASSUME NEW ss \in StreamSets, NEW hasFile \in BOOLEAN, NEW isOgg \in OggModes,
             Open(ss, hasFile, isOgg)
      PROVE  TypeOK'
  <2>1. /\ streams' \in SUBSET {"video", "audio"} /\ open' \in BOOLEAN
        /\ ogg' \in BOOLEAN /\ buffering' \in BOOLEAN
    BY <1>3, StreamSetsAssumption, ModesAssumption DEF Open
  <2>2. /\ sessions' \in 0..MaxSessions /\ headers' \in 0..3 /\ flushes' \in 0..MaxFlush
        /\ cEOS' \in Int /\ maxTimecode' \in Nat /\ duration' \in Nat /\ finals' \in Nat
    BY <1>3, BoundsAssumption DEF Open
  <2>3. /\ video' \in Seq([t : Nat, key : BOOLEAN]) /\ audio' \in Seq([t : Nat])
        /\ videoOut' \in Seq(BlockType) /\ audioOut' \in Seq(BlockType)
    BY <1>3, EmptySeq DEF Open
  <2>4. /\ cues' \subseteq [t : Nat, cluster : Nat, block : Nat]
        /\ eosVideo' \in BOOLEAN /\ eosAudio' \in BOOLEAN /\ needKey' \in BOOLEAN
    BY <1>3 DEF Open
  <2>5. UNCHANGED <<vframes, rframes, aframes, clusters, live, pc, ret, closing, stop, cFrames>>
    BY <1>3 DEF Open
  <2> QED
    BY <2>1, <2>2, <2>3, <2>4, <2>5 DEF BlockType
<1>4. ASSUME NEW t \in VideoTimes, NEW key \in BOOLEAN, NotifyVideoFrame(t, key)
      PROVE  TypeOK'
  <2>1. Len(video) + 1 \in Nat /\ [t |-> t, key |-> key] \in [t : Nat, key : BOOLEAN]
    BY TimesAssumption
  <2>2. video' \in Seq([t : Nat, key : BOOLEAN]) /\ vframes' \in Seq(Nat) /\ rframes' \in Seq(Nat)
    BY <1>4, <2>1, AppendProperties DEF NotifyVideoFrame
  <2>3. pc' \in PCs /\ ret' \in {"idle", "drain", "flushVideo", "flushAudio"} /\ stop' \in Nat
    BY <1>4, <2>1 DEF NotifyVideoFrame, CallNewCluster
  <2> QED
    BY <1>4, <2>2, <2>3 DEF NotifyVideoFrame, BlockType
<1>5. CASE ReceiveVorbisHeader
  BY <1>5 DEF ReceiveVorbisHeader
<1>6. ASSUME NEW t \in AudioTimes, NotifyAudioFrame(t) PROVE TypeOK'
  <2>1. Len(audio) + 1 \in Nat /\ [t |-> t] \in [t : Nat]
    BY TimesAssumption
  <2>2. audio' \in Seq([t : Nat]) /\ aframes' \in Seq(Nat)
    BY <1>6, <2>1, AppendProperties DEF NotifyAudioFrame
  <2>3. CompletesCluster(t) => rframes[2] \in Nat
    BY ElementOfSeq, SMTT(30) DEF CompletesCluster
  <2>4. pc' \in PCs /\ ret' \in {"idle", "drain", "flushVideo", "flushAudio"} /\ stop' \in Nat
    <3>1. CASE CallNewClusterAudioOnly("idle")
      BY <3>1 DEF CallNewClusterAudioOnly
    <3>2. CASE CallNewCluster(NoStop, "idle")
      BY <3>2 DEF CallNewCluster, NoStop
    <3>3. CASE CompletesCluster(t) /\ CallNewCluster(rframes[2], "idle")
      BY <2>3, <3>3 DEF CallNewCluster
    <3>4. CASE UNCHANGED <<pc, ret, stop>>
      BY <3>4
    <3> QED
      BY <1>6, <3>1, <3>2, <3>3, <3>4 DEF NotifyAudioFrame
  <2> QED
    BY <1>6, <2>2, <2>4 DEF NotifyAudioFrame, BlockType
<1>7. CASE NotifyVideoEOS
  BY <1>7 DEF NotifyVideoEOS, AfterEOSFlag
<1>8. CASE NotifyAudioEOS
  BY <1>8 DEF NotifyAudioEOS, AfterEOSFlag
<1>9. CASE FlushVideo
  BY <1>9, BoundsAssumption DEF FlushVideo
<1>10. CASE FlushAudio
  BY <1>10, BoundsAssumption DEF FlushAudio
<1>11. CASE Close
  BY <1>11 DEF Close
<1>12. CASE CreateNewCluster
  <2>1. vframes # <<>> /\ ClusterTimecode \in Nat
    BY <1>12, FrontVideo, FrontAudio DEF CreateNewCluster, ClusterInv, ClusterTimecode
  <2>2. [tc |-> ClusterTimecode, keys |-> <<>>] \in ClusterType
    BY <2>1, EmptySeq DEF ClusterType
  <2>3. clusters' \in Seq(ClusterType)
    BY <1>12, <2>2, AppendProperties DEF CreateNewCluster, ClusterType
  <2> QED
    BY <1>12, <2>3 DEF CreateNewCluster, ClusterType, BlockType
<1>13. CASE CreateNewClusterAudioOnly
  <2>1. AT(Head(aframes)) \in Nat
    BY <1>13, FrontAudio DEF CreateNewClusterAudioOnly, ClusterInv
  <2>2. [tc |-> AT(Head(aframes)), keys |-> <<>>] \in ClusterType
    BY <2>1, EmptySeq DEF ClusterType
  <2>3. clusters' \in Seq(ClusterType)
    BY <1>13, <2>2, AppendProperties DEF CreateNewClusterAudioOnly, ClusterType
  <2> QED
    BY <1>13, <2>3 DEF CreateNewClusterAudioOnly, ClusterType, BlockType
<1>14. CASE WriteVideoFrame
  <2> DEFINE p == Head(vframes)
  <2>1. vframes # <<>> /\ clusters # <<>>
    BY <1>14 DEF WriteVideoFrame, MergeChoice, ClusterInv
  <2>2. p \in Nat /\ VT(p) \in Nat /\ video[p].key \in BOOLEAN
    <3>1. p \in 1..Len(video) /\ VT(p) \in Nat /\ video[p] \in [t : Nat, key : BOOLEAN]
      BY <2>1, FrontVideo
    <3> QED
      BY ONLY <3>1
  <2>3. Block(p, VT(p)) \in BlockType
    BY <2>1, <2>2, BlockIsTyped
  <2>4. videoOut' \in Seq(BlockType) /\ vframes' \in Seq(Nat) /\ rframes' \in Seq(Nat)
    BY <1>14, <2>1, <2>3, AppendProperties, HeadTailProperties DEF WriteVideoFrame, WithoutRframe
  <2>5. cFrames' \in Nat /\ maxTimecode' \in Nat
    <3>1. cFrames' = cFrames + 1 /\ maxTimecode' = Latest(VT(p))
      BY <1>14 DEF WriteVideoFrame
    <3> QED
      BY <2>2, <3>1 DEF Latest
  <2>6. clusters' \in Seq(ClusterType)
    BY <1>14, <2>1, <2>2, KeyframeAdded DEF WriteVideoFrame, ClusterType
  <2> QED
    BY <1>14, <2>4, <2>5, <2>6, ZenonT(40) DEF WriteVideoFrame, ClusterType, BlockType
<1>15. CASE WriteAudioFrame
  <2> DEFINE p == Head(aframes)
  <2>1. aframes # <<>> /\ clusters # <<>>
    BY <1>15 DEF WriteAudioFrame, MergeChoice, AudioMergeChoice, ClusterInv
  <2>2. p \in Nat /\ AT(p) \in Nat
    <3>1. p \in 1..Len(audio) /\ AT(p) \in Nat
      BY <2>1, FrontAudio
    <3> QED
      BY <3>1
  <2>3. Block(p, AT(p)) \in BlockType
    BY <2>1, <2>2, BlockIsTyped
  <2>4. audioOut' \in Seq(BlockType) /\ aframes' \in Seq(Nat)
    BY <1>15, <2>1, <2>3, AppendProperties, HeadTailProperties DEF WriteAudioFrame
  <2>5. cFrames' \in Nat /\ maxTimecode' \in Nat
    BY <1>15, <2>2 DEF WriteAudioFrame, Latest
  <2> QED
    BY <1>15, <2>4, <2>5, SMTT(30) DEF WriteAudioFrame, BlockType
<1>16. CASE EndCluster
  BY <1>16 DEF EndCluster
<1>17. CASE Drain
  BY <1>17, SMTT(30) DEF Drain, CallNewCluster, CallNewClusterAudioOnly, NoStop
<1>18. CASE EOS
  BY <1>18 DEF EOS, Resume
<1>19. CASE Final
  BY <1>19, FinalTypes DEF Final, Resume
<1>20. CASE FlushVideoLoop
  BY <1>20 DEF FlushVideoLoop, CallNewCluster, NoStop
<1>21. CASE FlushAudioLoop
  <2>1. pc' \in PCs /\ ret' \in {"idle", "drain", "flushVideo", "flushAudio"} /\ stop' \in Nat
    BY <1>21, SMTT(30) DEF FlushAudioLoop, CallNewCluster, CallNewClusterAudioOnly, NoStop
  <2> QED
    BY <1>21, <2>1 DEF FlushAudioLoop, BlockType
<1>22. CASE CloseFinal
  BY <1>22, FinalTypes DEF CloseFinal
<1>23. CASE DeleteStreams
  <2>1. vframes' \in Seq(Nat) /\ rframes' \in Seq(Nat) /\ aframes' \in Seq(Nat)
    BY <1>23, EmptySeq DEF DeleteStreams
  <2>2. streams' \in SUBSET {"video", "audio"}
    BY <1>23 DEF DeleteStreams
  <2> QED
    BY <1>23, <2>1, <2>2 DEF DeleteStreams, BlockType
<1> QED
  BY <1>1, <1>2, <1>3, <1>4, <1>5, <1>6, <1>7, <1>8, <1>9, <1>10, <1>11, <1>12, <1>13,
     <1>14, <1>15, <1>16, <1>17, <1>18, <1>19, <1>20, <1>21, <1>22, <1>23
     DEF Next, EntryPoint, InternalStep

-----------------------------------------------------------------------------
(***************************************************************************)
(* Frames.                                                                 *)
(***************************************************************************)

(* One track: what has arrived is n frames, the file holds the first       *)
(* Len(out) of them and the queue the rest.                                *)
Split(out, queue, n) ==
  /\ Len(out) + Len(queue) = n
  /\ \A i \in 1..Len(out) : out[i].frame = i
  /\ \A i \in 1..Len(queue) : queue[i] = Len(out) + i

LEMMA FramesKeptIsSplit ==
  FramesKept <=> /\ Split(videoOut, vframes, Len(video))
                 /\ Split(audioOut, aframes, Len(audio))
  BY DEF FramesKept, Split

(* A frame that arrives goes to the back of the queue.                     *)
LEMMA SplitArrive ==
  ASSUME NEW out \in Seq(BlockType), NEW queue \in Seq(Nat), NEW n \in Nat, Split(out, queue, n)
  PROVE  Split(out, Append(queue, n + 1), n + 1)
<1> DEFINE q == Append(queue, n + 1)
<1>1. /\ Len(out) \in Nat /\ Len(queue) \in Nat /\ Len(q) = Len(queue) + 1
      /\ \A i \in 1..Len(queue) : q[i] = queue[i]
      /\ q[Len(queue) + 1] = n + 1
  BY AppendProperties
<1>2. ASSUME NEW i \in 1..Len(q) PROVE q[i] = Len(out) + i
  <2>1. CASE i \in 1..Len(queue)
    BY <1>1, <2>1 DEF Split
  <2>2. CASE i = Len(queue) + 1
    <3>1. Len(out) + Len(queue) = n
      BY DEF Split
    <3> QED
      BY <1>1, <2>2, <3>1
  <2> QED
    BY <1>1, <2>1, <2>2
<1> QED
  BY <1>1, <1>2 DEF Split

(* A frame that is written leaves the front of the queue.                  *)
LEMMA SplitWrite ==
  ASSUME NEW out \in Seq(BlockType), NEW queue \in Seq(Nat), NEW n \in Nat, Split(out, queue, n),
         queue # <<>>, NEW b \in BlockType, b.frame = Head(queue)
  PROVE  Split(Append(out, b), Tail(queue), n)
<1> DEFINE o == Append(out, b)
           q == Tail(queue)
<1>1. /\ Len(out) \in Nat /\ Len(queue) \in Nat /\ Len(queue) > 0 /\ Len(o) = Len(out) + 1
      /\ \A i \in 1..Len(out) : o[i] = out[i]
      /\ o[Len(out) + 1] = b
  BY AppendProperties, EmptySeq
<1>2. /\ Len(q) = Len(queue) - 1
      /\ \A i \in 1..Len(q) : q[i] = queue[i + 1]
      /\ Head(queue) = queue[1]
  BY HeadTailProperties
<1>3. b.frame = Len(out) + 1
  BY <1>1, <1>2 DEF Split
<1>4. ASSUME NEW i \in 1..Len(o) PROVE o[i].frame = i
  <2>1. CASE i \in 1..Len(out)
    BY <1>1, <2>1 DEF Split
  <2>2. CASE i = Len(out) + 1
    BY <1>1, <1>3, <2>2
  <2> QED
    BY <1>1, <2>1, <2>2
<1>5. ASSUME NEW i \in 1..Len(q) PROVE q[i] = Len(o) + i
  <2>1. i + 1 \in 1..Len(queue) /\ i \in Nat
    BY <1>1, <1>2
  <2> QED
    BY <1>1, <1>2, <2>1 DEF Split
<1>6. Len(o) + Len(q) = n
  <2>1. Len(out) + Len(queue) = n
    BY DEF Split
  <2> QED
    BY <1>1, <1>2, <2>1
<1> QED
  BY <1>4, <1>5, <1>6 DEF Split

LEMMA SplitEmpty == Split(<<>>, <<>>, 0)
  BY DEF Split

(* Every step keeps every frame.                                           *)
LEMMA FramesStep ==
  ASSUME IInv, [Next]_vars
  PROVE  FramesKept'
<1> DEFINE V == Split(videoOut, vframes, Len(video))
           A == Split(audioOut, aframes, Len(audio))
<1> USE DEF queues, file, sealed, inputs, eosVars, setup, control
<1>0. V /\ A /\ TypeOK /\ Len(video) \in Nat /\ Len(audio) \in Nat
  BY FramesKeptIsSplit DEF IInv, TypeOK
<1>1. CASE UNCHANGED <<vframes, aframes, video, audio, videoOut, audioOut>>
  BY <1>1 DEF IInv, FramesKept
<1>2. ASSUME NEW ss \in StreamSets, NEW hasFile \in BOOLEAN, NEW isOgg \in OggModes,
             Open(ss, hasFile, isOgg)
      PROVE  FramesKept'
  <2>1. vframes = <<>> /\ aframes = <<>>
    BY <1>2 DEF Open, IInv, EndInv, QueuesEmpty
  <2> QED
    BY <1>2, <2>1 DEF Open, FramesKept
<1>3. ASSUME NEW t \in VideoTimes, NEW key \in BOOLEAN, NotifyVideoFrame(t, key)
      PROVE  FramesKept'
  <2>1. Split(videoOut, Append(vframes, Len(video) + 1), Len(video) + 1)
    BY <1>0, SplitArrive DEF TypeOK
  <2>2. Len(video') = Len(video) + 1
    BY <1>0, <1>3, TimesAssumption, AppendProperties DEF NotifyVideoFrame, TypeOK
  <2>3. V'
    BY <1>3, <2>1, <2>2 DEF NotifyVideoFrame
  <2>4. A'
    BY <1>0, <1>3 DEF NotifyVideoFrame
  <2> QED
    BY <2>3, <2>4 DEF FramesKept, Split
<1>4. ASSUME NEW t \in AudioTimes, NotifyAudioFrame(t)
      PROVE  FramesKept'
  <2>1. Split(audioOut, Append(aframes, Len(audio) + 1), Len(audio) + 1)
    BY <1>0, SplitArrive DEF TypeOK
  <2>2. Len(audio') = Len(audio) + 1
    BY <1>0, <1>4, TimesAssumption, AppendProperties DEF NotifyAudioFrame, TypeOK
  <2>3. A'
    BY <1>4, <2>1, <2>2 DEF NotifyAudioFrame
  <2>4. V'
    BY <1>0, <1>4 DEF NotifyAudioFrame
  <2> QED
    BY <2>3, <2>4 DEF FramesKept, Split
<1>5. CASE WriteVideoFrame
  <2> DEFINE p == Head(vframes)
  <2>1. vframes # <<>> /\ clusters # <<>>
    BY <1>5 DEF WriteVideoFrame, MergeChoice, IInv, ClusterInv
  <2>2. p \in Nat /\ VT(p) \in Nat
    BY <2>1, FrontVideo DEF IInv
  <2>3. Block(p, VT(p)) \in BlockType /\ Block(p, VT(p)).frame = p
    BY <1>0, <2>1, <2>2, BlockIsTyped DEF Block
  <2>4. Split(Append(videoOut, Block(p, VT(p))), Tail(vframes), Len(video))
    BY <1>0, <2>1, <2>3, SplitWrite DEF TypeOK
  <2>5. V'
    BY <1>5, <2>4 DEF WriteVideoFrame
  <2>6. A'
    BY <1>0, <1>5 DEF WriteVideoFrame
  <2> QED
    BY <2>5, <2>6 DEF FramesKept, Split
<1>6. CASE WriteAudioFrame
  <2> DEFINE p == Head(aframes)
  <2>1. aframes # <<>> /\ clusters # <<>>
    BY <1>6 DEF WriteAudioFrame, MergeChoice, AudioMergeChoice, IInv, ClusterInv
  <2>2. p \in Nat /\ AT(p) \in Nat
    BY <2>1, FrontAudio DEF IInv
  <2>3. Block(p, AT(p)) \in BlockType /\ Block(p, AT(p)).frame = p
    BY <1>0, <2>1, <2>2, BlockIsTyped DEF Block
  <2>4. Split(Append(audioOut, Block(p, AT(p))), Tail(aframes), Len(audio))
    BY <1>0, <2>1, <2>3, SplitWrite DEF TypeOK
  <2>5. A'
    BY <1>6, <2>4 DEF WriteAudioFrame
  <2>6. V'
    BY <1>0, <1>6 DEF WriteAudioFrame
  <2> QED
    BY <2>5, <2>6 DEF FramesKept, Split
<1>7. CASE DeleteStreams
  <2>1. vframes = <<>> /\ aframes = <<>>
    BY <1>7 DEF DeleteStreams, IInv, EndInv, QueuesEmpty
  <2> QED
    BY <1>7, <2>1 DEF DeleteStreams, IInv, FramesKept
<1>8. CASE \E mode \in LiveModes : SetLiveMuxMode(mode)
  BY <1>1, <1>8 DEF SetLiveMuxMode
<1>9. CASE ReceiveVorbisHeader
  BY <1>1, <1>9 DEF ReceiveVorbisHeader
<1>10. CASE NotifyVideoEOS \/ NotifyAudioEOS
  BY <1>1, <1>10 DEF NotifyVideoEOS, NotifyAudioEOS
<1>11. CASE FlushVideo \/ FlushAudio
  BY <1>1, <1>11 DEF FlushVideo, FlushAudio
<1>12. CASE Close \/ CloseFinal \/ Final
  BY <1>1, <1>12 DEF Close, CloseFinal, Final, FinalSegment
<1>13. CASE CreateNewCluster \/ CreateNewClusterAudioOnly \/ EndCluster
  BY <1>1, <1>13 DEF CreateNewCluster, CreateNewClusterAudioOnly, EndCluster
<1>14. CASE Drain \/ EOS
  BY <1>1, <1>14 DEF Drain, EOS
<1>15. CASE FlushVideoLoop \/ FlushAudioLoop
  BY <1>1, <1>15 DEF FlushVideoLoop, FlushAudioLoop
<1>16. CASE UNCHANGED vars
  BY <1>1, <1>16 DEF vars
<1> QED
  BY <1>2, <1>3, <1>4, <1>5, <1>6, <1>7, <1>8, <1>9, <1>10, <1>11, <1>12, <1>13, <1>14,
     <1>15, <1>16 DEF Next, EntryPoint, InternalStep

-----------------------------------------------------------------------------
(***************************************************************************)
(* The cluster loops.                                                      *)
(***************************************************************************)

(* The cluster loops are entered with something to write.                  *)
LEMMA ClusterStep ==
  ASSUME IInv, [Next]_vars
  PROVE  ClusterInv'
<1> USE DEF ClusterInv, queues, file, sealed, inputs, eosVars, setup, control
<1>0. ClusterInv /\ TypeOK
  BY DEF IInv
<1>1. CASE UNCHANGED vars
  BY <1>0, <1>1 DEF vars
<1>2. CASE \E mode \in LiveModes : SetLiveMuxMode(mode)
  BY <1>0, <1>2 DEF SetLiveMuxMode
<1>3. CASE \E ss \in StreamSets, hasFile \in BOOLEAN, isOgg \in OggModes : Open(ss, hasFile, isOgg)
  BY <1>0, <1>3 DEF Open
<1>4. ASSUME NEW t \in VideoTimes, NEW key \in BOOLEAN, NotifyVideoFrame(t, key)
      PROVE  ClusterInv'
  <2>1. vframes' # <<>> /\ UNCHANGED <<aframes, clusters>>
    <3>1. vframes \in Seq(Nat) /\ Len(video) + 1 \in Nat
      BY <1>0 DEF TypeOK
    <3>2. Append(vframes, Len(video) + 1) # <<>>
      BY <3>1, AppendProperties
    <3> QED
      BY <1>4, <3>2 DEF NotifyVideoFrame
  <2>2. pc = "idle" /\ pc' \in {"idle", "newCluster"}
    BY <1>4 DEF NotifyVideoFrame, CallNewCluster
  <2> QED
    BY <2>1, <2>2
<1>5. CASE ReceiveVorbisHeader
  BY <1>0, <1>5 DEF ReceiveVorbisHeader
<1>6. ASSUME NEW t \in AudioTimes, NotifyAudioFrame(t)
      PROVE  ClusterInv'
  <2>1. aframes' # <<>> /\ UNCHANGED <<vframes, clusters>>
    <3>1. aframes \in Seq(Nat) /\ Len(audio) + 1 \in Nat
      BY <1>0 DEF TypeOK
    <3>2. Append(aframes, Len(audio) + 1) # <<>>
      BY <3>1, AppendProperties
    <3> QED
      BY <1>6, <3>2 DEF NotifyAudioFrame
  <2>2. CASE pc' = "newAudioCluster"
    BY <2>1, <2>2
  <2>3. CASE pc' = "newCluster" /\ vframes # <<>>
    BY <2>1, <2>3
  <2>4. CASE pc' = "idle"
    BY <2>4
  <2> QED
    BY <1>6, <2>2, <2>3, <2>4
       DEF NotifyAudioFrame, CallNewCluster, CallNewClusterAudioOnly, CompletesLastCluster,
           CompletesCluster
<1>7. CASE NotifyVideoEOS \/ NotifyAudioEOS
  BY <1>0, <1>7 DEF NotifyVideoEOS, NotifyAudioEOS, AfterEOSFlag
<1>8. CASE FlushVideo \/ FlushAudio \/ Close
  BY <1>0, <1>8 DEF FlushVideo, FlushAudio, Close
<1>9. CASE CreateNewCluster \/ CreateNewClusterAudioOnly
  <2>1. [tc |-> ClusterTimecode, keys |-> <<>>] \in ClusterType \/ ~CreateNewCluster
    <3> SUFFICES ASSUME CreateNewCluster PROVE ClusterTimecode \in Nat
      BY EmptySeq DEF ClusterType
    <3> QED
      BY <1>0, FrontVideo, FrontAudio DEF CreateNewCluster, ClusterTimecode, IInv
  <2>2. [tc |-> AT(Head(aframes)), keys |-> <<>>] \in ClusterType \/ ~CreateNewClusterAudioOnly
    <3> SUFFICES ASSUME CreateNewClusterAudioOnly PROVE AT(Head(aframes)) \in Nat
      BY EmptySeq DEF ClusterType
    <3> QED
      BY <1>0, FrontAudio DEF CreateNewClusterAudioOnly, IInv
  <2>3. clusters' # <<>>
    BY <1>0, <1>9, <2>1, <2>2, AppendProperties
       DEF CreateNewCluster, CreateNewClusterAudioOnly, TypeOK, ClusterType
  <2> QED
    BY <1>9, <2>3 DEF CreateNewCluster, CreateNewClusterAudioOnly
<1>10. CASE WriteVideoFrame
  <2>1. clusters # <<>> /\ pc = "merge" /\ pc' = pc
    BY <1>0, <1>10 DEF WriteVideoFrame
  <2>2. Len(clusters') = Len(clusters) /\ Len(clusters) > 0
    <3>1. clusters \in Seq(ClusterType) /\ Len(clusters) > 0
      BY <1>0, <2>1, LastCluster DEF TypeOK, ClusterType
    <3>2. \/ clusters' = clusters
          \/ clusters' = [clusters EXCEPT ![Len(clusters)].keys =
                            Append(@, KeyframeEntry(VT(Head(vframes))))]
      BY <1>10 DEF WriteVideoFrame
    <3> QED
      BY <3>1, <3>2
  <2> QED
    BY <2>1, <2>2
<1>11. CASE WriteAudioFrame
  BY <1>0, <1>11 DEF WriteAudioFrame
<1>12. CASE EndCluster
  BY <1>0, <1>12 DEF EndCluster, TypeOK
<1>13. CASE Drain
  BY <1>0, <1>13 DEF Drain, CallNewCluster, CallNewClusterAudioOnly
<1>14. CASE EOS
  BY <1>0, <1>14 DEF EOS, Resume
<1>15. CASE FlushVideoLoop
  BY <1>0, <1>15 DEF FlushVideoLoop, CallNewCluster
<1>16. CASE FlushAudioLoop
  BY <1>0, <1>16 DEF FlushAudioLoop, CallNewCluster, CallNewClusterAudioOnly
<1>17. CASE Final \/ CloseFinal
  BY <1>0, <1>17 DEF Final, CloseFinal, Resume
<1>18. CASE DeleteStreams
  BY <1>0, <1>18 DEF DeleteStreams
<1> QED
  BY <1>1, <1>2, <1>3, <1>4, <1>5, <1>6, <1>7, <1>8, <1>9, <1>10, <1>11, <1>12, <1>13,
     <1>14, <1>15, <1>16, <1>17, <1>18 DEF Next, EntryPoint, InternalStep

-----------------------------------------------------------------------------
(***************************************************************************)
(* The ends of the streams.                                                *)
(***************************************************************************)

(* The count of streams still to end is kept, and the queues are empty     *)
(* once both have ended.                                                   *)
LEMMA EndStep ==
  ASSUME IInv, [Next]_vars
  PROVE  EndInv'
<1> USE DEF EndInv, StreamsToEnd, Draining, Writing, ClusterPCs, QueuesEmpty, VideoOver,
            AudioOver, queues, file, sealed, inputs, eosVars, setup, control
<1>0. EndInv /\ TypeOK
  BY DEF IInv
<1>1. CASE UNCHANGED vars
  BY <1>0, <1>1 DEF vars
<1>2. CASE \E mode \in LiveModes : SetLiveMuxMode(mode)
  BY <1>0, <1>2 DEF SetLiveMuxMode
<1>3. CASE \E ss \in StreamSets, hasFile \in BOOLEAN, isOgg \in OggModes : Open(ss, hasFile, isOgg)
  BY <1>0, <1>3, StreamSetsAssumption DEF Open
<1>4. ASSUME NEW t \in VideoTimes, NEW key \in BOOLEAN, NotifyVideoFrame(t, key)
      PROVE  EndInv'
  BY <1>0, <1>4 DEF NotifyVideoFrame, CallNewCluster
<1>5. CASE ReceiveVorbisHeader
  BY <1>0, <1>5 DEF ReceiveVorbisHeader
<1>6. ASSUME NEW t \in AudioTimes, NotifyAudioFrame(t)
      PROVE  EndInv'
  BY <1>0, <1>6 DEF NotifyAudioFrame, CallNewCluster, CallNewClusterAudioOnly
<1>7. CASE NotifyVideoEOS
  BY <1>0, <1>7 DEF NotifyVideoEOS, AfterEOSFlag, TypeOK
<1>8. CASE NotifyAudioEOS
  BY <1>0, <1>8 DEF NotifyAudioEOS, AfterEOSFlag, TypeOK
<1>9. CASE FlushVideo \/ FlushAudio
  BY <1>0, <1>9 DEF FlushVideo, FlushAudio
<1>10. CASE Close
  BY <1>0, <1>10 DEF Close
<1>11. CASE CreateNewCluster \/ CreateNewClusterAudioOnly
  BY <1>0, <1>11 DEF CreateNewCluster, CreateNewClusterAudioOnly
<1>12. CASE WriteVideoFrame
  BY <1>0, <1>12 DEF WriteVideoFrame, MergeChoice
<1>13. CASE WriteAudioFrame
  BY <1>0, <1>13 DEF WriteAudioFrame, MergeChoice, AudioMergeChoice
<1>14. CASE EndCluster
  BY <1>0, <1>14 DEF EndCluster, TypeOK
<1>15. CASE Drain
  BY <1>0, <1>15 DEF Drain, CallNewCluster, CallNewClusterAudioOnly
<1>16. CASE EOS
  BY <1>0, <1>16 DEF EOS, Resume, TypeOK
<1>17. CASE FlushVideoLoop
  BY <1>0, <1>17 DEF FlushVideoLoop, CallNewCluster
<1>18. CASE FlushAudioLoop
  BY <1>0, <1>18 DEF FlushAudioLoop, CallNewCluster, CallNewClusterAudioOnly
<1>19. CASE Final \/ CloseFinal
  BY <1>0, <1>19 DEF Final, CloseFinal, FinalSegment, Resume
<1>20. CASE DeleteStreams
  BY <1>0, <1>20 DEF DeleteStreams
<1> QED
  BY <1>1, <1>2, <1>3, <1>4, <1>5, <1>6, <1>7, <1>8, <1>9, <1>10, <1>11, <1>12, <1>13,
     <1>14, <1>15, <1>16, <1>17, <1>18, <1>19, <1>20 DEF Next, EntryPoint, InternalStep

-----------------------------------------------------------------------------
(***************************************************************************)
(* The theorems.                                                           *)
(***************************************************************************)

(* The initial state satisfies the invariant.                              *)
LEMMA InvariantInit == Init => IInv
<1> SUFFICES ASSUME Init PROVE IInv
  OBVIOUS
<1>1. FramesKept
  BY DEF Init, FramesKept
<1>2. ClusterInv /\ EndInv
  BY DEF Init, ClusterInv, EndInv, StreamsToEnd, Draining, Writing, ClusterPCs, QueuesEmpty,
         VideoOver, AudioOver
<1> QED
  BY <1>1, <1>2, TypeInit DEF IInv

(* The inductive invariant holds in every reachable state.                 *)
THEOREM Invariance == Spec => []IInv
<1>1. IInv /\ [Next]_vars => IInv'
  BY TypeStep, FramesStep, ClusterStep, EndStep DEF IInv
<1> QED
  BY <1>1, InvariantInit, PTL DEF Spec

(* Every variable always holds a value of its declared type.               *)
THEOREM TypeCorrect == Spec => []TypeOK
<1>1. IInv => TypeOK
  BY DEF IInv
<1> QED
  BY <1>1, Invariance, PTL

(* No frame is ever lost, written twice or written out of turn.            *)
THEOREM NoFrameLost == Spec => []FramesKept
<1>1. IInv => FramesKept
  BY DEF IInv
<1> QED
  BY <1>1, Invariance, PTL

-----------------------------------------------------------------------------
(***************************************************************************)
(* The boundary pointers the interleaver keeps, and the end of a session.  *)
(***************************************************************************)

(***************************************************************************)
(* How far a session has got: a file that is open is not finalised, and a  *)
(* session that has frames and no open file has finalised it.              *)
(***************************************************************************)
SealInv ==
  /\ open => finals = 0
  /\ finals <= 1
  /\ ~open /\ (video # <<>> \/ audio # <<>>) => finals = 1

FullInv == IInv /\ PointersValid /\ SealInv

-----------------------------------------------------------------------------
(***************************************************************************)
(* The boundary pointers.                                                  *)
(***************************************************************************)

(* A queue of boundaries in increasing order, of frames in lo..hi.         *)
Bounds(r, lo, hi) ==
  /\ \A i \in 1..Len(r) : r[i] \in lo..hi
  /\ \A i, j \in 1..Len(r) : i < j => r[i] < r[j]

(* A newer frame may be added at the back.                                 *)
LEMMA BoundsAppend ==
  ASSUME NEW r \in Seq(Nat), NEW lo \in Nat, NEW hi \in Nat, Bounds(r, lo, hi), lo <= hi + 1
  PROVE  Bounds(Append(r, hi + 1), lo, hi + 1)
<1> DEFINE s == Append(r, hi + 1)
<1>1. /\ Len(r) \in Nat /\ Len(s) = Len(r) + 1
      /\ \A i \in 1..Len(r) : s[i] = r[i]
      /\ s[Len(r) + 1] = hi + 1
  BY AppendProperties
<1>2. ASSUME NEW i \in 1..Len(s) PROVE s[i] \in lo..hi + 1
  <2>1. CASE i \in 1..Len(r)
    BY <1>1, <2>1 DEF Bounds
  <2>2. CASE i = Len(r) + 1
    BY <1>1, <2>2
  <2> QED
    BY <1>1, <2>1, <2>2
<1>3. ASSUME NEW i \in 1..Len(s), NEW j \in 1..Len(s), i < j PROVE s[i] < s[j]
  <2>1. i \in 1..Len(r) /\ s[i] = r[i] /\ r[i] \in lo..hi
    BY <1>1, <1>3 DEF Bounds
  <2>2. CASE j \in 1..Len(r)
    BY <1>1, <1>3, <2>1, <2>2 DEF Bounds
  <2>3. CASE j = Len(r) + 1
    BY <1>1, <2>1, <2>3
  <2> QED
    BY <1>1, <2>2, <2>3
<1> QED
  BY <1>2, <1>3 DEF Bounds

Without(r, lo) == IF r # <<>> /\ lo = Head(r) THEN Tail(r) ELSE r

(* When the first frame is written, it is taken out if it is a boundary,   *)
(* and the boundaries that are left are of later frames.                   *)
LEMMA BoundsWrite ==
  ASSUME NEW r \in Seq(Nat), NEW lo \in Nat, NEW hi \in Nat,
         Bounds(r, lo, hi)
  PROVE  /\ Bounds(Without(r, lo), lo + 1, hi)
         /\ \A v \in Nat : v # lo /\ (\E i \in 1..Len(r) : r[i] = v) =>
              \E i \in 1..Len(Without(r, lo)) : Without(r, lo)[i] = v
<1> DEFINE s == Without(r, lo)
<1>0. s = IF r # <<>> /\ lo = Head(r) THEN Tail(r) ELSE r
  BY DEF Without
<1> HIDE DEF s
<1> SUFFICES /\ Bounds(s, lo + 1, hi)
             /\ \A v \in Nat : v # lo /\ (\E i \in 1..Len(r) : r[i] = v) =>
                  \E i \in 1..Len(s) : s[i] = v
  BY DEF s
<1>1. CASE r = <<>>
  BY <1>0, <1>1 DEF Bounds
<1>2. CASE r # <<>> /\ lo = Head(r)
  <2>1. /\ s = Tail(r) /\ Len(r) \in Nat /\ Len(s) = Len(r) - 1 /\ Head(r) = r[1]
        /\ \A i \in 1..Len(s) : s[i] = r[i + 1]
    BY <1>0, <1>2, HeadTailProperties, EmptySeq
  <2>2. ASSUME NEW i \in 1..Len(s) PROVE s[i] \in lo + 1..hi
    <3>1. 1 \in 1..Len(r) /\ i + 1 \in 1..Len(r) /\ 1 < i + 1
      BY <2>1
    <3>2. r[1] < r[i + 1] /\ r[i + 1] \in lo..hi /\ r[1] = lo
      BY <1>2, <2>1, <3>1 DEF Bounds
    <3> QED
      BY <2>1, <3>2
  <2>3. ASSUME NEW i \in 1..Len(s), NEW j \in 1..Len(s), i < j PROVE s[i] < s[j]
    <3>1. i + 1 \in 1..Len(r) /\ j + 1 \in 1..Len(r) /\ i + 1 < j + 1
      BY <2>1, <2>3
    <3> QED
      BY <2>1, <3>1 DEF Bounds
  <2>4. ASSUME NEW v \in Nat, v # lo, NEW i \in 1..Len(r), r[i] = v
        PROVE  \E k \in 1..Len(s) : s[k] = v
    <3>1. i # 1 /\ i - 1 \in 1..Len(s)
      BY <1>2, <2>1, <2>4
    <3>2. s[i - 1] = r[(i - 1) + 1] /\ (i - 1) + 1 = i
      BY <2>1, <3>1
    <3> QED
      BY <2>4, <3>1, <3>2
  <2> QED
    BY <2>2, <2>3, <2>4 DEF Bounds
<1>3. CASE r # <<>> /\ lo # Head(r)
  <2>1. s = r /\ Len(r) \in Nat /\ Len(r) > 0 /\ Head(r) = r[1]
    BY <1>0, <1>3, HeadTailProperties, EmptySeq
  <2>2. r[1] \in lo..hi /\ r[1] # lo
    BY <1>3, <2>1 DEF Bounds
  <2>3. ASSUME NEW i \in 1..Len(r) PROVE r[i] \in lo + 1..hi
    <3>1. i = 1 \/ (1 \in 1..Len(r) /\ 1 < i)
      BY <2>1
    <3>2. r[i] \in lo..hi /\ (i = 1 \/ r[1] < r[i])
      BY <2>1, <3>1 DEF Bounds
    <3> QED
      BY <2>2, <3>2
  <2> QED
    BY <2>1, <2>3 DEF Bounds
<1> QED
  BY <1>1, <1>2, <1>3

(* PointersValid, with the boundaries named.                               *)
StopAhead ==
  pc \in {"newCluster", "merge"} /\ stop # NoStop => \E i \in 1..Len(rframes) : rframes[i] = stop

BoundaryKnown == vframes # <<>> => rframes # <<>> \/ (pc = "merge" /\ stop = NoStop)

StopNotFirst == pc = "newCluster" => vframes # <<>> /\ Head(vframes) # stop

LEMMA PointersParts ==
  PointersValid <=> /\ Bounds(rframes, Len(videoOut) + 1, Len(video))
                    /\ BoundaryKnown /\ StopAhead /\ StopNotFirst
  BY DEF PointersValid, Bounds, BoundaryKnown, StopAhead, StopNotFirst

(* With boundaries known there is video in the queue, older than the       *)
(* second boundary.                                                        *)
LEMMA BoundaryQueued ==
  ASSUME IInv, Bounds(rframes, Len(videoOut) + 1, Len(video)), rframes # <<>>
  PROVE  /\ vframes # <<>>
         /\ Head(vframes) = Len(videoOut) + 1
         /\ Len(videoOut) + 1 \in 1..Len(video)
         /\ Len(rframes) > 1 => rframes[2] # Head(vframes)
<1>1. /\ Len(rframes) \in Nat /\ Len(rframes) > 0 /\ Len(video) \in Nat /\ Len(videoOut) \in Nat
      /\ Len(vframes) \in Nat /\ Len(videoOut) + Len(vframes) = Len(video)
  <2>1. /\ rframes \in Seq(Nat) /\ vframes \in Seq(Nat)
        /\ videoOut \in Seq(BlockType) /\ video \in Seq([t : Nat, key : BOOLEAN])
    BY DEF IInv, TypeOK
  <2>2. Len(videoOut) + Len(vframes) = Len(video)
    BY DEF IInv, FramesKept
  <2> QED
    BY <2>1, <2>2, EmptySeq
<1>2. rframes[1] \in Len(videoOut) + 1..Len(video)
  BY <1>1 DEF Bounds
<1>3. vframes # <<>>
  BY <1>1, <1>2
<1>4. Head(vframes) = Len(videoOut) + 1
  BY <1>3, FrontVideo DEF IInv
<1>5. ASSUME Len(rframes) > 1 PROVE rframes[2] # Head(vframes)
  <2>1. rframes[1] < rframes[2]
    BY <1>1, <1>5 DEF Bounds
  <2>2. rframes[2] \in Len(videoOut) + 1..Len(video)
    BY <1>1, <1>5 DEF Bounds
  <2> QED
    BY <1>1, <1>2, <1>4, <2>1, <2>2
<1> QED
  BY <1>1, <1>2, <1>3, <1>4, <1>5

(* Every step keeps the boundary pointers valid.                           *)
LEMMA PointersStep ==
  ASSUME IInv, PointersValid, [Next]_vars
  PROVE  PointersValid'
<1> DEFINE R == Bounds(rframes, Len(videoOut) + 1, Len(video))
<1> USE DEF BoundaryKnown, StopAhead, StopNotFirst, queues, file, sealed, inputs, eosVars, setup,
            control, NoStop
<1>0. /\ R /\ BoundaryKnown /\ StopAhead /\ StopNotFirst
      /\ TypeOK /\ FramesKept /\ Len(video) \in Nat /\ Len(videoOut) \in Nat
  BY PointersParts, SMTT(30) DEF IInv, TypeOK
<1> HIDE DEF R
<1> SUFFICES R' /\ BoundaryKnown' /\ StopAhead' /\ StopNotFirst'
  BY DEF PointersValid, Bounds, R
<1>1. CASE UNCHANGED vars
  BY <1>0, <1>1 DEF vars, R
<1>2. ASSUME UNCHANGED <<vframes, rframes, video, videoOut, stop>>,
             pc' \notin {"newCluster", "merge"}, ~(pc = "merge" /\ stop = NoStop)
      PROVE  R' /\ BoundaryKnown' /\ StopAhead' /\ StopNotFirst'
  BY <1>0, <1>2 DEF R
<1>3. CASE \E mode \in LiveModes : SetLiveMuxMode(mode)
  BY <1>2, <1>3 DEF SetLiveMuxMode
<1>4. CASE \E ss \in StreamSets, hasFile \in BOOLEAN, isOgg \in OggModes : Open(ss, hasFile, isOgg)
  <2>1. vframes = <<>> /\ pc = "idle" /\ pc' = pc /\ UNCHANGED <<vframes, rframes>>
    BY <1>0, <1>4 DEF Open, IInv, EndInv, QueuesEmpty
  <2>2. rframes = <<>>
    BY <2>1, <1>0, BoundaryQueued DEF R
  <2>3. R'
    BY <2>1, <2>2 DEF R, Bounds
  <2> QED
    BY <2>1, <2>3
<1>5. ASSUME NEW t \in VideoTimes, NEW key \in BOOLEAN, NotifyVideoFrame(t, key)
      PROVE  R' /\ BoundaryKnown' /\ StopAhead' /\ StopNotFirst'
  <2> DEFINE p == Len(video) + 1
  <2>1. /\ Len(video') = p /\ Len(video) \in Nat /\ p \in Nat /\ UNCHANGED videoOut
        /\ vframes \in Seq(Nat) /\ rframes \in Seq(Nat) /\ vframes' = Append(vframes, p)
        /\ rframes' \in {rframes, Append(rframes, p)}
        /\ Len(videoOut) + 1 <= Len(video) + 1
    <3>1. [t |-> t, key |-> key] \in [t : Nat, key : BOOLEAN]
      BY TimesAssumption
    <3>2. Len(videoOut) <= Len(video)
      BY <1>0 DEF FramesKept, TypeOK
    <3> QED
      BY <1>0, <1>5, <3>1, <3>2, AppendProperties DEF NotifyVideoFrame, TypeOK
  <2>2. R'
    <3>1. CASE rframes' = rframes
      BY <1>0, <2>1, <3>1, SMTT(30) DEF R, Bounds
    <3>2. CASE rframes' = Append(rframes, p)
      BY <1>0, <2>1, <3>2, BoundsAppend DEF R
    <3> QED
      BY <2>1, <3>1, <3>2
  <2>3. rframes' # <<>>
    <3>1. rframes \in Seq(Nat) /\ p \in Nat
      BY <2>1
    <3>2. Append(rframes, p) # <<>>
      BY <3>1, AppendProperties
    <3> QED
      BY <1>5, <3>2 DEF NotifyVideoFrame, IsRframe
  <2>4. CASE pc' = "idle"
    BY <2>2, <2>3, <2>4
  <2>5. CASE rframes # <<>> /\ IsRframe(t, key) /\ CallNewCluster(p, "idle")
    <3>1. /\ vframes # <<>> /\ Head(vframes) = Len(videoOut) + 1 /\ Len(videoOut) + 1 \in 1..Len(video)
      BY <1>0, <2>5, BoundaryQueued DEF R
    <3>2. vframes' # <<>> /\ Head(vframes') = Head(vframes)
      BY ONLY <2>1, <3>1, HeadTailAppend, AppendProperties
    <3>3. StopNotFirst'
      BY <2>1, <2>5, <3>1, <3>2 DEF CallNewCluster
    <3>4. rframes' = Append(rframes, p)
      BY <1>5, <2>5 DEF NotifyVideoFrame
    <3>5. /\ Len(rframes') = Len(rframes) + 1 /\ Len(rframes) \in Nat
          /\ rframes'[Len(rframes) + 1] = p
      BY <2>1, <3>4, AppendProperties
    <3>6. StopAhead'
      BY <2>5, <3>5 DEF CallNewCluster
    <3> QED
      BY <2>2, <2>3, <3>3, <3>6
  <2> QED
    BY <1>5, <2>4, <2>5 DEF NotifyVideoFrame
<1>6. CASE ReceiveVorbisHeader
  BY <1>2, <1>6 DEF ReceiveVorbisHeader
<1>7. ASSUME NEW t \in AudioTimes, NotifyAudioFrame(t)
      PROVE  R' /\ BoundaryKnown' /\ StopAhead' /\ StopNotFirst'
  <2>1. UNCHANGED <<vframes, rframes, video, videoOut>> /\ pc = "idle"
    BY <1>7 DEF NotifyAudioFrame
  <2>2. R' /\ BoundaryKnown'
    BY <1>0, <2>1 DEF R
  <2>3. CASE pc' \in {"idle", "newAudioCluster"}
    BY <2>2, <2>3
  <2>4. CASE CompletesLastCluster(t) /\ CallNewCluster(NoStop, "idle")
    <3>1. vframes # <<>> /\ Head(vframes) \in 1..Len(video)
      BY <1>0, <2>4, FrontVideo DEF CompletesLastCluster
    <3> QED
      BY <1>0, <2>1, <2>2, <2>4, <3>1 DEF CallNewCluster
  <2>5. CASE CompletesCluster(t) /\ CallNewCluster(rframes[2], "idle")
    <3>1. Len(rframes) > 1 /\ vframes # <<>> /\ Len(rframes) \in Nat
      BY <1>0, <2>5 DEF CompletesCluster, TypeOK
    <3>2. rframes[2] # Head(vframes)
      BY <1>0, <3>1, EmptySeq, BoundaryQueued DEF R
    <3> QED
      BY <2>1, <2>2, <2>5, <3>1, <3>2 DEF CallNewCluster
  <2> QED
    BY <1>7, <2>1, <2>3, <2>4, <2>5 DEF NotifyAudioFrame, CallNewClusterAudioOnly
<1>8. CASE NotifyVideoEOS \/ NotifyAudioEOS
  BY <1>2, <1>8 DEF NotifyVideoEOS, NotifyAudioEOS, AfterEOSFlag
<1>9. CASE FlushVideo \/ FlushAudio \/ Close
  BY <1>2, <1>9 DEF FlushVideo, FlushAudio, Close
<1>10. CASE CreateNewCluster
  BY <1>0, <1>10 DEF CreateNewCluster, R
<1>11. CASE CreateNewClusterAudioOnly
  BY <1>2, <1>11 DEF CreateNewClusterAudioOnly
<1>12. CASE WriteVideoFrame
  <2> DEFINE p == Head(vframes)
  <2>1. /\ vframes # <<>> /\ p # stop /\ pc = "merge" /\ UNCHANGED <<pc, stop, video>>
        /\ rframes' = WithoutRframe(p)
    BY <1>12 DEF WriteVideoFrame, MergeChoice
  <2>2. p = Len(videoOut) + 1 /\ VT(p) \in Nat /\ p \in Nat
    BY <1>0, <2>1, FrontVideo
  <2>3. Len(videoOut') = Len(videoOut) + 1
    <3>1. Block(p, VT(p)) \in BlockType
      BY <1>0, <2>1, <2>2, BlockIsTyped DEF IInv, ClusterInv
    <3> QED
      BY <1>0, <1>12, <3>1, AppendProperties DEF WriteVideoFrame, TypeOK
  <2>4. /\ Bounds(rframes', p + 1, Len(video))
        /\ \A v \in Nat : v # p /\ (\E i \in 1..Len(rframes) : rframes[i] = v) =>
             \E i \in 1..Len(rframes') : rframes'[i] = v
    <3>1. rframes \in Seq(Nat) /\ Bounds(rframes, p, Len(video))
      BY <1>0, <2>2 DEF TypeOK, R
    <3>2. rframes' = IF rframes # <<>> /\ p = Head(rframes) THEN Tail(rframes) ELSE rframes
      BY <2>1 DEF WithoutRframe
    <3>3. p \in Nat /\ Len(video) \in Nat
      BY <1>0, <2>2
    <3> HIDE DEF p
    <3>4. rframes' = Without(rframes, p)
      BY <3>2 DEF Without
    <3> QED
      BY <3>1, <3>3, <3>4, BoundsWrite
  <2>5. R'
    BY <2>1, <2>2, <2>3, <2>4 DEF R
  <2>6. StopAhead'
    BY <1>0, <2>1, <2>4 DEF TypeOK
  <2>7. BoundaryKnown'
    <3>1. CASE stop = NoStop
      BY <2>1, <3>1
    <3>2. CASE stop # NoStop
      <4>1. PICK i \in 1..Len(rframes') : rframes'[i] = stop
        BY <2>1, <2>6, <3>2
      <4>2. rframes' # <<>>
        BY <4>1
      <4> QED
        BY <4>2
    <3> QED
      BY <3>1, <3>2
  <2> QED
    BY <2>1, <2>5, <2>6, <2>7
<1>13. CASE WriteAudioFrame
  BY <1>0, <1>13 DEF WriteAudioFrame, R
<1>14. CASE EndCluster
  <2>1. CASE pc = "audioMerge"
    <3>1. pc' = ret /\ UNCHANGED <<vframes, rframes, video, videoOut, stop>>
      BY <1>14 DEF EndCluster
    <3>2. ret \notin {"newCluster", "merge"}
      BY <1>0 DEF TypeOK
    <3> QED
      BY <1>2, <2>1, <3>1, <3>2
  <2>2. CASE pc = "merge" /\ MergeChoice = "done"
    <3>1. pc' \in {"idle", "drain", "flushVideo", "flushAudio"} /\ UNCHANGED <<vframes, rframes, video, videoOut, stop>>
      BY <1>0, <1>14 DEF EndCluster, TypeOK
    <3>2. stop = NoStop => vframes = <<>>
      BY <1>0, <2>2, FrontVideo DEF MergeChoice
    <3> QED
      BY <1>0, <3>1, <3>2 DEF R
  <2> QED
    BY <1>14, <2>1, <2>2 DEF EndCluster
<1>15. ASSUME CallNewCluster(NoStop, "drain") \/ CallNewCluster(NoStop, "flushVideo")
                \/ CallNewCluster(NoStop, "flushAudio"),
              UNCHANGED <<vframes, rframes, video, videoOut>>, vframes # <<>>, pc # "merge"
       PROVE  R' /\ BoundaryKnown' /\ StopAhead' /\ StopNotFirst'
  <2>1. Head(vframes) \in 1..Len(video)
    BY <1>0, <1>15, FrontVideo
  <2> QED
    BY <1>0, <1>15, <2>1 DEF CallNewCluster, R
<1>16. CASE Drain
  BY <1>2, <1>15, <1>16 DEF Drain, CallNewClusterAudioOnly
<1>17. CASE EOS
  BY <1>2, <1>17 DEF EOS, Resume
<1>18. CASE FlushVideoLoop
  BY <1>2, <1>15, <1>18 DEF FlushVideoLoop
<1>19. CASE FlushAudioLoop
  BY <1>2, <1>15, <1>19 DEF FlushAudioLoop, CallNewClusterAudioOnly
<1>20. CASE Final \/ CloseFinal
  BY <1>2, <1>20 DEF Final, CloseFinal, FinalSegment, Resume
<1>21. CASE DeleteStreams
  BY <1>21 DEF DeleteStreams, R, Bounds
<1> QED
  BY <1>1, <1>3, <1>4, <1>5, <1>6, <1>7, <1>8, <1>9, <1>10, <1>11, <1>12, <1>13, <1>14,
     <1>16, <1>17, <1>18, <1>19, <1>20, <1>21 DEF Next, EntryPoint, InternalStep

-----------------------------------------------------------------------------
(***************************************************************************)
(* The end of a session.                                                   *)
(***************************************************************************)

(* Every step keeps the account of what is finalised.                      *)
LEMMA SealStep ==
  ASSUME IInv, SealInv, [Next]_vars
  PROVE  SealInv'
<1> USE DEF SealInv, queues, file, sealed, inputs, eosVars, setup, control
<1>0. TypeOK
  BY DEF IInv
<1>1. CASE UNCHANGED <<open, finals, video, audio>>
  BY <1>1
<1>2. CASE \E ss \in StreamSets, hasFile \in BOOLEAN, isOgg \in OggModes : Open(ss, hasFile, isOgg)
  BY <1>2 DEF Open
<1>3. CASE FinalSegment
  BY <1>0, <1>3 DEF FinalSegment, TypeOK
<1>4. CASE \/ \E t \in VideoTimes, key \in BOOLEAN : NotifyVideoFrame(t, key)
           \/ \E t \in AudioTimes : NotifyAudioFrame(t)
  BY <1>4 DEF NotifyVideoFrame, NotifyAudioFrame
<1>5. CASE \/ \E mode \in LiveModes : SetLiveMuxMode(mode)
           \/ ReceiveVorbisHeader \/ NotifyVideoEOS \/ NotifyAudioEOS
           \/ FlushVideo \/ FlushAudio \/ Close \/ DeleteStreams
  BY <1>1, <1>5 DEF SetLiveMuxMode, ReceiveVorbisHeader, NotifyVideoEOS, NotifyAudioEOS,
     FlushVideo, FlushAudio, Close, DeleteStreams
<1>6. CASE \/ CreateNewCluster \/ CreateNewClusterAudioOnly \/ WriteVideoFrame
           \/ WriteAudioFrame \/ EndCluster
  BY <1>1, <1>6 DEF CreateNewCluster, CreateNewClusterAudioOnly, WriteVideoFrame, WriteAudioFrame,
     EndCluster
<1>7. CASE Drain \/ EOS \/ FlushVideoLoop \/ FlushAudioLoop
  BY <1>1, <1>7 DEF Drain, EOS, FlushVideoLoop, FlushAudioLoop
<1>8. CASE UNCHANGED vars
  BY <1>1, <1>8 DEF vars
<1> QED
  BY <1>2, <1>3, <1>4, <1>5, <1>6, <1>7, <1>8 DEF Next, EntryPoint, InternalStep, Final, CloseFinal

(* While the file is finalised, no step writes to it.                      *)
LEMMA SealedStep ==
  ASSUME FullInv, [Next]_vars, finals > 0, sessions' = sessions
  PROVE  UNCHANGED <<videoOut, audioOut, cues, duration, finals>>
<1> USE DEF queues, file, sealed, inputs, eosVars, setup, control
<1>1. ~open /\ pc \notin ClusterPCs /\ sessions + 1 # sessions
  BY DEF FullInv, SealInv, IInv, EndInv, Writing, TypeOK
<1>2. ~(\E ss \in StreamSets, hasFile \in BOOLEAN, isOgg \in OggModes : Open(ss, hasFile, isOgg))
  BY <1>1 DEF Open
<1>3. ~(CreateNewCluster \/ CreateNewClusterAudioOnly \/ WriteVideoFrame \/ WriteAudioFrame \/ EndCluster)
  BY <1>1 DEF ClusterPCs, CreateNewCluster, CreateNewClusterAudioOnly, WriteVideoFrame,
     WriteAudioFrame, EndCluster
<1>4. ~(\E t \in VideoTimes, key \in BOOLEAN : NotifyVideoFrame(t, key))
  BY <1>1 DEF NotifyVideoFrame
<1>5. ~(\E t \in AudioTimes : NotifyAudioFrame(t))
  BY <1>1 DEF NotifyAudioFrame
<1>6. CASE FinalSegment
  BY <1>1, <1>6 DEF FinalSegment
<1>7. CASE \/ \E mode \in LiveModes : SetLiveMuxMode(mode)
           \/ ReceiveVorbisHeader \/ NotifyVideoEOS \/ NotifyAudioEOS
           \/ FlushVideo \/ FlushAudio \/ Close \/ DeleteStreams
  BY <1>7 DEF SetLiveMuxMode, ReceiveVorbisHeader, NotifyVideoEOS, NotifyAudioEOS,
     FlushVideo, FlushAudio, Close, DeleteStreams
<1>8. CASE Drain \/ EOS \/ FlushVideoLoop \/ FlushAudioLoop
  BY <1>8 DEF Drain, EOS, FlushVideoLoop, FlushAudioLoop
<1>9. CASE UNCHANGED vars
  BY <1>9 DEF vars
<1> QED
  BY <1>2, <1>3, <1>4, <1>5, <1>6, <1>7, <1>8, <1>9
     DEF Next, EntryPoint, InternalStep, Final, CloseFinal

(* What FinalisedOnce says follows from the invariants.                    *)
LEMMA FinalisedOnceHolds == FullInv => FinalisedOnce
<1> SUFFICES ASSUME FullInv PROVE FinalisedOnce
  OBVIOUS
<1>1. IInv /\ PointersValid /\ SealInv /\ EndInv /\ TypeOK
  BY DEF FullInv, IInv
<1>2. pc = "eos" => cEOS > 0
  BY <1>1 DEF EndInv, StreamsToEnd
<1>3. ~open => vframes = <<>> /\ aframes = <<>>
  BY <1>1 DEF EndInv, QueuesEmpty
<1>4. ~open => rframes = <<>>
  BY <1>1, <1>3, PointersParts, BoundaryQueued
<1>5. pc = "detach" => ~open
  BY <1>1 DEF EndInv
<1> QED
  BY <1>1, <1>2, <1>3, <1>4, <1>5 DEF SealInv, FinalisedOnce, TypeOK

(* The two waits contradict each other: the video thread waits when its    *)
(* newest boundary is later than the newest audio frame, the audio thread  *)
(* when it is earlier.                                                     *)
LEMMA WaitsExclude == FullInv => NoMutualWait
<1> SUFFICES ASSUME FullInv, WaitVideo, WaitAudio PROVE FALSE
  BY DEF NoMutualWait
<1>1. /\ IInv /\ TypeOK /\ FramesKept /\ PointersValid
  BY DEF FullInv, IInv
<1>2. aframes # <<>> /\ rframes # <<>>
  BY DEF WaitVideo, WaitAudio
<1>3. VT(Back(rframes)) \in Nat
  <2>1. Len(rframes) \in 1..Len(rframes)
    BY <1>1, <1>2, EmptySeq DEF TypeOK
  <2>2. Back(rframes) \in 1..Len(video)
    <3>1. rframes[Len(rframes)] \in Len(videoOut) + 1..Len(video)
      BY <1>1, <2>1 DEF PointersValid
    <3>2. Len(videoOut) \in Nat /\ Len(video) \in Nat
      BY <1>1 DEF TypeOK
    <3> QED
      BY <3>1, <3>2 DEF Back
  <2>3. video[Back(rframes)] \in [t : Nat, key : BOOLEAN]
    BY <1>1, <2>2, ElementOfSeq DEF TypeOK
  <2> QED
    BY <2>3 DEF VT
<1>4. AT(Back(aframes)) \in Nat
  <2>1. Len(aframes) \in 1..Len(aframes)
    BY <1>1, <1>2, EmptySeq DEF TypeOK
  <2>2. Back(aframes) \in 1..Len(audio)
    <3>1. aframes[Len(aframes)] = Len(audioOut) + Len(aframes)
      BY <1>1, <2>1 DEF FramesKept
    <3>2. /\ Len(audioOut) + Len(aframes) = Len(audio)
          /\ Len(audioOut) \in Nat /\ Len(audio) \in Nat /\ Len(aframes) \in Nat
      BY <1>1 DEF FramesKept, TypeOK
    <3> QED
      BY <2>1, <3>1, <3>2 DEF Back
  <2>3. audio[Back(aframes)] \in [t : Nat]
    BY <1>1, <2>2, ElementOfSeq DEF TypeOK
  <2> QED
    BY <2>3 DEF AT
<1> QED
  BY <1>2, <1>3, <1>4 DEF WaitVideo, WaitAudio, WaitMs

-----------------------------------------------------------------------------
(***************************************************************************)
(* The theorems.                                                           *)
(***************************************************************************)

(* The initial state satisfies the whole invariant.                        *)
LEMMA FullInit == Init => FullInv
<1>1. Init => PointersValid /\ SealInv
  BY DEF Init, PointersValid, SealInv, NoStop
<1> QED
  BY <1>1, InvariantInit DEF FullInv

(* The whole invariant holds in every reachable state.                     *)
THEOREM FullInvariance == Spec => []FullInv
<1>1. IInv /\ (PointersValid /\ SealInv) /\ [Next]_vars => (PointersValid /\ SealInv)'
  BY PointersStep, SealStep
<1> QED
  BY <1>1, FullInit, Invariance, PTL DEF Spec, FullInv

(* The boundary queue never holds a pointer to a frame that is written,    *)
(* and the merge never meets the end of the video queue before its stop    *)
(* frame.                                                                  *)
THEOREM BoundariesValid == Spec => []PointersValid
<1>1. FullInv => PointersValid
  BY DEF FullInv
<1> QED
  BY <1>1, FullInvariance, PTL

(* Each session's file is finalised exactly once, with nothing queued.     *)
THEOREM OneFinal == Spec => []FinalisedOnce
<1> QED
  BY FinalisedOnceHolds, FullInvariance, PTL

(* A finalised file is never written again.                                *)
THEOREM SealHolds == Spec => SealedIsFinal
<1>1. FullInv /\ [Next]_vars =>
        [finals > 0 /\ sessions' = sessions =>
           UNCHANGED <<videoOut, audioOut, cues, duration, finals>>]_vars
  BY SealedStep
<1> QED
  BY <1>1, FullInvariance, PTL DEF Spec, SealedIsFinal

(* The two streaming threads are never told to wait for each other.        *)
THEOREM WaitsAreOneSided == Spec => []NoMutualWait
<1> QED
  BY WaitsExclude, FullInvariance, PTL

-----------------------------------------------------------------------------
(***************************************************************************)
(* What the interleaver writes, for every set of streams, every timecode   *)
(* and every bound: the file is ordered by time over both tracks as long   *)
(* as nobody flushes, the index of a finalised file names every key frame  *)
(* where it is, and the interleaver implements the promise about its file: *)
(* a step of the context is a step of MuxFile under the mapping of         *)
(* MuxContextRefinesFile, or leaves the promised file alone.               *)
(***************************************************************************)

(* The frames of a stream have increasing timecodes.                       *)
Increasing(s) == \A i, j \in 1..Len(s) : i < j => s[i].t < s[j].t

(* The frames of each stream that are in the queue.                        *)
QueuedVideo == Len(videoOut) + 1 .. Len(video)
QueuedAudio == Len(audioOut) + 1 .. Len(audio)

(***************************************************************************)
(* Where the thread in the context can be: it drains once both streams     *)
(* have ended, and flushes only after a flush; a stream that does not      *)
(* exist has sent nothing.                                                 *)
(***************************************************************************)
FlushPCs == {"flushVideo", "flushAudio"}

PlaceInv ==
  /\ Draining => VideoOver /\ AudioOver
  /\ pc \in FlushPCs \/ (pc \in ClusterPCs /\ ret \in FlushPCs) => flushes > 0
  /\ streams # {} /\ "video" \notin streams => video = <<>>
  /\ streams # {} /\ "audio" \notin streams => audio = <<>>

(***************************************************************************)
(* LeadInv: no stream that goes on is behind what has been written of the  *)
(* other one, and the cluster being created stops before it would be.      *)
(***************************************************************************)
WrittenFirst ==
  /\ \A i \in 1..Len(videoOut), j \in QueuedAudio : VT(i) <= AT(j)
  /\ \A i \in 1..Len(audioOut), j \in QueuedVideo : AT(i) <= VT(j)

Leads ==
  /\ ~AudioOver => \A i \in 1..Len(videoOut) : audio # <<>> /\ VT(i) <= Back(audio).t
  /\ ~VideoOver => \A i \in 1..Len(audioOut) : video # <<>> /\ AT(i) <= Back(video).t

MergeLeads ==
  /\ pc \in {"newCluster", "merge"} /\ ~AudioOver =>
       \A q \in QueuedVideo :
         stop = NoStop \/ q < stop => audio # <<>> /\ VT(q) <= Back(audio).t
  /\ pc \in {"newAudioCluster", "audioMerge"} => VideoOver /\ vframes = <<>>

LeadInv == flushes = 0 => WrittenFirst /\ Leads /\ MergeLeads

(***************************************************************************)
(* PositionInv: a block is written behind every block of the file.         *)
(***************************************************************************)
PositionInv ==
  \A b \in FileBlocks :
    /\ open => b.c <= Len(clusters)
    /\ pc \in {"merge", "audioMerge"} /\ b.c = Len(clusters) => b.n <= cFrames

OrderInv ==
  /\ FullInv
  /\ Increasing(video) /\ Increasing(audio)
  /\ PlaceInv /\ LeadInv /\ PositionInv
  /\ FileInOrder

(***************************************************************************)
(* IndexInv: while the file is open the key frames noted in its clusters   *)
(* are those it has, and the latest timecode is known.                     *)
(***************************************************************************)
KeyCue(i) ==
  [t |-> VT(videoOut[i].frame), cluster |-> videoOut[i].cluster, block |-> videoOut[i].num]

KeyFrames == {KeyCue(i) : i \in {j \in 1..Len(videoOut) : video[videoOut[j].frame].key}}

IsLatest(t) ==
  /\ \A b \in FileBlocks : b.t <= t
  /\ FileBlocks # {} => \E b \in FileBlocks : b.t = t
  /\ FileBlocks = {} => t = 0

IndexInv ==
  /\ ~open => clusters = <<>>
  /\ open => cues = {} /\ CuePoints = KeyFrames /\ IsLatest(maxTimecode)
  /\ IndexMatchesFile

-----------------------------------------------------------------------------
(***************************************************************************)
(* Frames and their times.                                                 *)
(***************************************************************************)

(* Every frame that arrived has a timecode, those in the file first.       *)
LEMMA TimesTyped ==
  ASSUME FullInv
  PROVE  /\ Len(video) \in Nat /\ Len(videoOut) \in Nat /\ Len(videoOut) <= Len(video)
         /\ Len(audio) \in Nat /\ Len(audioOut) \in Nat /\ Len(audioOut) <= Len(audio)
         /\ \A i \in 1..Len(video) : VT(i) \in Nat /\ VT(i) = video[i].t
         /\ \A i \in 1..Len(audio) : AT(i) \in Nat /\ AT(i) = audio[i].t
<1>1. TypeOK /\ FramesKept
  BY DEF FullInv, IInv
<1>2. /\ Len(video) \in Nat /\ Len(videoOut) \in Nat /\ Len(vframes) \in Nat
      /\ Len(audio) \in Nat /\ Len(audioOut) \in Nat /\ Len(aframes) \in Nat
  BY <1>1 DEF TypeOK
<1>3. Len(videoOut) <= Len(video) /\ Len(audioOut) <= Len(audio)
  BY <1>1, <1>2 DEF FramesKept
<1>4. ASSUME NEW i \in 1..Len(video) PROVE VT(i) \in Nat /\ VT(i) = video[i].t
  <2>1. video[i] \in [t : Nat, key : BOOLEAN]
    BY <1>1, <1>4, ElementOfSeq DEF TypeOK
  <2> QED
    BY <2>1 DEF VT
<1>5. ASSUME NEW i \in 1..Len(audio) PROVE AT(i) \in Nat /\ AT(i) = audio[i].t
  <2>1. audio[i] \in [t : Nat]
    BY <1>1, <1>5, ElementOfSeq DEF TypeOK
  <2> QED
    BY <2>1 DEF AT
<1> QED
  BY <1>2, <1>3, <1>4, <1>5

(* A later frame keeps the times increasing.                               *)
LEMMA IncreasingAppend ==
  ASSUME NEW S, \A x \in S : x.t \in Nat, NEW s \in Seq(S), NEW e \in S, Increasing(s),
         s # <<>> => Back(s).t < e.t
  PROVE  Increasing(Append(s, e))
<1> DEFINE r == Append(s, e)
<1>1. /\ Len(s) \in Nat /\ Len(r) = Len(s) + 1
      /\ \A i \in 1..Len(s) : r[i] = s[i] /\ s[i] \in S
      /\ r[Len(s) + 1] = e
  BY AppendProperties, ElementOfSeq
<1>2. ASSUME NEW i \in 1..Len(r), NEW j \in 1..Len(r), i < j PROVE r[i].t < r[j].t
  <2>1. i \in 1..Len(s) /\ r[i] = s[i] /\ s[i].t \in Nat
    BY <1>1, <1>2
  <2>2. CASE j \in 1..Len(s)
    BY <1>1, <1>2, <2>1, <2>2 DEF Increasing
  <2>3. CASE j = Len(s) + 1
    <3>1. s # <<>> /\ Len(s) \in 1..Len(s)
      BY <1>1, <2>1, EmptySeq
    <3>2. s[i].t <= s[Len(s)].t /\ s[Len(s)].t \in Nat /\ s[Len(s)].t < e.t
      <4>1. i = Len(s) \/ i < Len(s)
        BY <1>1, <2>1
      <4> QED
        BY <1>1, <2>1, <3>1, <4>1 DEF Increasing, Back
    <3> QED
      BY <1>1, <2>1, <2>3, <3>2
  <2> QED
    BY <1>1, <2>2, <2>3
<1> QED
  BY <1>2 DEF Increasing

(* The newest frame is the latest, and frames further back are later.      *)
LEMMA VideoLatest ==
  ASSUME FullInv, Increasing(video)
  PROVE  /\ \A i, j \in 1..Len(video) : i <= j => VT(i) <= VT(j)
         /\ \A i \in 1..Len(video) : video # <<>> /\ VT(i) <= Back(video).t
         /\ video # <<>> => Back(video).t \in Nat
<1>1. /\ Len(video) \in Nat
      /\ \A i \in 1..Len(video) : VT(i) \in Nat /\ VT(i) = video[i].t
  BY TimesTyped
<1>2. ASSUME NEW i \in 1..Len(video), NEW j \in 1..Len(video), i <= j PROVE VT(i) <= VT(j)
  <2>1. i = j \/ i < j
    BY <1>1, <1>2
  <2> QED
    BY <1>1, <2>1 DEF Increasing
<1>3. video # <<>> => Len(video) \in 1..Len(video)
  BY <1>1, EmptySeq DEF FullInv, IInv, TypeOK
<1>4. \A i \in 1..Len(video) : video # <<>> /\ i <= Len(video)
  BY <1>1
<1> QED
  BY <1>1, <1>2, <1>3, <1>4 DEF Back

LEMMA AudioLatest ==
  ASSUME FullInv, Increasing(audio)
  PROVE  /\ \A i, j \in 1..Len(audio) : i <= j => AT(i) <= AT(j)
         /\ \A i \in 1..Len(audio) : audio # <<>> /\ AT(i) <= Back(audio).t
         /\ audio # <<>> => Back(audio).t \in Nat
<1>1. /\ Len(audio) \in Nat
      /\ \A i \in 1..Len(audio) : AT(i) \in Nat /\ AT(i) = audio[i].t
  BY TimesTyped
<1>2. ASSUME NEW i \in 1..Len(audio), NEW j \in 1..Len(audio), i <= j PROVE AT(i) <= AT(j)
  <2>1. i = j \/ i < j
    BY <1>1, <1>2
  <2> QED
    BY <1>1, <2>1 DEF Increasing
<1>3. audio # <<>> => Len(audio) \in 1..Len(audio)
  BY <1>1, EmptySeq DEF FullInv, IInv, TypeOK
<1>4. \A i \in 1..Len(audio) : audio # <<>> /\ i <= Len(audio)
  BY <1>1
<1> QED
  BY <1>1, <1>2, <1>3, <1>4 DEF Back

(***************************************************************************)
(* What a step does to the frames that arrived: one is added, with a later *)
(* timecode, or they are forgotten by a new session, or they are kept.     *)
(***************************************************************************)
Opening == \E ss \in StreamSets, hasFile \in BOOLEAN, isOgg \in OggModes : Open(ss, hasFile, isOgg)

VideoArrives == \E t \in VideoTimes, key \in BOOLEAN : NotifyVideoFrame(t, key)

AudioArrives == \E t \in AudioTimes : NotifyAudioFrame(t)

(* The steps that move frames are these; the others leave them alone.      *)
LEMMA FrameSteps ==
  ASSUME [Next]_vars
  PROVE  \/ Opening \/ VideoArrives \/ AudioArrives \/ WriteVideoFrame \/ WriteAudioFrame
         \/ UNCHANGED <<video, audio, videoOut, audioOut>>
<1> USE DEF queues, file, sealed, inputs, eosVars, setup, control
<1>1. CASE \/ \E mode \in LiveModes : SetLiveMuxMode(mode)
           \/ ReceiveVorbisHeader \/ NotifyVideoEOS \/ NotifyAudioEOS
           \/ FlushVideo \/ FlushAudio \/ Close \/ DeleteStreams
  BY <1>1 DEF SetLiveMuxMode, ReceiveVorbisHeader, NotifyVideoEOS, NotifyAudioEOS,
     FlushVideo, FlushAudio, Close, DeleteStreams
<1>2. CASE CreateNewCluster \/ CreateNewClusterAudioOnly \/ EndCluster
  BY <1>2 DEF CreateNewCluster, CreateNewClusterAudioOnly, EndCluster
<1>3. CASE Drain \/ EOS \/ FlushVideoLoop \/ FlushAudioLoop
  BY <1>3 DEF Drain, EOS, FlushVideoLoop, FlushAudioLoop
<1>4. CASE Final \/ CloseFinal
  BY <1>4 DEF Final, CloseFinal, FinalSegment
<1>5. CASE UNCHANGED vars
  BY <1>5 DEF vars
<1> QED
  BY <1>1, <1>2, <1>3, <1>4, <1>5 DEF Next, EntryPoint, InternalStep, Opening, VideoArrives,
     AudioArrives

(* The times of the frames that have arrived do not change when one more   *)
(* arrives.                                                                *)
LEMMA VideoAppended ==
  ASSUME FullInv, NEW t \in VideoTimes, NEW key \in BOOLEAN, NotifyVideoFrame(t, key)
  PROVE  /\ video' = Append(video, [t |-> t, key |-> key]) /\ t \in Nat
         /\ Len(video') = Len(video) + 1
         /\ \A i \in 1..Len(video) : video'[i] = video[i] /\ VT(i)' = VT(i)
         /\ \A i \in 1..Len(video') : i \in 1..Len(video) \/ VT(i)' = t
         /\ Back(video').t = t /\ video' # <<>>
         /\ UNCHANGED <<audio, videoOut, audioOut, flushes, streams, eosVideo, eosAudio, open, clusters>>
         /\ pc = "idle" /\ open /\ ~VideoOver
         /\ video # <<>> => Back(video).t < t
<1>1. /\ t \in Nat /\ [t |-> t, key |-> key] \in [t : Nat, key : BOOLEAN]
      /\ video \in Seq([t : Nat, key : BOOLEAN])
  BY TimesAssumption DEF FullInv, IInv, TypeOK
<1>2. video' = Append(video, [t |-> t, key |-> key])
  BY DEF NotifyVideoFrame
<1>3. /\ Len(video') = Len(video) + 1 /\ Len(video) \in Nat
      /\ \A i \in 1..Len(video) : video'[i] = video[i]
      /\ video'[Len(video) + 1] = [t |-> t, key |-> key]
      /\ video' # <<>>
  BY <1>1, <1>2, AppendProperties
<1>4. /\ \A i \in 1..Len(video) : VT(i)' = VT(i)
      /\ \A i \in 1..Len(video') : i \in 1..Len(video) \/ VT(i)' = t
  BY <1>3 DEF VT
<1>5. Back(video').t = t
  BY <1>3 DEF Back
<1>6. /\ UNCHANGED <<audio, videoOut, audioOut, flushes, streams, eosVideo, eosAudio, open, clusters>>
      /\ pc = "idle" /\ open /\ ~VideoOver
      /\ video # <<>> => Back(video).t < t
  BY DEF NotifyVideoFrame, file, setup, eosVars, VideoOver
<1> QED
  BY <1>1, <1>2, <1>3, <1>4, <1>5, <1>6

LEMMA AudioAppended ==
  ASSUME FullInv, NEW t \in AudioTimes, NotifyAudioFrame(t)
  PROVE  /\ audio' = Append(audio, [t |-> t]) /\ t \in Nat
         /\ Len(audio') = Len(audio) + 1
         /\ \A i \in 1..Len(audio) : audio'[i] = audio[i] /\ AT(i)' = AT(i)
         /\ \A i \in 1..Len(audio') : i \in 1..Len(audio) \/ AT(i)' = t
         /\ Back(audio').t = t /\ audio' # <<>>
         /\ UNCHANGED <<video, videoOut, audioOut, flushes, streams, eosVideo, eosAudio, open, clusters>>
         /\ pc = "idle" /\ open /\ ~AudioOver
         /\ audio # <<>> => Back(audio).t < t
<1>1. t \in Nat /\ [t |-> t] \in [t : Nat] /\ audio \in Seq([t : Nat])
  BY TimesAssumption DEF FullInv, IInv, TypeOK
<1>2. audio' = Append(audio, [t |-> t])
  BY DEF NotifyAudioFrame
<1>3. /\ Len(audio') = Len(audio) + 1 /\ Len(audio) \in Nat
      /\ \A i \in 1..Len(audio) : audio'[i] = audio[i]
      /\ audio'[Len(audio) + 1] = [t |-> t]
      /\ audio' # <<>>
  BY ONLY <1>1, <1>2, AppendProperties
<1>4. /\ \A i \in 1..Len(audio) : AT(i)' = AT(i)
      /\ \A i \in 1..Len(audio') : i \in 1..Len(audio) \/ AT(i)' = t
  BY <1>3 DEF AT
<1>5. Back(audio').t = t
  BY <1>3 DEF Back
<1>6. /\ UNCHANGED <<video, videoOut, audioOut, flushes, streams, eosVideo, eosAudio, open, clusters>>
      /\ pc = "idle" /\ open /\ ~AudioOver
      /\ audio # <<>> => Back(audio).t < t
  BY DEF NotifyAudioFrame, file, setup, eosVars, AudioOver
<1> QED
  BY <1>1, <1>2, <1>3, <1>4, <1>5, <1>6

(* The times of a stream's frames stay increasing.                         *)
LEMMA IncreasingStep ==
  ASSUME FullInv, Increasing(video), Increasing(audio), [Next]_vars
  PROVE  Increasing(video') /\ Increasing(audio')
<1>1. CASE Opening
  BY <1>1 DEF Opening, Open, Increasing
<1>2. CASE VideoArrives
  <2>1. PICK t \in VideoTimes, key \in BOOLEAN : NotifyVideoFrame(t, key)
    BY <1>2 DEF VideoArrives
  <2>2. /\ video' = Append(video, [t |-> t, key |-> key]) /\ audio' = audio /\ t \in Nat
        /\ video # <<>> => Back(video).t < t
    BY <2>1, VideoAppended
  <2>3. video \in Seq([t : Nat, key : BOOLEAN]) /\ [t |-> t, key |-> key] \in [t : Nat, key : BOOLEAN]
    BY <2>2 DEF FullInv, IInv, TypeOK
  <2>4. \A x \in [t : Nat, key : BOOLEAN] : x.t \in Nat
    OBVIOUS
  <2>5. Increasing(Append(video, [t |-> t, key |-> key]))
    BY <2>2, <2>3, <2>4, IncreasingAppend
  <2> QED
    BY <2>2, <2>5
<1>3. CASE AudioArrives
  <2>1. PICK t \in AudioTimes : NotifyAudioFrame(t)
    BY <1>3 DEF AudioArrives
  <2>2. /\ audio' = Append(audio, [t |-> t]) /\ video' = video /\ t \in Nat
        /\ audio # <<>> => Back(audio).t < t
    BY <2>1, AudioAppended
  <2>3. audio \in Seq([t : Nat]) /\ [t |-> t] \in [t : Nat]
    BY <2>2 DEF FullInv, IInv, TypeOK
  <2>4. \A x \in [t : Nat] : x.t \in Nat
    OBVIOUS
  <2>5. Increasing(Append(audio, [t |-> t]))
    BY <2>2, <2>3, <2>4, IncreasingAppend
  <2> QED
    BY <2>2, <2>5
<1>4. CASE WriteVideoFrame \/ WriteAudioFrame \/ UNCHANGED <<video, audio, videoOut, audioOut>>
  BY <1>4 DEF WriteVideoFrame, WriteAudioFrame, inputs
<1> QED
  BY <1>1, <1>2, <1>3, <1>4, FrameSteps

-----------------------------------------------------------------------------
(***************************************************************************)
(* The blocks of the file.                                                 *)
(***************************************************************************)
VBlock(i) == [c |-> videoOut[i].cluster, n |-> videoOut[i].num, t |-> VT(videoOut[i].frame)]
ABlock(i) == [c |-> audioOut[i].cluster, n |-> audioOut[i].num, t |-> AT(audioOut[i].frame)]

(* The i-th block of a track holds the i-th frame of the stream.           *)
LEMMA BlockOfFrame ==
  ASSUME FullInv
  PROVE  /\ FileBlocks = {VBlock(i) : i \in 1..Len(videoOut)} \cup {ABlock(i) : i \in 1..Len(audioOut)}
         /\ \A i \in 1..Len(videoOut) : /\ videoOut[i].frame = i /\ VBlock(i).t = VT(i) /\ VT(i) \in Nat
                                        /\ VBlock(i).c \in Nat /\ VBlock(i).n \in Nat
         /\ \A i \in 1..Len(audioOut) : /\ audioOut[i].frame = i /\ ABlock(i).t = AT(i) /\ AT(i) \in Nat
                                        /\ ABlock(i).c \in Nat /\ ABlock(i).n \in Nat
<1>1. TypeOK /\ FramesKept
  BY DEF FullInv, IInv
<1>2. ASSUME NEW i \in 1..Len(videoOut)
      PROVE  /\ videoOut[i].frame = i /\ VBlock(i).t = VT(i) /\ VT(i) \in Nat
             /\ VBlock(i).c \in Nat /\ VBlock(i).n \in Nat
  <2>1. videoOut[i] \in BlockType
    BY <1>1, <1>2, ElementOfSeq DEF TypeOK
  <2>2. videoOut[i].frame = i
    BY <1>1, <1>2 DEF FramesKept
  <2>3. VT(i) \in Nat
    BY <1>2, TimesTyped
  <2> QED
    BY <2>1, <2>2, <2>3 DEF VBlock, BlockType
<1>3. ASSUME NEW i \in 1..Len(audioOut)
      PROVE  /\ audioOut[i].frame = i /\ ABlock(i).t = AT(i) /\ AT(i) \in Nat
             /\ ABlock(i).c \in Nat /\ ABlock(i).n \in Nat
  <2>1. audioOut[i] \in BlockType
    BY <1>1, <1>3, ElementOfSeq DEF TypeOK
  <2>2. audioOut[i].frame = i
    BY <1>1, <1>3 DEF FramesKept
  <2>3. AT(i) \in Nat
    BY <1>3, TimesTyped
  <2> QED
    BY <2>1, <2>2, <2>3 DEF ABlock, BlockType
<1>4. FileBlocks = {VBlock(i) : i \in 1..Len(videoOut)} \cup {ABlock(i) : i \in 1..Len(audioOut)}
  BY DEF FileBlocks, VBlock, ABlock
<1> QED
  BY <1>2, <1>3, <1>4

(* A block of the file is of one of the frames written.                    *)
LEMMA BlockSource ==
  ASSUME FullInv, NEW b \in FileBlocks
  PROVE  /\ b.c \in Nat /\ b.n \in Nat /\ b.t \in Nat
         /\ \/ \E i \in 1..Len(videoOut) : b = VBlock(i) /\ b.t = VT(i)
            \/ \E i \in 1..Len(audioOut) : b = ABlock(i) /\ b.t = AT(i)
<1>1. CASE \E i \in 1..Len(videoOut) : b = VBlock(i)
  BY <1>1, BlockOfFrame
<1>2. CASE \E i \in 1..Len(audioOut) : b = ABlock(i)
  BY <1>2, BlockOfFrame
<1> QED
  BY <1>1, <1>2, BlockOfFrame

(* The blocks stay the same while nothing is written and the frames in the *)
(* file keep their times.                                                  *)
LEMMA BlocksStay ==
  ASSUME FullInv, UNCHANGED <<videoOut, audioOut>>,
         \A i \in 1..Len(videoOut) : VT(i)' = VT(i), \A i \in 1..Len(audioOut) : AT(i)' = AT(i)
  PROVE  FileBlocks' = FileBlocks
<1>1. \A i \in 1..Len(videoOut) : VBlock(i)' = VBlock(i)
  BY BlockOfFrame DEF VBlock, VT
<1>2. \A i \in 1..Len(audioOut) : ABlock(i)' = ABlock(i)
  BY BlockOfFrame DEF ABlock, AT
<1>3. FileBlocks' = {VBlock(i)' : i \in 1..Len(videoOut)} \cup {ABlock(i)' : i \in 1..Len(audioOut)}
  BY DEF FileBlocks, VBlock, ABlock
<1> QED
  BY <1>1, <1>2, <1>3, BlockOfFrame

NewBlock(t) == [c |-> Len(clusters), n |-> cFrames + 1, t |-> t]

(* A block is written behind those that were written before.               *)
LEMMA WrittenLast ==
  ASSUME NEW out \in Seq(BlockType), NEW b \in BlockType, NEW after, after = Append(out, b)
  PROVE  /\ Len(after) = Len(out) + 1 /\ Len(out) \in Nat
         /\ \A i \in 1..Len(out) : after[i] = out[i]
         /\ after[Len(out) + 1] = b
<1>1. Len(out) \in Nat
  OBVIOUS
<1> QED
  BY <1>1, AppendProperties

(* Writing the next video frame adds a block behind the last of the        *)
(* cluster being created.                                                  *)
LEMMA VideoWritten ==
  ASSUME FullInv, WriteVideoFrame
  PROVE  /\ vframes # <<>> /\ Head(vframes) = Len(videoOut) + 1 /\ Len(videoOut) + 1 \in QueuedVideo
         /\ Len(videoOut') = Len(videoOut) + 1
         /\ \A i \in 1..Len(videoOut) : videoOut'[i] = videoOut[i]
         /\ videoOut'[Len(videoOut) + 1] = Block(Len(videoOut) + 1, VT(Len(videoOut) + 1))
         /\ FileBlocks' = FileBlocks \cup {NewBlock(VT(Len(videoOut) + 1))}
         /\ UNCHANGED <<video, audio, audioOut, flushes>>
<1> DEFINE p == Len(videoOut) + 1
           nb == Block(p, VT(p))
<1>1. TypeOK /\ FramesKept /\ vframes # <<>> /\ clusters # <<>>
  BY DEF FullInv, IInv, ClusterInv, WriteVideoFrame, MergeChoice
<1>2. Head(vframes) = p /\ p \in 1..Len(video) /\ p \in QueuedVideo /\ VT(p) \in Nat
  <2>1. Head(vframes) = p /\ Head(vframes) \in 1..Len(video) /\ VT(Head(vframes)) \in Nat
    BY <1>1, FrontVideo
  <2>2. Len(videoOut) \in Nat
    BY TimesTyped
  <2> QED
    BY <2>1, <2>2 DEF QueuedVideo
<1>3. videoOut' = Append(videoOut, nb) /\ UNCHANGED <<video, audio, audioOut, flushes>>
  BY <1>2 DEF WriteVideoFrame, inputs
<1>4. nb \in BlockType /\ nb.cluster = Len(clusters) /\ nb.num = cFrames + 1 /\ nb.frame = p
  BY <1>1, <1>2, BlockIsTyped DEF Block
<1>5. /\ Len(videoOut') = p /\ Len(videoOut) \in Nat
      /\ \A i \in 1..Len(videoOut) : videoOut'[i] = videoOut[i]
      /\ videoOut'[p] = nb
  <2>1. videoOut \in Seq(BlockType) /\ nb \in BlockType /\ videoOut' = Append(videoOut, nb)
    BY <1>1, <1>3, <1>4 DEF TypeOK
  <2> HIDE DEF nb
  <2> QED
    BY <2>1, WrittenLast
<1>6. \A i \in 1..Len(videoOut) : VBlock(i)' = VBlock(i)
  BY <1>3, <1>5 DEF VBlock, VT
<1>7. \A i \in 1..Len(audioOut) : ABlock(i)' = ABlock(i)
  BY <1>3 DEF ABlock, AT
<1>8. \A i : i = p => VBlock(i)' = NewBlock(VT(p))
  BY <1>3, <1>4, <1>5 DEF VBlock, VT, NewBlock
<1>9. FileBlocks' = {VBlock(i)' : i \in 1..p} \cup {ABlock(i)' : i \in 1..Len(audioOut)}
  BY <1>3, <1>5 DEF FileBlocks, VBlock, ABlock
<1>10. 1..p = 1..Len(videoOut) \cup {p}
  BY <1>5
<1>11. FileBlocks' = FileBlocks \cup {NewBlock(VT(p))}
  <2>1. {VBlock(i)' : i \in 1..p} = {VBlock(i) : i \in 1..Len(videoOut)} \cup {NewBlock(VT(p))}
    BY <1>6, <1>8, <1>10
  <2>2. {ABlock(i)' : i \in 1..Len(audioOut)} = {ABlock(i) : i \in 1..Len(audioOut)}
    BY <1>7
  <2> QED
    BY <1>9, <2>1, <2>2, BlockOfFrame
<1> QED
  BY <1>1, <1>2, <1>3, <1>5, <1>11

(* The same of an audio frame.                                             *)
LEMMA AudioWritten ==
  ASSUME FullInv, WriteAudioFrame
  PROVE  /\ aframes # <<>> /\ Head(aframes) = Len(audioOut) + 1 /\ Len(audioOut) + 1 \in QueuedAudio
         /\ Len(audioOut') = Len(audioOut) + 1
         /\ FileBlocks' = FileBlocks \cup {NewBlock(AT(Len(audioOut) + 1))}
         /\ UNCHANGED <<video, audio, videoOut, flushes>>
<1> DEFINE p == Len(audioOut) + 1
           nb == Block(p, AT(p))
<1>1. TypeOK /\ FramesKept /\ aframes # <<>> /\ clusters # <<>>
  BY DEF FullInv, IInv, ClusterInv, WriteAudioFrame, MergeChoice, AudioMergeChoice
<1>2. Head(aframes) = p /\ p \in 1..Len(audio) /\ p \in QueuedAudio /\ AT(p) \in Nat
  <2>1. Head(aframes) = p /\ Head(aframes) \in 1..Len(audio) /\ AT(Head(aframes)) \in Nat
    BY <1>1, FrontAudio
  <2>2. Len(audioOut) \in Nat
    BY TimesTyped
  <2> QED
    BY <2>1, <2>2 DEF QueuedAudio
<1>3. audioOut' = Append(audioOut, nb) /\ UNCHANGED <<video, audio, videoOut, flushes>>
  BY <1>2 DEF WriteAudioFrame, inputs
<1>4. nb \in BlockType /\ nb.cluster = Len(clusters) /\ nb.num = cFrames + 1 /\ nb.frame = p
  BY <1>1, <1>2, BlockIsTyped DEF Block
<1>5. /\ Len(audioOut') = p /\ Len(audioOut) \in Nat
      /\ \A i \in 1..Len(audioOut) : audioOut'[i] = audioOut[i]
      /\ audioOut'[p] = nb
  <2>1. audioOut \in Seq(BlockType) /\ nb \in BlockType /\ audioOut' = Append(audioOut, nb)
    BY <1>1, <1>3, <1>4 DEF TypeOK
  <2> HIDE DEF nb
  <2> QED
    BY <2>1, WrittenLast
<1>6. \A i \in 1..Len(audioOut) : ABlock(i)' = ABlock(i)
  BY <1>3, <1>5 DEF ABlock, AT
<1>7. \A i \in 1..Len(videoOut) : VBlock(i)' = VBlock(i)
  BY <1>3 DEF VBlock, VT
<1>8. \A i : i = p => ABlock(i)' = NewBlock(AT(p))
  BY <1>3, <1>4, <1>5 DEF ABlock, AT, NewBlock
<1>9. FileBlocks' = {VBlock(i)' : i \in 1..Len(videoOut)} \cup {ABlock(i)' : i \in 1..p}
  BY <1>3, <1>5 DEF FileBlocks, VBlock, ABlock
<1>10. 1..p = 1..Len(audioOut) \cup {p}
  BY <1>5
<1>11. FileBlocks' = FileBlocks \cup {NewBlock(AT(p))}
  <2>1. {ABlock(i)' : i \in 1..p} = {ABlock(i) : i \in 1..Len(audioOut)} \cup {NewBlock(AT(p))}
    BY <1>6, <1>8, <1>10
  <2>2. {VBlock(i)' : i \in 1..Len(videoOut)} = {VBlock(i) : i \in 1..Len(videoOut)}
    BY <1>7
  <2> QED
    BY <1>9, <2>1, <2>2, BlockOfFrame
<1> QED
  BY <1>1, <1>2, <1>3, <1>5, <1>11

(* Steps that write nothing keep the blocks, or start a new file.          *)
LEMMA OtherStepsKeepBlocks ==
  ASSUME FullInv, [Next]_vars, ~Opening, ~WriteVideoFrame, ~WriteAudioFrame
  PROVE  FileBlocks' = FileBlocks /\ UNCHANGED <<videoOut, audioOut>>
<1>0. \A i \in 1..Len(videoOut) : i \in 1..Len(video)
  BY TimesTyped
<1>1. \A i \in 1..Len(audioOut) : i \in 1..Len(audio)
  BY TimesTyped
<1>2. CASE VideoArrives
  <2>1. PICK t \in VideoTimes, key \in BOOLEAN : NotifyVideoFrame(t, key)
    BY <1>2 DEF VideoArrives
  <2>2. /\ \A i \in 1..Len(video) : VT(i)' = VT(i)
        /\ UNCHANGED <<audio, videoOut, audioOut>>
    BY <2>1, VideoAppended
  <2>3. \A i \in 1..Len(audioOut) : AT(i)' = AT(i)
    BY <2>2 DEF AT
  <2>4. \A i \in 1..Len(videoOut) : VT(i)' = VT(i)
    BY <1>0, <2>2
  <2> QED
    BY <2>2, <2>3, <2>4, BlocksStay
<1>3. CASE AudioArrives
  <2>1. PICK t \in AudioTimes : NotifyAudioFrame(t)
    BY <1>3 DEF AudioArrives
  <2>2. /\ \A i \in 1..Len(audio) : AT(i)' = AT(i)
        /\ UNCHANGED <<video, videoOut, audioOut>>
    BY <2>1, AudioAppended
  <2>3. \A i \in 1..Len(videoOut) : VT(i)' = VT(i)
    BY <2>2 DEF VT
  <2>4. \A i \in 1..Len(audioOut) : AT(i)' = AT(i)
    BY <1>1, <2>2
  <2> QED
    BY <2>2, <2>3, <2>4, BlocksStay
<1>4. CASE UNCHANGED <<video, audio, videoOut, audioOut>>
  BY <1>4 DEF FileBlocks, VT, AT
<1> QED
  BY <1>2, <1>3, <1>4, FrameSteps

-----------------------------------------------------------------------------
(***************************************************************************)
(* Order.                                                                  *)
(***************************************************************************)

(* The thread drains only at the end, and a missing stream sends nothing.  *)
LEMMA PlaceStep ==
  ASSUME FullInv, PlaceInv, [Next]_vars
  PROVE  PlaceInv'
<1> USE DEF PlaceInv, FlushPCs, ClusterPCs, Draining, VideoOver, AudioOver, queues, file, sealed,
            inputs, eosVars, setup, control
<1>0. TypeOK /\ flushes \in Nat
  BY BoundsAssumption DEF FullInv, IInv, TypeOK
<1>1. CASE Opening
  BY <1>1 DEF Opening, Open
<1>2. CASE VideoArrives
  BY <1>2 DEF VideoArrives, NotifyVideoFrame, CallNewCluster
<1>3. CASE AudioArrives
  BY <1>3 DEF AudioArrives, NotifyAudioFrame, CallNewCluster, CallNewClusterAudioOnly
<1>4. CASE \/ \E mode \in LiveModes : SetLiveMuxMode(mode)
           \/ ReceiveVorbisHeader
  BY <1>4 DEF SetLiveMuxMode, ReceiveVorbisHeader
<1>5. CASE NotifyVideoEOS
  BY <1>5 DEF NotifyVideoEOS, AfterEOSFlag
<1>6. CASE NotifyAudioEOS
  BY <1>6 DEF NotifyAudioEOS, AfterEOSFlag
<1>7. CASE FlushVideo \/ FlushAudio
  BY <1>0, <1>7 DEF FlushVideo, FlushAudio
<1>8. CASE Close \/ DeleteStreams
  BY <1>8 DEF Close, DeleteStreams
<1>9. CASE CreateNewCluster \/ CreateNewClusterAudioOnly
  BY <1>9 DEF CreateNewCluster, CreateNewClusterAudioOnly
<1>10. CASE WriteVideoFrame
  BY <1>10 DEF WriteVideoFrame
<1>11. CASE WriteAudioFrame
  BY <1>11 DEF WriteAudioFrame
<1>12. CASE EndCluster
  BY <1>0, <1>12 DEF EndCluster, TypeOK
<1>13. CASE Drain
  BY <1>13 DEF Drain, CallNewCluster, CallNewClusterAudioOnly
<1>14. CASE EOS
  BY <1>14 DEF EOS, Resume
<1>15. CASE FlushVideoLoop \/ FlushAudioLoop
  BY <1>15 DEF FlushVideoLoop, FlushAudioLoop, CallNewCluster, CallNewClusterAudioOnly
<1>16. CASE Final \/ CloseFinal
  BY <1>16 DEF Final, CloseFinal, FinalSegment, Resume
<1>17. CASE UNCHANGED vars
  BY <1>17 DEF vars
<1> QED
  BY <1>1, <1>2, <1>3, <1>4, <1>5, <1>6, <1>7, <1>8, <1>9, <1>10, <1>11, <1>12, <1>13, <1>14,
     <1>15, <1>16, <1>17 DEF Next, EntryPoint, InternalStep, Opening, VideoArrives, AudioArrives

LeadParts == WrittenFirst /\ Leads /\ MergeLeads

(* A video frame that arrives is behind the audio already written, and a   *)
(* cluster that it completes stops before the newest audio frame.          *)
LEMMA LeadVideoArrives ==
  ASSUME FullInv, Increasing(video), LeadParts, NEW t \in VideoTimes, NEW key \in BOOLEAN,
         NotifyVideoFrame(t, key)
  PROVE  LeadParts'
<1> DEFINE p == Len(video) + 1
<1>1. /\ t \in Nat /\ Len(video') = p
      /\ \A i \in 1..Len(video) : VT(i)' = VT(i)
      /\ \A i \in 1..Len(video') : i \in 1..Len(video) \/ VT(i)' = t
      /\ Back(video').t = t /\ video' # <<>>
      /\ UNCHANGED <<audio, videoOut, audioOut, streams, eosVideo, eosAudio>>
      /\ pc = "idle" /\ ~VideoOver
      /\ video # <<>> => Back(video).t < t
  BY VideoAppended
<1>2. /\ Len(video) \in Nat /\ Len(videoOut) \in Nat /\ Len(videoOut) <= Len(video)
      /\ \A i \in 1..Len(video) : VT(i) \in Nat
      /\ Len(audio) \in Nat /\ Len(audioOut) \in Nat /\ Len(audioOut) <= Len(audio)
      /\ \A i \in 1..Len(audio) : AT(i) \in Nat
  BY TimesTyped
<1>3. \A i \in 1..Len(video) : VT(i) < t
  <2>1. \A i \in 1..Len(video) : video # <<>> /\ VT(i) <= Back(video).t /\ Back(video).t \in Nat
    BY VideoLatest
  <2> QED
    BY <1>1, <1>2, <2>1
<1>4. \A i \in 1..Len(audioOut) : AT(i)' = AT(i) /\ AT(i) < t /\ AT(i) \in Nat
  <2>1. ASSUME NEW i \in 1..Len(audioOut) PROVE AT(i)' = AT(i) /\ AT(i) < t /\ AT(i) \in Nat
    <3>1. video # <<>> /\ AT(i) <= Back(video).t
      BY <1>1 DEF LeadParts, Leads
    <3>2. Back(video).t \in Nat
      BY <3>1, VideoLatest
    <3>3. AT(i) \in Nat /\ AT(i)' = AT(i)
      BY <1>1, <1>2 DEF AT
    <3> QED
      BY <1>1, <3>1, <3>2, <3>3
  <2> QED
    BY <2>1
<1>5. WrittenFirst'
  <2>1. ASSUME NEW i \in 1..Len(videoOut'), NEW j \in QueuedAudio' PROVE VT(i)' <= AT(j)'
    <3>1. i \in 1..Len(videoOut) /\ j \in QueuedAudio /\ i \in 1..Len(video)
      BY <1>1, <1>2, <2>1 DEF QueuedAudio
    <3>2. VT(i) <= AT(j) /\ VT(i)' = VT(i) /\ AT(j)' = AT(j)
      BY <1>1, <3>1 DEF LeadParts, WrittenFirst, AT
    <3> QED
      BY <3>2
  <2>2. ASSUME NEW i \in 1..Len(audioOut'), NEW j \in QueuedVideo' PROVE AT(i)' <= VT(j)'
    <3>1. i \in 1..Len(audioOut) /\ j \in 1..Len(video')
      BY <1>1, <1>2, <2>2 DEF QueuedVideo
    <3>2. CASE j \in 1..Len(video)
      <4>1. j \in QueuedVideo
        BY <1>1, <1>2, <2>2, <3>2 DEF QueuedVideo
      <4> QED
        BY <1>1, <1>4, <3>1, <3>2, <4>1 DEF LeadParts, WrittenFirst
    <3>3. CASE VT(j)' = t
      BY <1>1, <1>4, <3>1, <3>3
    <3> QED
      BY <1>1, <3>1, <3>2, <3>3
  <2> QED
    BY <2>1, <2>2 DEF WrittenFirst
<1>6. Leads'
  <2>1. \A i \in 1..Len(videoOut) : VT(i)' = VT(i)
    BY <1>1, <1>2
  <2> QED
    BY <1>1, <1>4, <2>1 DEF LeadParts, Leads, VideoOver, AudioOver
<1>7. MergeLeads'
  <2>1. CASE rframes # <<>> /\ IsRframe(t, key) /\ AudioReached(t) /\ CallNewCluster(p, "idle")
    <3>1. ASSUME ~AudioOver PROVE audio # <<>> /\ Back(audio).t >= t /\ Back(audio).t \in Nat
      <4>1. aframes # <<>> /\ AT(Back(aframes)) >= t
        BY <2>1, <3>1 DEF AudioReached
      <4>2. Back(aframes) = Len(audio)
        <5>1. Len(aframes) \in Nat /\ Len(aframes) > 0
          BY <4>1, EmptySeq DEF FullInv, IInv, TypeOK
        <5> QED
          BY <5>1 DEF FullInv, IInv, FramesKept, Back
      <4>3. audio # <<>> /\ Len(audio) \in 1..Len(audio)
        <5>1. Len(aframes) \in Nat /\ Len(aframes) > 0
          BY <4>1, EmptySeq DEF FullInv, IInv, TypeOK
        <5>2. Len(audio) > 0
          BY <1>2, <5>1 DEF FullInv, IInv, FramesKept
        <5> QED
          BY <1>2, <5>2
      <4> QED
        BY <1>2, <4>1, <4>2, <4>3 DEF AT, Back
    <3>2. ASSUME ~AudioOver, NEW q \in QueuedVideo', q < p \/ p = NoStop
          PROVE  audio' # <<>> /\ VT(q)' <= Back(audio').t
      <4>1. q \in 1..Len(video)
        BY <1>1, <1>2, <3>2 DEF QueuedVideo, NoStop
      <4> QED
        BY <1>1, <1>2, <1>3, <3>1, <3>2, <4>1
    <3>3. AudioOver' = AudioOver /\ stop' = p /\ pc' = "newCluster"
      BY <1>1, <2>1 DEF AudioOver, CallNewCluster
    <3> QED
      BY <3>2, <3>3 DEF MergeLeads
  <2>2. CASE pc' = "idle"
    BY <2>2 DEF MergeLeads
  <2> QED
    BY <1>1, <2>1, <2>2 DEF NotifyVideoFrame
<1> QED
  BY <1>5, <1>6, <1>7 DEF LeadParts

(* An audio frame that arrives is behind the video already written, and    *)
(* not before the frame at which a cluster that it completes stops.        *)
LEMMA LeadAudioArrives ==
  ASSUME FullInv, Increasing(video), Increasing(audio), PlaceInv, LeadParts, NEW t \in AudioTimes,
         NotifyAudioFrame(t)
  PROVE  LeadParts'
<1> DEFINE p == Len(audio) + 1
<1>1. /\ t \in Nat /\ Len(audio') = p
      /\ \A i \in 1..Len(audio) : AT(i)' = AT(i)
      /\ \A i \in 1..Len(audio') : i \in 1..Len(audio) \/ AT(i)' = t
      /\ Back(audio').t = t /\ audio' # <<>>
      /\ UNCHANGED <<video, videoOut, audioOut, streams, eosVideo, eosAudio>>
      /\ pc = "idle" /\ open /\ ~AudioOver
      /\ audio # <<>> => Back(audio).t < t
  BY AudioAppended
<1>2. /\ Len(video) \in Nat /\ Len(videoOut) \in Nat /\ Len(videoOut) <= Len(video)
      /\ \A i \in 1..Len(video) : VT(i) \in Nat
      /\ Len(audio) \in Nat /\ Len(audioOut) \in Nat /\ Len(audioOut) <= Len(audio)
      /\ \A i \in 1..Len(audio) : AT(i) \in Nat
  BY TimesTyped
<1>4. \A i \in 1..Len(videoOut) : VT(i)' = VT(i) /\ VT(i) < t /\ VT(i) \in Nat
  <2>1. ASSUME NEW i \in 1..Len(videoOut) PROVE VT(i)' = VT(i) /\ VT(i) < t /\ VT(i) \in Nat
    <3>1. audio # <<>> /\ VT(i) <= Back(audio).t
      BY <1>1 DEF LeadParts, Leads
    <3>2. Back(audio).t \in Nat
      BY <3>1, AudioLatest
    <3>3. VT(i) \in Nat /\ VT(i)' = VT(i)
      BY <1>1, <1>2 DEF VT
    <3> QED
      BY <1>1, <3>1, <3>2, <3>3
  <2> QED
    BY <2>1
<1>5. WrittenFirst'
  <2>1. ASSUME NEW i \in 1..Len(audioOut'), NEW j \in QueuedVideo' PROVE AT(i)' <= VT(j)'
    <3>1. i \in 1..Len(audioOut) /\ j \in QueuedVideo /\ i \in 1..Len(audio)
      BY <1>1, <1>2, <2>1 DEF QueuedVideo
    <3>2. AT(i) <= VT(j) /\ AT(i)' = AT(i) /\ VT(j)' = VT(j)
      BY <1>1, <3>1 DEF LeadParts, WrittenFirst, VT
    <3> QED
      BY <3>2
  <2>2. ASSUME NEW i \in 1..Len(videoOut'), NEW j \in QueuedAudio' PROVE VT(i)' <= AT(j)'
    <3>1. i \in 1..Len(videoOut) /\ j \in 1..Len(audio')
      BY <1>1, <1>2, <2>2 DEF QueuedAudio
    <3>2. CASE j \in 1..Len(audio)
      <4>1. j \in QueuedAudio
        BY <1>1, <1>2, <2>2, <3>2 DEF QueuedAudio
      <4> QED
        BY <1>1, <1>4, <3>1, <3>2, <4>1 DEF LeadParts, WrittenFirst
    <3>3. CASE AT(j)' = t
      BY <1>1, <1>4, <3>1, <3>3
    <3> QED
      BY <1>1, <3>1, <3>2, <3>3
  <2> QED
    BY <2>1, <2>2 DEF WrittenFirst
<1>6. Leads'
  <2>1. \A i \in 1..Len(audioOut) : AT(i)' = AT(i)
    BY <1>1, <1>2
  <2> QED
    BY <1>1, <1>4, <2>1 DEF LeadParts, Leads, VideoOver, AudioOver
<1>7. MergeLeads'
  <2>0. /\ QueuedVideo' = QueuedVideo
        /\ \A q \in QueuedVideo : q \in 1..Len(video) /\ q \in Nat /\ VT(q)' = VT(q) /\ VT(q) \in Nat
    BY <1>1, <1>2 DEF QueuedVideo, VT
  <2>1. CASE CompletesAudioCluster(t) /\ CallNewClusterAudioOnly("idle")
    <3>1. VideoGone
      BY <2>1 DEF CompletesAudioCluster
    <3>2. VideoOver /\ vframes = <<>> /\ vframes' = vframes
      <4>1. CASE "video" \notin streams
        <5>1. video = <<>>
          BY <1>1, <4>1 DEF PlaceInv, FullInv, IInv, EndInv
        <5>2. Len(vframes) = 0 /\ vframes \in Seq(Nat)
          BY <1>2, <5>1 DEF FullInv, IInv, TypeOK, FramesKept
        <5> QED
          BY <4>1, <5>2, EmptySeq DEF VideoOver, NotifyAudioFrame
      <4>2. CASE vframes = <<>> /\ eosVideo
        BY <4>2 DEF VideoOver, NotifyAudioFrame
      <4> QED
        BY <3>1, <4>1, <4>2 DEF VideoGone
    <3> QED
      BY <1>1, <2>1, <3>2 DEF MergeLeads, CallNewClusterAudioOnly, VideoOver
  <2>2. CASE CompletesLastCluster(t) /\ CallNewCluster(NoStop, "idle")
    <3>1. vframes # <<>> /\ t >= VT(Back(vframes))
      BY <2>2 DEF CompletesLastCluster
    <3>2. Back(vframes) = Len(video)
      <4>1. Len(vframes) \in Nat /\ Len(vframes) > 0
        BY <3>1, EmptySeq DEF FullInv, IInv, TypeOK
      <4> QED
        BY <4>1 DEF FullInv, IInv, FramesKept, Back
    <3>3. ASSUME NEW q \in QueuedVideo PROVE VT(q)' <= t
      <4>1. VT(q) <= VT(Len(video)) /\ VT(Len(video)) \in Nat
        BY <1>2, <2>0, VideoLatest
      <4> QED
        BY <1>1, <2>0, <3>1, <3>2, <4>1
    <3> QED
      BY <1>1, <2>0, <2>2, <3>3 DEF MergeLeads, CallNewCluster
  <2>3. CASE CompletesCluster(t) /\ CallNewCluster(rframes[2], "idle")
    <3>1. /\ Len(rframes) > 1 /\ t >= VT(rframes[2]) /\ Len(rframes) \in Nat
          /\ rframes[2] \in 1..Len(video)
      <4>1. Len(rframes) > 1 /\ t >= VT(rframes[2]) /\ Len(rframes) \in Nat
        BY <2>3 DEF CompletesCluster, FullInv, IInv, TypeOK
      <4>2. rframes[2] \in Len(videoOut) + 1 .. Len(video)
        BY <4>1 DEF FullInv, PointersValid
      <4> QED
        BY <1>2, <4>1, <4>2
    <3>2. ASSUME NEW q \in QueuedVideo, rframes[2] = NoStop \/ q < rframes[2] PROVE VT(q)' <= t
      <4>1. q <= rframes[2]
        BY <1>2, <2>0, <3>1, <3>2 DEF NoStop
      <4>2. VT(q) <= VT(rframes[2]) /\ VT(rframes[2]) \in Nat
        BY <1>2, <2>0, <3>1, <4>1, VideoLatest
      <4> QED
        BY <1>1, <2>0, <3>1, <4>2
    <3> QED
      BY <1>1, <2>0, <2>3, <3>2 DEF MergeLeads, CallNewCluster
  <2>4. CASE pc' = "idle"
    BY <2>4 DEF MergeLeads
  <2> QED
    BY <1>1, <2>1, <2>2, <2>3, <2>4 DEF NotifyAudioFrame
<1> QED
  BY <1>5, <1>6, <1>7 DEF LeadParts

(* The video frame written is the earliest of those queued on both tracks, *)
(* and audio that goes on has got past it.                                 *)
LEMMA LeadVideoWrite ==
  ASSUME FullInv, Increasing(video), Increasing(audio), LeadParts, WriteVideoFrame
  PROVE  LeadParts'
<1> DEFINE p == Len(videoOut) + 1
<1>1. /\ vframes # <<>> /\ Head(vframes) = p /\ p \in QueuedVideo
      /\ Len(videoOut') = p
      /\ UNCHANGED <<video, audio, audioOut>>
  BY VideoWritten
<1>2. /\ UNCHANGED <<streams, eosVideo, eosAudio, pc, stop>> /\ pc = "merge" /\ p # stop
      /\ aframes = <<>> \/ VT(p) < AT(Head(aframes))
  BY <1>1 DEF WriteVideoFrame, MergeChoice, setup, eosVars
<1>3. /\ Len(video) \in Nat /\ Len(videoOut) \in Nat /\ Len(videoOut) <= Len(video)
      /\ \A i \in 1..Len(video) : VT(i) \in Nat
      /\ Len(audio) \in Nat /\ Len(audioOut) \in Nat /\ Len(audioOut) <= Len(audio)
      /\ \A i \in 1..Len(audio) : AT(i) \in Nat
  BY TimesTyped
<1>4. (\A i : VT(i)' = VT(i)) /\ (\A i : AT(i)' = AT(i))
  BY <1>1 DEF VT, AT
<1>5. ASSUME NEW j \in QueuedAudio PROVE VT(p) <= AT(j)
  <2>1. aframes # <<>>
    BY <1>3 DEF QueuedAudio, FullInv, IInv, FramesKept
  <2>2. Head(aframes) = Len(audioOut) + 1
    BY <2>1, FrontAudio DEF FullInv, IInv
  <2>3. AT(Head(aframes)) <= AT(j)
    BY <1>3, <2>2, AudioLatest DEF QueuedAudio
  <2> QED
    BY <1>1, <1>2, <1>3, <2>1, <2>2, <2>3 DEF QueuedAudio, QueuedVideo
<1>6. WrittenFirst'
  <2>1. ASSUME NEW i \in 1..Len(videoOut'), NEW j \in QueuedAudio' PROVE VT(i)' <= AT(j)'
    <3>1. j \in QueuedAudio /\ (i \in 1..Len(videoOut) \/ i = p)
      BY <1>1, <1>3 DEF QueuedAudio
    <3> QED
      BY <1>4, <1>5, <3>1 DEF LeadParts, WrittenFirst
  <2>2. ASSUME NEW i \in 1..Len(audioOut'), NEW j \in QueuedVideo' PROVE AT(i)' <= VT(j)'
    <3>1. i \in 1..Len(audioOut) /\ j \in QueuedVideo
      BY <1>1, <1>3 DEF QueuedVideo
    <3> QED
      BY <1>4, <3>1 DEF LeadParts, WrittenFirst
  <2> QED
    BY <2>1, <2>2 DEF WrittenFirst
<1>7. Leads'
  <2>1. ASSUME ~AudioOver PROVE audio # <<>> /\ VT(p) <= Back(audio).t
    <3>1. p < stop \/ stop = NoStop
      <4>1. ASSUME stop # NoStop PROVE p < stop
        <5>1. PICK i \in 1..Len(rframes) : rframes[i] = stop
          BY <1>2, <4>1 DEF FullInv, PointersValid
        <5>2. stop \in Len(videoOut) + 1 .. Len(video)
          BY <5>1 DEF FullInv, PointersValid
        <5> QED
          BY <1>2, <1>3, <5>2
      <4> QED
        BY <4>1
    <3> QED
      BY <1>1, <1>2, <2>1, <3>1 DEF LeadParts, MergeLeads
  <2>2. ~AudioOver' => \A i \in 1..Len(videoOut') : audio' # <<>> /\ VT(i)' <= Back(audio').t
    <3>1. \A i \in 1..Len(videoOut') : i \in 1..Len(videoOut) \/ i = p
      BY <1>1, <1>3
    <3> QED
      BY <1>1, <1>2, <1>4, <2>1, <3>1 DEF LeadParts, Leads, AudioOver
  <2>3. ~VideoOver' => \A i \in 1..Len(audioOut') : video' # <<>> /\ AT(i)' <= Back(video').t
    BY <1>1, <1>2, <1>4 DEF LeadParts, Leads, VideoOver
  <2> QED
    BY <2>2, <2>3 DEF Leads
<1>8. MergeLeads'
  <2>1. \A q \in QueuedVideo' : q \in QueuedVideo
    BY <1>1, <1>3 DEF QueuedVideo
  <2> QED
    BY <1>1, <1>2, <1>4, <2>1 DEF LeadParts, MergeLeads, AudioOver
<1> QED
  BY <1>6, <1>7, <1>8 DEF LeadParts

(* The audio frame written is not later than the video that is queued.     *)
LEMMA LeadAudioWrite ==
  ASSUME FullInv, Increasing(video), Increasing(audio), LeadParts, WriteAudioFrame
  PROVE  LeadParts'
<1> DEFINE p == Len(audioOut) + 1
<1>1. /\ aframes # <<>> /\ Head(aframes) = p /\ p \in QueuedAudio
      /\ Len(audioOut') = p
      /\ UNCHANGED <<video, audio, videoOut>>
  BY AudioWritten
<1>2. /\ UNCHANGED <<streams, eosVideo, eosAudio, pc, stop, vframes>> /\ pc \in {"merge", "audioMerge"}
      /\ pc = "merge" => vframes # <<>> /\ ~(VT(Head(vframes)) < AT(p))
  BY <1>1 DEF WriteAudioFrame, MergeChoice, setup, eosVars
<1>3. /\ Len(video) \in Nat /\ Len(videoOut) \in Nat /\ Len(videoOut) <= Len(video)
      /\ \A i \in 1..Len(video) : VT(i) \in Nat
      /\ Len(audio) \in Nat /\ Len(audioOut) \in Nat /\ Len(audioOut) <= Len(audio)
      /\ \A i \in 1..Len(audio) : AT(i) \in Nat
      /\ AT(p) \in Nat
  BY <1>1, TimesTyped DEF QueuedAudio
<1>4. (\A i : VT(i)' = VT(i)) /\ (\A i : AT(i)' = AT(i))
  BY <1>1 DEF VT, AT
<1>5. pc = "audioMerge" => VideoOver /\ QueuedVideo = {}
  <2>1. vframes = <<>> => Len(videoOut) = Len(video)
    BY <1>3 DEF FullInv, IInv, FramesKept
  <2> QED
    BY <1>3, <2>1 DEF LeadParts, MergeLeads, QueuedVideo
<1>6. ASSUME pc = "merge" PROVE \A j \in QueuedVideo : AT(p) <= VT(j) /\ j \in 1..Len(video)
  <2>1. Head(vframes) = Len(videoOut) + 1 /\ Head(vframes) \in 1..Len(video)
    BY <1>2, <1>6, FrontVideo DEF FullInv, IInv
  <2>2. AT(p) <= VT(Len(videoOut) + 1)
    BY <1>2, <1>3, <1>6, <2>1
  <2>3. ASSUME NEW j \in QueuedVideo PROVE AT(p) <= VT(j) /\ j \in 1..Len(video)
    <3>1. j \in 1..Len(video) /\ Len(videoOut) + 1 <= j
      BY <1>3 DEF QueuedVideo
    <3>2. VT(Len(videoOut) + 1) <= VT(j)
      BY <2>1, <3>1, VideoLatest
    <3> QED
      BY <1>3, <2>1, <2>2, <3>1, <3>2
  <2> QED
    BY <2>3
<1>7. WrittenFirst'
  <2>1. ASSUME NEW i \in 1..Len(audioOut'), NEW j \in QueuedVideo' PROVE AT(i)' <= VT(j)'
    <3>1. j \in QueuedVideo /\ (i \in 1..Len(audioOut) \/ i = p)
      BY <1>1, <1>3 DEF QueuedVideo
    <3> QED
      BY <1>2, <1>4, <1>5, <1>6, <3>1 DEF LeadParts, WrittenFirst
  <2>2. ASSUME NEW i \in 1..Len(videoOut'), NEW j \in QueuedAudio' PROVE VT(i)' <= AT(j)'
    <3>1. i \in 1..Len(videoOut) /\ j \in QueuedAudio
      BY <1>1, <1>3 DEF QueuedAudio
    <3> QED
      BY <1>4, <3>1 DEF LeadParts, WrittenFirst
  <2> QED
    BY <2>1, <2>2 DEF WrittenFirst
<1>8. Leads'
  <2>1. ASSUME ~VideoOver PROVE video # <<>> /\ AT(p) <= Back(video).t
    <3>1. pc = "merge"
      BY <1>2, <1>5, <2>1
    <3>2. Head(vframes) = Len(videoOut) + 1 /\ Head(vframes) \in 1..Len(video)
      BY <1>2, <3>1, FrontVideo DEF FullInv, IInv
    <3>3. AT(p) <= VT(Head(vframes))
      BY <1>2, <1>3, <3>1, <3>2
    <3>4. video # <<>> /\ VT(Head(vframes)) <= Back(video).t /\ Back(video).t \in Nat
      BY <3>2, VideoLatest
    <3> QED
      BY <1>3, <3>2, <3>3, <3>4
  <2>2. ~VideoOver' => \A i \in 1..Len(audioOut') : video' # <<>> /\ AT(i)' <= Back(video').t
    <3>1. \A i \in 1..Len(audioOut') : i \in 1..Len(audioOut) \/ i = p
      BY <1>1, <1>3
    <3> QED
      BY <1>1, <1>2, <1>4, <2>1, <3>1 DEF LeadParts, Leads, VideoOver
  <2>3. ~AudioOver' => \A i \in 1..Len(videoOut') : audio' # <<>> /\ VT(i)' <= Back(audio').t
    BY <1>1, <1>2, <1>4 DEF LeadParts, Leads, AudioOver
  <2> QED
    BY <2>2, <2>3 DEF Leads
<1>9. MergeLeads'
  <2>1. QueuedVideo' = QueuedVideo
    BY <1>1 DEF QueuedVideo
  <2> QED
    BY <1>1, <1>2, <1>4, <2>1 DEF LeadParts, MergeLeads, AudioOver, VideoOver
<1> QED
  BY <1>7, <1>8, <1>9 DEF LeadParts

(* Every step keeps the lead, as long as nobody flushes.                   *)
LEMMA LeadStep ==
  ASSUME FullInv, Increasing(video), Increasing(audio), PlaceInv, LeadInv, [Next]_vars
  PROVE  LeadInv'
<1> USE DEF queues, file, sealed, inputs, eosVars, setup, control
<1>0. TypeOK /\ flushes \in Nat
  BY BoundsAssumption DEF FullInv, IInv, TypeOK
<1>1. ASSUME UNCHANGED <<video, audio, videoOut, audioOut>>, flushes' = 0 => flushes = 0,
             VideoOver => VideoOver', AudioOver => AudioOver',
             \/ pc' \notin ClusterPCs
             \/ pc' = "merge" /\ pc = "newCluster" /\ stop' = stop
             \/ pc' = "audioMerge" /\ pc = "newAudioCluster" /\ UNCHANGED vframes
             \/ pc' = "newCluster" /\ (AudioOver \/ flushes > 0)
             \/ pc' = "newAudioCluster" /\ (flushes > 0 \/ (VideoOver /\ vframes = <<>> /\ UNCHANGED vframes))
             \/ UNCHANGED <<pc, stop, vframes>>
      PROVE  LeadInv'
  <2> SUFFICES ASSUME flushes' = 0 PROVE WrittenFirst' /\ Leads' /\ MergeLeads'
    BY DEF LeadInv
  <2>1. WrittenFirst /\ Leads /\ MergeLeads /\ ~(flushes > 0)
    BY <1>0, <1>1 DEF LeadInv
  <2>2. WrittenFirst'
    BY <1>1, <2>1 DEF WrittenFirst, QueuedVideo, QueuedAudio, VT, AT
  <2>3. Leads'
    BY <1>1, <2>1 DEF Leads, VT, AT
  <2>4. QueuedVideo' = QueuedVideo /\ \A q : VT(q)' = VT(q)
    BY <1>1 DEF QueuedVideo, VT
  <2>5. MergeLeads'
    BY <1>1, <2>1, <2>4 DEF MergeLeads, ClusterPCs
  <2> QED
    BY <2>2, <2>3, <2>5
<1>2. CASE Opening
  BY <1>2 DEF Opening, Open, LeadInv, WrittenFirst, Leads, MergeLeads, FullInv, IInv
<1>3. CASE VideoArrives
  <2>1. PICK t \in VideoTimes, key \in BOOLEAN : NotifyVideoFrame(t, key)
    BY <1>3 DEF VideoArrives
  <2>2. flushes' = flushes
    BY <2>1 DEF NotifyVideoFrame
  <2> QED
    BY <2>1, <2>2, LeadVideoArrives DEF LeadInv, LeadParts
<1>4. CASE AudioArrives
  <2>1. PICK t \in AudioTimes : NotifyAudioFrame(t)
    BY <1>4 DEF AudioArrives
  <2>2. flushes' = flushes
    BY <2>1 DEF NotifyAudioFrame
  <2> QED
    BY <2>1, <2>2, LeadAudioArrives DEF LeadInv, LeadParts
<1>5. CASE WriteVideoFrame
  BY <1>5, LeadVideoWrite, VideoWritten DEF LeadInv, LeadParts
<1>6. CASE WriteAudioFrame
  BY <1>6, LeadAudioWrite, AudioWritten DEF LeadInv, LeadParts
<1>7. CASE (\E mode \in LiveModes : SetLiveMuxMode(mode)) \/ ReceiveVorbisHeader
  BY <1>1, <1>7 DEF SetLiveMuxMode, ReceiveVorbisHeader, VideoOver, AudioOver
<1>8. CASE NotifyVideoEOS \/ NotifyAudioEOS
  BY <1>1, <1>8 DEF NotifyVideoEOS, NotifyAudioEOS, AfterEOSFlag, ClusterPCs, VideoOver, AudioOver
<1>9. CASE FlushVideo \/ FlushAudio
  BY <1>0, <1>9 DEF FlushVideo, FlushAudio, LeadInv
<1>10. CASE Close \/ DeleteStreams
  BY <1>1, <1>10 DEF Close, DeleteStreams, ClusterPCs, VideoOver, AudioOver
<1>11. CASE CreateNewCluster \/ CreateNewClusterAudioOnly
  BY <1>1, <1>11 DEF CreateNewCluster, CreateNewClusterAudioOnly, VideoOver, AudioOver
<1>12. CASE EndCluster
  <2>1. pc' \notin ClusterPCs
    BY <1>0, <1>12 DEF EndCluster, TypeOK, ClusterPCs
  <2> QED
    BY <1>1, <1>12, <2>1 DEF EndCluster, VideoOver, AudioOver
<1>13. CASE Drain
  <2>1. VideoOver /\ AudioOver
    BY <1>13 DEF Drain, PlaceInv, Draining
  <2>2. \/ pc' \notin ClusterPCs
        \/ pc' = "newCluster" /\ AudioOver
        \/ pc' = "newAudioCluster" /\ VideoOver /\ vframes = <<>> /\ UNCHANGED vframes
    BY <1>13, <2>1 DEF Drain, CallNewCluster, CallNewClusterAudioOnly, ClusterPCs
  <2>3. /\ UNCHANGED <<video, audio, videoOut, audioOut, flushes>>
        /\ VideoOver' = VideoOver /\ AudioOver' = AudioOver
    BY <1>13 DEF Drain, VideoOver, AudioOver
  <2> QED
    BY <1>1, <2>2, <2>3
<1>14. CASE EOS
  BY <1>1, <1>14 DEF EOS, Resume, ClusterPCs, VideoOver, AudioOver
<1>15. CASE FlushVideoLoop \/ FlushAudioLoop
  <2>1. flushes > 0 /\ flushes' = flushes
    BY <1>15 DEF FlushVideoLoop, FlushAudioLoop, PlaceInv, FlushPCs
  <2> QED
    BY <1>0, <2>1 DEF LeadInv
<1>16. CASE Final \/ CloseFinal
  BY <1>1, <1>16 DEF Final, CloseFinal, FinalSegment, Resume, ClusterPCs, VideoOver, AudioOver
<1>17. CASE UNCHANGED vars
  BY <1>1, <1>17 DEF vars, VideoOver, AudioOver
<1> QED
  BY <1>2, <1>3, <1>4, <1>5, <1>6, <1>7, <1>8, <1>9, <1>10, <1>11, <1>12, <1>13, <1>14, <1>15,
     <1>16, <1>17 DEF Next, EntryPoint, InternalStep, Opening, VideoArrives, AudioArrives

(* A block is written behind every block of the file.                      *)
LEMMA PositionStep ==
  ASSUME FullInv, FullInv', PositionInv, [Next]_vars
  PROVE  PositionInv'
<1> USE DEF queues, file, sealed, inputs, eosVars, setup, control
<1>a. TypeOK /\ ClusterInv /\ EndInv
  BY DEF FullInv, IInv
<1>0. TypeOK /\ ClusterInv /\ (Writing => open) /\ cFrames \in Nat /\ Len(clusters) \in Nat
  <2>1. cFrames \in Nat /\ Len(clusters) \in Nat
    BY <1>a DEF TypeOK
  <2>2. Writing => open
    BY <1>a DEF EndInv
  <2> QED
    BY <1>a, <2>1, <2>2
<1>1. \A b \in FileBlocks : b.c \in Nat /\ b.n \in Nat
  BY BlockSource
<1>2. CASE Opening
  <2>1. videoOut' = <<>> /\ audioOut' = <<>>
    BY <1>2 DEF Opening, Open
  <2>2. FileBlocks' = {}
    BY <2>1 DEF FileBlocks
  <2> QED
    BY <2>2 DEF PositionInv
<1>3. ASSUME NEW t \in Nat, FileBlocks' = FileBlocks \cup {NewBlock(t)}, cFrames' = cFrames + 1,
             Len(clusters') = Len(clusters), UNCHANGED <<pc, open>>, pc \in {"merge", "audioMerge"}
      PROVE  PositionInv'
  BY <1>0, <1>1, <1>3 DEF PositionInv, NewBlock
<1>4. CASE WriteVideoFrame
  <2>1. FileBlocks' = FileBlocks \cup {NewBlock(VT(Len(videoOut) + 1))}
    BY <1>4, VideoWritten
  <2>2. VT(Len(videoOut) + 1) \in Nat
    <3>1. Len(videoOut) + 1 \in 1..Len(video)
      BY <1>4, VideoWritten, TimesTyped DEF QueuedVideo
    <3> QED
      BY <3>1, TimesTyped
  <2>3. Len(clusters') = Len(clusters)
    <3>1. clusters \in Seq(ClusterType)
      BY <1>0 DEF TypeOK, ClusterType
    <3>2. clusters' = clusters \/ \E d : clusters' = [clusters EXCEPT ![Len(clusters)] = d]
      BY <1>4 DEF WriteVideoFrame
    <3> QED
      BY <3>1, <3>2, ExceptSeq
  <2>4. cFrames' = cFrames + 1 /\ UNCHANGED <<pc, open>> /\ pc = "merge"
    BY <1>4 DEF WriteVideoFrame
  <2> QED
    BY <1>3, <2>1, <2>2, <2>3, <2>4
<1>5. CASE WriteAudioFrame
  <2>1. FileBlocks' = FileBlocks \cup {NewBlock(AT(Len(audioOut) + 1))}
    BY <1>5, AudioWritten
  <2>2. AT(Len(audioOut) + 1) \in Nat
    <3>1. Len(audioOut) + 1 \in 1..Len(audio)
      BY <1>5, AudioWritten, TimesTyped DEF QueuedAudio
    <3> QED
      BY <3>1, TimesTyped
  <2>3. /\ cFrames' = cFrames + 1 /\ UNCHANGED <<pc, open, clusters>> /\ pc \in {"merge", "audioMerge"}
    BY <1>5 DEF WriteAudioFrame
  <2> QED
    BY <1>3, <2>1, <2>2, <2>3
<1>6. CASE CreateNewCluster \/ CreateNewClusterAudioOnly
  <2>1. FileBlocks' = FileBlocks
    BY <1>6 DEF CreateNewCluster, CreateNewClusterAudioOnly, FileBlocks, VT, AT
  <2>2. open /\ open' = open
    BY <1>0, <1>6 DEF CreateNewCluster, CreateNewClusterAudioOnly, Writing, ClusterPCs
  <2>3. \E c : clusters' = Append(clusters, c)
    BY <1>6 DEF CreateNewCluster, CreateNewClusterAudioOnly
  <2>4. Len(clusters') = Len(clusters) + 1
    BY <1>0, <2>3 DEF TypeOK
  <2>5. \A b \in FileBlocks : b.c <= Len(clusters)
    BY <2>2 DEF PositionInv
  <2> QED
    BY <1>0, <1>1, <2>1, <2>4, <2>5 DEF PositionInv
<1>7. ASSUME FileBlocks' = FileBlocks, open' => open /\ UNCHANGED clusters,
             pc' \notin {"merge", "audioMerge"} \/ UNCHANGED <<pc, clusters, cFrames>>
      PROVE  PositionInv'
  BY <1>7 DEF PositionInv
<1>8. CASE VideoArrives
  <2>1. PICK t \in VideoTimes, key \in BOOLEAN : NotifyVideoFrame(t, key)
    BY <1>8 DEF VideoArrives
  <2>2. UNCHANGED <<open, clusters>> /\ pc' \notin {"merge", "audioMerge"}
        /\ ~Opening /\ ~WriteVideoFrame /\ ~WriteAudioFrame
    BY <2>1 DEF NotifyVideoFrame, CallNewCluster, Opening, Open, WriteVideoFrame, WriteAudioFrame
  <2> QED
    BY <1>7, <2>2, OtherStepsKeepBlocks
<1>9. CASE AudioArrives
  <2>1. PICK t \in AudioTimes : NotifyAudioFrame(t)
    BY <1>9 DEF AudioArrives
  <2>2. UNCHANGED <<open, clusters>> /\ pc' \notin {"merge", "audioMerge"}
        /\ ~Opening /\ ~WriteVideoFrame /\ ~WriteAudioFrame
    BY <2>1 DEF NotifyAudioFrame, CallNewCluster, CallNewClusterAudioOnly, Opening, Open,
       WriteVideoFrame, WriteAudioFrame
  <2> QED
    BY <1>7, <2>2, OtherStepsKeepBlocks
<1>10. ASSUME UNCHANGED <<video, audio, videoOut, audioOut>>, open' => open /\ UNCHANGED clusters,
              pc' \notin {"merge", "audioMerge"} \/ UNCHANGED <<pc, clusters, cFrames>>
       PROVE  PositionInv'
  <2>1. FileBlocks' = FileBlocks
    BY <1>10 DEF FileBlocks, VT, AT
  <2> QED
    BY <1>7, <1>10, <2>1
<1>11. CASE (\E mode \in LiveModes : SetLiveMuxMode(mode)) \/ ReceiveVorbisHeader
  BY <1>10, <1>11 DEF SetLiveMuxMode, ReceiveVorbisHeader
<1>12. CASE NotifyVideoEOS \/ NotifyAudioEOS \/ FlushVideo \/ FlushAudio
  BY <1>10, <1>12 DEF NotifyVideoEOS, NotifyAudioEOS, AfterEOSFlag, FlushVideo, FlushAudio
<1>13. CASE Close \/ DeleteStreams
  BY <1>10, <1>13 DEF Close, DeleteStreams
<1>14. CASE EndCluster
  BY <1>0, <1>10, <1>14 DEF EndCluster, TypeOK
<1>15. CASE Drain \/ EOS \/ FlushVideoLoop \/ FlushAudioLoop
  BY <1>10, <1>15 DEF Drain, EOS, FlushVideoLoop, FlushAudioLoop, CallNewCluster,
     CallNewClusterAudioOnly, Resume
<1>16. CASE Final \/ CloseFinal
  BY <1>10, <1>16 DEF Final, CloseFinal, FinalSegment, Resume
<1>17. CASE UNCHANGED vars
  BY <1>10, <1>17 DEF vars
<1> QED
  BY <1>2, <1>4, <1>5, <1>6, <1>8, <1>9, <1>11, <1>12, <1>13, <1>14, <1>15, <1>16, <1>17
     DEF Next, EntryPoint, InternalStep, Opening, VideoArrives, AudioArrives

(* A block that is written last and is not earlier keeps the file ordered. *)
LEMMA OrderAppend ==
  ASSUME FullInv, FileInOrder, PositionInv, pc \in {"merge", "audioMerge"}, NEW t \in Nat,
         FileBlocks' = FileBlocks \cup {NewBlock(t)}, flushes' = flushes,
         flushes = 0 => \A b \in FileBlocks : b.t <= t
  PROVE  FileInOrder'
<1> DEFINE nb == NewBlock(t)
<1>1. /\ cFrames \in Nat /\ Len(clusters) \in Nat
      /\ nb.c = Len(clusters) /\ nb.n = cFrames + 1 /\ nb.t = t
  BY DEF FullInv, IInv, TypeOK, NewBlock
<1>2. \A b \in FileBlocks : b.c \in Nat /\ b.n \in Nat /\ b.t \in Nat
  BY BlockSource
<1>3. open
  BY DEF FullInv, IInv, EndInv, Writing, ClusterPCs
<1>4. \A b \in FileBlocks : b.c <= Len(clusters) /\ (b.c = Len(clusters) => b.n <= cFrames)
  BY <1>3 DEF PositionInv
<1>5. ASSUME flushes = 0, NEW a \in FileBlocks', NEW b \in FileBlocks',
             a.c < b.c \/ (a.c = b.c /\ a.n < b.n)
      PROVE  a.t <= b.t
  <2>1. CASE a \in FileBlocks /\ b \in FileBlocks
    BY <1>5, <2>1 DEF FileInOrder
  <2>2. CASE b = nb
    BY <1>1, <1>5, <2>2
  <2>3. CASE a = nb /\ b \in FileBlocks
    BY <1>1, <1>2, <1>4, <1>5, <2>3
  <2> QED
    BY <2>1, <2>2, <2>3
<1> QED
  BY <1>5 DEF FileInOrder

(* Every step keeps the file ordered.                                      *)
LEMMA OrderStep ==
  ASSUME OrderInv, [Next]_vars
  PROVE  FileInOrder'
<1>0. /\ FullInv /\ FileInOrder /\ PositionInv /\ LeadInv
      /\ Increasing(video) /\ Increasing(audio) /\ flushes \in Nat
  BY BoundsAssumption DEF OrderInv, FullInv, IInv, TypeOK
<1>1. CASE Opening
  <2>1. FileBlocks' = {}
    BY <1>1 DEF Opening, Open, FileBlocks
  <2> QED
    BY <2>1 DEF FileInOrder
<1>2. CASE WriteVideoFrame
  <2> DEFINE p == Len(videoOut) + 1
  <2>1. /\ p \in QueuedVideo /\ pc = "merge" /\ flushes' = flushes
        /\ FileBlocks' = FileBlocks \cup {NewBlock(VT(p))}
    BY <1>0, <1>2, VideoWritten DEF WriteVideoFrame
  <2>2. /\ p \in 1..Len(video) /\ VT(p) \in Nat
        /\ \A i \in 1..Len(videoOut) : i \in 1..Len(video) /\ i <= p
    BY <1>0, <2>1, TimesTyped DEF QueuedVideo
  <2>3. ASSUME flushes = 0, NEW b \in FileBlocks PROVE b.t <= VT(p)
    <3>1. CASE \E i \in 1..Len(videoOut) : b.t = VT(i)
      BY <1>0, <2>2, <3>1, VideoLatest
    <3>2. CASE \E i \in 1..Len(audioOut) : b.t = AT(i)
      BY <1>0, <2>1, <2>3, <3>2 DEF LeadInv, WrittenFirst
    <3> QED
      BY <1>0, <3>1, <3>2, BlockSource
  <2> QED
    BY <1>0, <2>1, <2>2, <2>3, OrderAppend
<1>3. CASE WriteAudioFrame
  <2> DEFINE p == Len(audioOut) + 1
  <2>1. /\ p \in QueuedAudio /\ pc \in {"merge", "audioMerge"} /\ flushes' = flushes
        /\ FileBlocks' = FileBlocks \cup {NewBlock(AT(p))}
    BY <1>0, <1>3, AudioWritten DEF WriteAudioFrame
  <2>2. /\ p \in 1..Len(audio) /\ AT(p) \in Nat
        /\ \A i \in 1..Len(audioOut) : i \in 1..Len(audio) /\ i <= p
    BY <1>0, <2>1, TimesTyped DEF QueuedAudio
  <2>3. ASSUME flushes = 0, NEW b \in FileBlocks PROVE b.t <= AT(p)
    <3>1. CASE \E i \in 1..Len(audioOut) : b.t = AT(i)
      BY <1>0, <2>2, <3>1, AudioLatest
    <3>2. CASE \E i \in 1..Len(videoOut) : b.t = VT(i)
      BY <1>0, <2>1, <2>3, <3>2 DEF LeadInv, WrittenFirst
    <3> QED
      BY <1>0, <3>1, <3>2, BlockSource
  <2> QED
    BY <1>0, <2>1, <2>2, <2>3, OrderAppend
<1>4. CASE ~Opening /\ ~WriteVideoFrame /\ ~WriteAudioFrame
  <2>1. FileBlocks' = FileBlocks
    BY <1>0, <1>4, OtherStepsKeepBlocks
  <2>2. flushes' = flushes \/ flushes' = flushes + 1
    BY <1>4 DEF Next, EntryPoint, InternalStep, Opening, SetLiveMuxMode, NotifyVideoFrame,
       ReceiveVorbisHeader, NotifyAudioFrame, NotifyVideoEOS, NotifyAudioEOS, FlushVideo, FlushAudio,
       Close, CreateNewCluster, CreateNewClusterAudioOnly, EndCluster, Drain, EOS, FlushVideoLoop,
       FlushAudioLoop, Final, CloseFinal, FinalSegment, DeleteStreams, inputs, vars
  <2> QED
    BY <1>0, <2>1, <2>2 DEF FileInOrder
<1> QED
  BY <1>1, <1>2, <1>3, <1>4

(* The file of an initial state is empty.                                  *)
LEMMA OrderInit == Init => OrderInv
<1> SUFFICES ASSUME Init PROVE OrderInv
  OBVIOUS
<1>1. FullInv
  BY FullInit
<1>2. videoOut = <<>> /\ audioOut = <<>> /\ video = <<>> /\ audio = <<>> /\ pc = "idle" /\ ~open
  BY DEF Init
<1>3. FileBlocks = {}
  BY <1>2 DEF FileBlocks
<1>4. PositionInv /\ FileInOrder
  BY <1>3 DEF PositionInv, FileInOrder
<1>5. Increasing(video) /\ Increasing(audio)
  BY <1>2 DEF Increasing
<1>6. PlaceInv
  BY <1>2 DEF Init, PlaceInv, Draining, FlushPCs, ClusterPCs
<1>7. LeadInv
  BY <1>2 DEF LeadInv, WrittenFirst, Leads, MergeLeads
<1> QED
  BY <1>1, <1>4, <1>5, <1>6, <1>7 DEF OrderInv

(* The order invariant holds in every reachable state.                     *)
THEOREM OrderInvariance == Spec => []OrderInv
<1>1. OrderInv /\ FullInv' /\ [Next]_vars => OrderInv'
  BY IncreasingStep, PlaceStep, LeadStep, PositionStep, OrderStep DEF OrderInv
<1> QED
  BY <1>1, OrderInit, FullInvariance, PTL DEF Spec

(* As long as nobody flushes, the blocks of the file are in the order of   *)
(* their times over both tracks, across every cluster cut and through the  *)
(* draining at the end of the streams.                                     *)
THEOREM FileIsOrdered == Spec => []FileInOrder
<1>1. OrderInv => FileInOrder
  BY DEF OrderInv
<1> QED
  BY <1>1, OrderInvariance, PTL

-----------------------------------------------------------------------------
(***************************************************************************)
(* The index.                                                              *)
(***************************************************************************)
CueAt(cs, i, k) == [t |-> cs[i].keys[k].t, cluster |-> i, block |-> cs[i].keys[k].block]

Entries(cs) == UNION {{CueAt(cs, i, k) : k \in DOMAIN cs[i].keys} : i \in DOMAIN cs}

(* An entry is one of a cluster's.                                         *)
LEMMA EntriesOf ==
  ASSUME NEW cs
  PROVE  \A e : e \in Entries(cs) <=>
           \E i \in DOMAIN cs : \E k \in DOMAIN cs[i].keys : e = CueAt(cs, i, k)
<1> DEFINE C(i) == {CueAt(cs, i, k) : k \in DOMAIN cs[i].keys}
<1>1. Entries(cs) = UNION {C(i) : i \in DOMAIN cs}
  BY DEF Entries
<1>2. \A e : e \in UNION {C(i) : i \in DOMAIN cs} <=> \E i \in DOMAIN cs : e \in C(i)
  OBVIOUS
<1>3. \A e, i : e \in C(i) <=> \E k \in DOMAIN cs[i].keys : e = CueAt(cs, i, k)
  OBVIOUS
<1> QED
  BY <1>1, <1>2, <1>3

(* The cue points are the entries of the clusters, after a step too.       *)
LEMMA CuePointsAreEntries == CuePoints = Entries(clusters) /\ CuePoints' = Entries(clusters')
  BY DEF CuePoints, Entries, CueAt

LEMMA CuePointIsEntry ==
  /\ \A e : e \in CuePoints <=>
       \E i \in DOMAIN clusters : \E k \in DOMAIN clusters[i].keys : e = CueAt(clusters, i, k)
  /\ \A e : e \in CuePoints' <=>
       \E i \in DOMAIN clusters' : \E k \in DOMAIN clusters'[i].keys : e = CueAt(clusters', i, k)
  BY CuePointsAreEntries, EntriesOf

(* A new cluster has no entries.                                           *)
LEMMA CuesOfNewCluster ==
  ASSUME TypeOK, NEW tc \in Nat, clusters' = Append(clusters, [tc |-> tc, keys |-> <<>>])
  PROVE  CuePoints' = CuePoints
<1> DEFINE n == Len(clusters)
<1>1. clusters \in Seq(ClusterType) /\ [tc |-> tc, keys |-> <<>>] \in ClusterType
  BY DEF TypeOK, ClusterType
<1>2. /\ n \in Nat /\ DOMAIN clusters = 1..n /\ DOMAIN clusters' = 1..n + 1
      /\ \A i \in 1..n : clusters'[i] = clusters[i]
      /\ clusters'[n + 1] = [tc |-> tc, keys |-> <<>>]
  BY <1>1, AppendProperties
<1>3. DOMAIN clusters'[n + 1].keys = {}
  BY <1>2
<1>4. \A i \in 1..n : i \in 1..n + 1
  BY <1>2
<1>5. \A i \in 1..n + 1 : i \in 1..n \/ i = n + 1
  BY <1>2
<1>6. ASSUME NEW e PROVE e \in CuePoints' <=> e \in CuePoints
  <2>1. e \in CuePoints' <=>
          \E i \in 1..n + 1 : \E k \in DOMAIN clusters'[i].keys : e = CueAt(clusters', i, k)
    BY <1>2, CuePointIsEntry
  <2>2. e \in CuePoints <=> \E i \in 1..n : \E k \in DOMAIN clusters[i].keys : e = CueAt(clusters, i, k)
    BY <1>2, CuePointIsEntry
  <2>3. \A i \in 1..n : \A k : CueAt(clusters', i, k) = CueAt(clusters, i, k)
    BY <1>2 DEF CueAt
  <2> QED
    BY <1>2, <1>3, <1>4, <1>5, <2>1, <2>2, <2>3
<1> QED
  BY <1>6

(* ds is cs with the entry k added behind the m of its last cluster, n.    *)
OneMore(cs, ds, n, m, k) ==
  /\ n \in Nat \ {0} /\ DOMAIN cs = 1..n /\ DOMAIN ds = 1..n
  /\ \A i \in 1..n : i # n => ds[i] = cs[i]
  /\ m \in Nat /\ DOMAIN cs[n].keys = 1..m /\ DOMAIN ds[n].keys = 1..m + 1
  /\ \A i \in 1..m : ds[n].keys[i] = cs[n].keys[i]
  /\ ds[n].keys[m + 1] = k

LEMMA OneEntryMore ==
  ASSUME NEW cs, NEW ds, NEW n, NEW m, NEW k, OneMore(cs, ds, n, m, k)
  PROVE  Entries(ds) = Entries(cs) \cup {[t |-> k.t, cluster |-> n, block |-> k.block]}
<1> DEFINE new == [t |-> k.t, cluster |-> n, block |-> k.block]
<1> USE DEF OneMore
<1>1. /\ \A i \in 1..m : i \in 1..m + 1
      /\ \A i \in 1..m + 1 : i \in 1..m \/ i = m + 1
      /\ m + 1 \in 1..m + 1 /\ n \in 1..n
  OBVIOUS
<1>2. \A i \in 1..n : \A j : i # n => CueAt(ds, i, j) = CueAt(cs, i, j)
  BY DEF CueAt
<1>3. \A j \in 1..m : CueAt(ds, n, j) = CueAt(cs, n, j)
  BY DEF CueAt
<1>4. CueAt(ds, n, m + 1) = new
  BY DEF CueAt
<1>5. ASSUME NEW e, e \in Entries(ds) PROVE e \in Entries(cs) \/ e = new
  <2>1. PICK i \in 1..n : \E j \in DOMAIN ds[i].keys : e = CueAt(ds, i, j)
    BY <1>5, EntriesOf
  <2>2. PICK j \in DOMAIN ds[i].keys : e = CueAt(ds, i, j)
    BY <2>1
  <2>3. CASE i # n
    BY <1>2, <2>2, <2>3, EntriesOf
  <2>4. CASE i = n /\ j \in 1..m
    BY <1>1, <1>3, <2>2, <2>4, EntriesOf
  <2>5. CASE i = n /\ j = m + 1
    BY <1>4, <2>2, <2>5
  <2> QED
    BY <1>1, <2>2, <2>3, <2>4, <2>5
<1>6. ASSUME NEW e, e \in Entries(cs) PROVE e \in Entries(ds)
  <2>1. PICK i \in 1..n : \E j \in DOMAIN cs[i].keys : e = CueAt(cs, i, j)
    BY <1>6, EntriesOf
  <2>2. PICK j \in DOMAIN cs[i].keys : e = CueAt(cs, i, j)
    BY <2>1
  <2>3. CASE i # n
    BY <1>2, <2>2, <2>3, EntriesOf
  <2>4. CASE i = n
    BY <1>1, <1>3, <2>2, <2>4, EntriesOf
  <2> QED
    BY <2>3, <2>4
<1>7. new \in Entries(ds)
  BY <1>1, <1>4, EntriesOf
<1> QED
  BY <1>5, <1>6, <1>7

(* A key frame's entry is the only cue point that is added with it.        *)
LEMMA CuesOfKeyFrame ==
  ASSUME TypeOK, clusters # <<>>, NEW t \in Nat,
         clusters' = [clusters EXCEPT ![Len(clusters)].keys = Append(@, KeyframeEntry(t))]
  PROVE  CuePoints' = CuePoints \cup {[t |-> t, cluster |-> Len(clusters), block |-> cFrames + 1]}
<1> DEFINE n == Len(clusters)
           ks == clusters[n].keys
           ds == [clusters EXCEPT ![n].keys = Append(@, KeyframeEntry(t))]
<1>1. clusters \in Seq(ClusterType) /\ n \in 1..n /\ clusters[n] \in ClusterType
  BY LastCluster DEF TypeOK, ClusterType, Back
<1>2. KeyframeEntry(t) = [t |-> t, block |-> cFrames + 1] /\ KeyframeEntry(t) \in [t : Nat, block : Nat]
  <2>1. cFrames \in Nat
    BY DEF TypeOK
  <2> QED
    BY <2>1 DEF KeyframeEntry
<1>3. /\ n \in Nat \ {0} /\ DOMAIN clusters = 1..n /\ DOMAIN ds = 1..n
      /\ \A i \in 1..n : i # n => ds[i] = clusters[i]
      /\ ds[n].keys = Append(ks, KeyframeEntry(t))
  BY <1>1 DEF ClusterType
<1>4. ks \in Seq([t : Nat, block : Nat])
  BY <1>1 DEF ClusterType
<1>5. /\ Len(ks) \in Nat /\ DOMAIN ks = 1..Len(ks) /\ DOMAIN ds[n].keys = 1..Len(ks) + 1
      /\ \A i \in 1..Len(ks) : ds[n].keys[i] = ks[i]
      /\ ds[n].keys[Len(ks) + 1] = KeyframeEntry(t)
  BY <1>2, <1>3, <1>4, AppendProperties
<1> HIDE DEF ds
<1>6. Entries(ds) = Entries(clusters) \cup {[t |-> t, cluster |-> n, block |-> cFrames + 1]}
  <2>1. OneMore(clusters, ds, n, Len(ks), KeyframeEntry(t))
    BY <1>3, <1>5 DEF OneMore
  <2>2. Entries(ds) = Entries(clusters) \cup
          {[t |-> KeyframeEntry(t).t, cluster |-> n, block |-> KeyframeEntry(t).block]}
    BY <2>1, OneEntryMore
  <2> QED
    BY <1>2, <2>2
<1>7. CuePoints = Entries(clusters) /\ CuePoints' = Entries(ds)
  <2>1. clusters' = ds
    BY DEF ds
  <2> QED
    BY <2>1, CuePointsAreEntries
<1> QED
  BY <1>6, <1>7

(* The key frames of the file stay the same while no video frame is        *)
(* written and the frames in the file stay what they are.                  *)
LEMMA KeyFramesStay ==
  ASSUME FullInv, UNCHANGED videoOut, \A i \in 1..Len(videoOut) : video'[i] = video[i]
  PROVE  KeyFrames' = KeyFrames
<1>1. \A i \in 1..Len(videoOut) : videoOut[i].frame = i
  BY BlockOfFrame
<1>2. \A i \in 1..Len(videoOut) : KeyCue(i)' = KeyCue(i)
  BY <1>1 DEF KeyCue, VT
<1>3. {j \in 1..Len(videoOut) : video'[videoOut[j].frame].key} =
      {j \in 1..Len(videoOut) : video[videoOut[j].frame].key}
  BY <1>1
<1>4. KeyFrames' = {KeyCue(i)' : i \in {j \in 1..Len(videoOut) : video'[videoOut[j].frame].key}}
  BY DEF KeyFrames, KeyCue
<1> QED
  BY <1>2, <1>3, <1>4 DEF KeyFrames

(* A key frame that is written is one key frame more.                      *)
LEMMA KeyFramesWritten ==
  ASSUME FullInv, WriteVideoFrame
  PROVE  LET p == Len(videoOut) + 1 IN
         KeyFrames' = IF video[p].key
                      THEN KeyFrames \cup {[t |-> VT(p), cluster |-> Len(clusters),
                                            block |-> cFrames + 1]}
                      ELSE KeyFrames
<1> DEFINE p == Len(videoOut) + 1
           new == [t |-> VT(p), cluster |-> Len(clusters), block |-> cFrames + 1]
           K == {j \in 1..Len(videoOut) : video[videoOut[j].frame].key}
<1>1. /\ Len(videoOut') = p /\ video' = video
      /\ \A i \in 1..Len(videoOut) : videoOut'[i] = videoOut[i]
      /\ videoOut'[p] = Block(p, VT(p))
  BY VideoWritten
<1>2. 1..p = 1..Len(videoOut) \cup {p} /\ p \notin 1..Len(videoOut)
  BY TimesTyped
<1>3. \A i \in 1..Len(videoOut) : KeyCue(i)' = KeyCue(i)
  BY <1>1 DEF KeyCue, VT
<1>4. videoOut'[p].frame = p /\ \A i : i = p => KeyCue(i)' = new
  BY <1>1 DEF KeyCue, VT, Block
<1>5. KeyFrames' = {KeyCue(i)' : i \in {j \in 1..p : video[videoOut'[j].frame].key}}
  BY <1>1 DEF KeyFrames, KeyCue
<1>6. {j \in 1..p : video[videoOut'[j].frame].key} = IF video[p].key THEN K \cup {p} ELSE K
  BY <1>1, <1>2, <1>4
<1>7. CASE video[p].key
  <2>1. KeyFrames' = {KeyCue(i)' : i \in K \cup {p}}
    BY <1>5, <1>6, <1>7
  <2>2. KeyFrames' = {KeyCue(i) : i \in K} \cup {new}
    BY <1>3, <1>4, <2>1
  <2> QED
    BY <1>7, <2>2 DEF KeyFrames
<1>8. CASE ~video[p].key
  <2>1. KeyFrames' = {KeyCue(i)' : i \in K}
    BY <1>5, <1>6, <1>8
  <2>2. KeyFrames' = {KeyCue(i) : i \in K}
    BY <1>3, <2>1
  <2> QED
    BY <1>8, <2>2 DEF KeyFrames
<1> QED
  BY <1>7, <1>8

(* A block that is written may be the latest.                              *)
LEMMA LatestWritten ==
  ASSUME FullInv, IsLatest(maxTimecode), NEW t \in Nat, maxTimecode' = Latest(t),
         FileBlocks' = FileBlocks \cup {NewBlock(t)}
  PROVE  IsLatest(maxTimecode)'
<1> DEFINE m == Latest(t)
<1>1. maxTimecode \in Nat /\ \A b \in FileBlocks : b.t \in Nat
  BY BlockSource DEF FullInv, IInv, TypeOK
<1>2. NewBlock(t).t = t /\ NewBlock(t) \in FileBlocks'
  BY DEF NewBlock
<1>3. m \in Nat /\ maxTimecode <= m /\ t <= m /\ (m = t \/ (m = maxTimecode /\ t <= m))
  BY <1>1 DEF Latest
<1>4. \A b \in FileBlocks' : b.t <= m
  BY <1>1, <1>2, <1>3 DEF IsLatest
<1>5. \E b \in FileBlocks' : b.t = m
  <2>1. CASE m = t
    BY <1>2, <2>1
  <2>2. CASE m = maxTimecode /\ FileBlocks # {}
    BY <2>2 DEF IsLatest
  <2>3. CASE m = maxTimecode /\ FileBlocks = {}
    BY <1>2, <1>3, <2>3 DEF IsLatest
  <2> QED
    BY <1>3, <2>1, <2>2, <2>3
<1> QED
  BY <1>2, <1>4, <1>5 DEF IsLatest

(* Every step keeps the index right, and finalising makes it so.           *)
LEMMA IndexStep ==
  ASSUME FullInv, FullInv', PlaceInv, IndexInv, [Next]_vars
  PROVE  IndexInv'
<1> USE DEF queues, file, sealed, inputs, eosVars, setup, control
<1>0. TypeOK /\ ClusterInv /\ (Writing => open) /\ (open => finals = 0) /\ (open' => finals' = 0)
      /\ (streams = {} => ~open)
  <2>1. TypeOK /\ ClusterInv /\ EndInv /\ SealInv /\ SealInv'
    BY DEF FullInv, IInv
  <2> QED
    BY <2>1 DEF EndInv, SealInv
<1>1. ASSUME open, open', cues' = cues, CuePoints' = KeyFrames', IsLatest(maxTimecode)'
      PROVE  IndexInv'
  BY <1>0, <1>1 DEF IndexInv, IndexMatchesFile
<1>2. CASE Opening
  <2>1. PICK ss \in StreamSets, hasFile \in BOOLEAN, isOgg \in OggModes : Open(ss, hasFile, isOgg)
    BY <1>2 DEF Opening
  <2>2. /\ videoOut' = <<>> /\ audioOut' = <<>> /\ cues' = {} /\ finals' = 0 /\ maxTimecode' = 0
        /\ clusters' = <<>>
    BY <1>0, <2>1 DEF Open, IndexInv
  <2>3. FileBlocks' = {} /\ KeyFrames' = {} /\ CuePoints' = {}
    BY <2>2 DEF FileBlocks, KeyFrames, CuePoints
  <2> QED
    BY <2>2, <2>3 DEF IndexInv, IsLatest, IndexMatchesFile
<1>3. CASE VideoArrives
  <2>1. PICK t \in VideoTimes, key \in BOOLEAN : NotifyVideoFrame(t, key)
    BY <1>3 DEF VideoArrives
  <2>2. /\ open /\ open' /\ UNCHANGED <<cues, clusters, maxTimecode>>
        /\ ~Opening /\ ~WriteVideoFrame /\ ~WriteAudioFrame
    BY <2>1 DEF NotifyVideoFrame, CallNewCluster, Opening, Open, WriteVideoFrame, WriteAudioFrame
  <2>3. FileBlocks' = FileBlocks /\ videoOut' = videoOut
    BY <2>2, OtherStepsKeepBlocks
  <2>4. KeyFrames' = KeyFrames
    <3>1. \A i \in 1..Len(video) : video'[i] = video[i]
      BY <2>1, VideoAppended
    <3>2. \A i \in 1..Len(videoOut) : i \in 1..Len(video)
      BY TimesTyped
    <3> QED
      BY <2>3, <3>1, <3>2, KeyFramesStay
  <2>5. CuePoints' = CuePoints
    BY <2>2 DEF CuePoints
  <2> QED
    BY <1>1, <2>2, <2>3, <2>4, <2>5 DEF IndexInv, IsLatest
<1>4. CASE AudioArrives
  <2>1. PICK t \in AudioTimes : NotifyAudioFrame(t)
    BY <1>4 DEF AudioArrives
  <2>2. /\ open /\ open' /\ UNCHANGED <<cues, clusters, maxTimecode, video>>
        /\ ~Opening /\ ~WriteVideoFrame /\ ~WriteAudioFrame
    BY <2>1 DEF NotifyAudioFrame, CallNewCluster, CallNewClusterAudioOnly, Opening, Open,
       WriteVideoFrame, WriteAudioFrame
  <2>3. FileBlocks' = FileBlocks /\ videoOut' = videoOut
    BY <2>2, OtherStepsKeepBlocks
  <2>4. KeyFrames' = KeyFrames
    BY <2>2, <2>3, KeyFramesStay
  <2>5. CuePoints' = CuePoints
    BY <2>2 DEF CuePoints
  <2> QED
    BY <1>1, <2>2, <2>3, <2>4, <2>5 DEF IndexInv, IsLatest
<1>5. CASE WriteVideoFrame
  <2> DEFINE p == Len(videoOut) + 1
  <2>1. /\ Head(vframes) = p /\ p \in 1..Len(video) /\ VT(p) \in Nat
        /\ FileBlocks' = FileBlocks \cup {NewBlock(VT(p))}
    <3>1. /\ Head(vframes) = p /\ p \in QueuedVideo
          /\ FileBlocks' = FileBlocks \cup {NewBlock(VT(p))}
      BY <1>5, VideoWritten
    <3>2. p \in 1..Len(video)
      BY <3>1, TimesTyped DEF QueuedVideo
    <3> QED
      BY <3>1, <3>2, TimesTyped
  <2>2. /\ open /\ open' /\ cues' = cues /\ clusters # <<>> /\ maxTimecode' = Latest(VT(p))
        /\ clusters' = IF video[p].key
                       THEN [clusters EXCEPT ![Len(clusters)].keys =
                               Append(@, KeyframeEntry(VT(p)))]
                       ELSE clusters
    BY <1>0, <1>5, <2>1 DEF WriteVideoFrame, Writing, ClusterPCs, ClusterInv
  <2>3. IsLatest(maxTimecode)'
    BY <2>1, <2>2, LatestWritten DEF IndexInv
  <2>4. CASE video[p].key
    <3>1. CuePoints' = CuePoints \cup {[t |-> VT(p), cluster |-> Len(clusters), block |-> cFrames + 1]}
      BY <1>0, <2>1, <2>2, <2>4, CuesOfKeyFrame
    <3>2. KeyFrames' = KeyFrames \cup {[t |-> VT(p), cluster |-> Len(clusters), block |-> cFrames + 1]}
      BY <1>5, <2>4, KeyFramesWritten
    <3> QED
      BY <1>1, <2>2, <2>3, <3>1, <3>2 DEF IndexInv
  <2>5. CASE ~video[p].key
    <3>1. CuePoints' = CuePoints
      BY <2>2, <2>5 DEF CuePoints
    <3>2. KeyFrames' = KeyFrames
      BY <1>5, <2>5, KeyFramesWritten
    <3> QED
      BY <1>1, <2>2, <2>3, <3>1, <3>2 DEF IndexInv
  <2> QED
    BY <2>4, <2>5
<1>6. CASE WriteAudioFrame
  <2> DEFINE p == Len(audioOut) + 1
  <2>1. /\ Head(aframes) = p /\ AT(p) \in Nat
        /\ FileBlocks' = FileBlocks \cup {NewBlock(AT(p))}
    <3>1. /\ Head(aframes) = p /\ p \in QueuedAudio
          /\ FileBlocks' = FileBlocks \cup {NewBlock(AT(p))}
      BY <1>6, AudioWritten
    <3>2. p \in 1..Len(audio)
      BY <3>1, TimesTyped DEF QueuedAudio
    <3> QED
      BY <3>1, <3>2, TimesTyped
  <2>2. /\ open /\ open' /\ maxTimecode' = Latest(AT(p))
        /\ UNCHANGED <<cues, clusters, video, videoOut>>
    BY <1>0, <1>6, <2>1 DEF WriteAudioFrame, Writing, ClusterPCs
  <2>3. IsLatest(maxTimecode)'
    BY <2>1, <2>2, LatestWritten DEF IndexInv
  <2>4. CuePoints' = CuePoints /\ KeyFrames' = KeyFrames
    BY <2>2, KeyFramesStay DEF CuePoints
  <2> QED
    BY <1>1, <2>2, <2>3, <2>4 DEF IndexInv
<1>7. CASE CreateNewCluster \/ CreateNewClusterAudioOnly
  <2>1. /\ open /\ open' /\ UNCHANGED <<cues, maxTimecode, video, audio, videoOut, audioOut>>
    BY <1>0, <1>7 DEF CreateNewCluster, CreateNewClusterAudioOnly, Writing, ClusterPCs
  <2>2. PICK tc \in Nat : clusters' = Append(clusters, [tc |-> tc, keys |-> <<>>])
    <3>1. FramesKept
      BY DEF FullInv, IInv
    <3>2. CASE CreateNewCluster
      <4>1. vframes # <<>>
        BY <1>0, <3>2 DEF ClusterInv, CreateNewCluster
      <4>2. ClusterTimecode \in Nat
        BY <1>0, <3>1, <4>1, FrontVideo, FrontAudio DEF ClusterTimecode
      <4> QED
        BY <3>2, <4>2 DEF CreateNewCluster
    <3>3. CASE CreateNewClusterAudioOnly
      <4>1. aframes # <<>>
        BY <1>0, <3>3 DEF ClusterInv, CreateNewClusterAudioOnly
      <4>2. AT(Head(aframes)) \in Nat
        BY <1>0, <3>1, <4>1, FrontAudio
      <4> QED
        BY <3>3, <4>2 DEF CreateNewClusterAudioOnly
    <3> QED
      BY <1>7, <3>2, <3>3
  <2>3. CuePoints' = CuePoints
    BY <1>0, <2>2, CuesOfNewCluster
  <2>4. KeyFrames' = KeyFrames /\ FileBlocks' = FileBlocks
    BY <2>1, KeyFramesStay DEF FileBlocks, VT, AT
  <2> QED
    BY <1>1, <2>1, <2>3, <2>4 DEF IndexInv, IsLatest
<1>8. CASE Final \/ CloseFinal
  <2>1. FinalSegment
    BY <1>8 DEF Final, CloseFinal
  <2>2. ~open' /\ UNCHANGED <<video, audio, videoOut, audioOut, live, streams>>
    BY <2>1 DEF FinalSegment
  <2>3. KeyFrames' = KeyFrames /\ FileBlocks' = FileBlocks
    BY <2>2, KeyFramesStay DEF FileBlocks, VT, AT
  <2>4. clusters' = <<>>
    BY <2>1 DEF FinalSegment, IndexInv
  <2>5. CASE open /\ ~live
    <3>1. duration' = maxTimecode /\ IsLatest(duration')
      BY <2>1, <2>5 DEF FinalSegment, IndexInv
    <3>2. cues' = KeyFrames
      <4>1. CASE "video" \in streams
        BY <2>1, <2>5, <4>1 DEF FinalSegment, IndexInv
      <4>2. CASE "video" \notin streams /\ streams # {}
        <5>1. Len(videoOut) = 0
          BY <4>2, TimesTyped DEF PlaceInv
        <5> QED
          BY <2>1, <2>5, <4>2, <5>1 DEF FinalSegment, IndexInv, KeyFrames
      <4> QED
        BY <1>0, <2>5, <4>1, <4>2
    <3> QED
      BY <2>2, <2>3, <2>4, <3>1, <3>2 DEF IndexInv, IndexMatchesFile, IsLatest, KeyFrames, KeyCue
  <2>6. CASE open /\ live
    BY <2>2, <2>4, <2>6 DEF IndexInv, IndexMatchesFile
  <2>7. CASE ~open
    <3>1. UNCHANGED <<cues, duration, finals>>
      BY <2>1, <2>7 DEF FinalSegment
    <3> QED
      BY <2>2, <2>3, <2>4, <3>1 DEF IndexInv, IndexMatchesFile, KeyFrames, KeyCue
  <2> QED
    BY <2>5, <2>6, <2>7
<1>9. ASSUME UNCHANGED <<video, audio, videoOut, audioOut, clusters, cues, maxTimecode, duration,
                         finals, open>>,
             UNCHANGED <<live, streams>> \/ streams' = {}
      PROVE  IndexInv'
  <2>1. KeyFrames' = KeyFrames /\ FileBlocks' = FileBlocks /\ CuePoints' = CuePoints
    BY <1>9, KeyFramesStay DEF FileBlocks, VT, AT, CuePoints
  <2> QED
    BY <1>9, <2>1 DEF IndexInv, IndexMatchesFile, IsLatest, KeyFrames, KeyCue
<1>10. CASE (\E mode \in LiveModes : SetLiveMuxMode(mode)) \/ ReceiveVorbisHeader
  BY <1>9, <1>10 DEF SetLiveMuxMode, ReceiveVorbisHeader
<1>11. CASE NotifyVideoEOS \/ NotifyAudioEOS \/ FlushVideo \/ FlushAudio
  BY <1>9, <1>11 DEF NotifyVideoEOS, NotifyAudioEOS, FlushVideo, FlushAudio
<1>12. CASE Close \/ DeleteStreams \/ EndCluster
  BY <1>9, <1>12 DEF Close, DeleteStreams, EndCluster
<1>13. CASE Drain \/ EOS \/ FlushVideoLoop \/ FlushAudioLoop
  BY <1>9, <1>13 DEF Drain, EOS, FlushVideoLoop, FlushAudioLoop
<1>14. CASE UNCHANGED vars
  BY <1>9, <1>14 DEF vars
<1> QED
  BY <1>2, <1>3, <1>4, <1>5, <1>6, <1>7, <1>8, <1>10, <1>11, <1>12, <1>13, <1>14
     DEF Next, EntryPoint, InternalStep, Opening, VideoArrives, AudioArrives

(* The index of a finalised file has exactly one cue for each of its key   *)
(* frames, at the cluster and block where the frame is, and the duration   *)
(* written is the time of its last frame.                                  *)
THEOREM IndexIsRight == Spec => []IndexMatchesFile
<1>1. Init => IndexInv
  BY DEF Init, IndexInv, IndexMatchesFile
<1>2. IndexInv /\ OrderInv /\ OrderInv' /\ [Next]_vars => IndexInv'
  BY IndexStep DEF OrderInv
<1>3. IndexInv => IndexMatchesFile
  BY DEF IndexInv
<1> QED
  BY <1>1, <1>2, <1>3, OrderInvariance, PTL DEF Spec

-----------------------------------------------------------------------------
(***************************************************************************)
(* The interleaver implements the promise.                                 *)
(***************************************************************************)

VideoFrames == [t : VideoTimes, key : BOOLEAN]
AudioFrames == [t : AudioTimes]

(* The tracks as the promise sees them.                                    *)
Accepted == [k \in {"video", "audio"} |-> IF k = "video" THEN video ELSE audio]
Written  == [k \in {"video", "audio"} |->
               IF k = "video" THEN TrackFrames(videoOut, video)
                              ELSE TrackFrames(audioOut, audio)]

(* What has arrived are frames upstream may send.                          *)
ArrivedInv == video \in Seq(VideoFrames) /\ audio \in Seq(AudioFrames)

ImplInv == FullInv /\ ArrivedInv

-----------------------------------------------------------------------------
(* The track of the file is the first Len(out) frames that arrived.        *)
LEMMA TrackIsPrefix ==
  ASSUME NEW S, NEW arrived \in Seq(S), NEW out \in Seq(BlockType),
         Len(out) <= Len(arrived), \A i \in 1..Len(out) : out[i].frame = i
  PROVE  /\ TrackFrames(out, arrived) \in Seq(S)
         /\ Len(TrackFrames(out, arrived)) = Len(out)
         /\ \A i \in 1..Len(out) : TrackFrames(out, arrived)[i] = arrived[i]
<1> DEFINE f == TrackFrames(out, arrived)
<1>1. Len(out) \in Nat /\ Len(arrived) \in Nat
  OBVIOUS
<1>2. ASSUME NEW i \in 1..Len(out) PROVE f[i] = arrived[i] /\ arrived[i] \in S
  <2>1. i \in 1..Len(arrived)
    BY <1>1
  <2> QED
    BY <2>1, ElementOfSeq DEF TrackFrames
<1>3. f \in [1..Len(out) -> S]
  BY <1>2 DEF TrackFrames
<1>4. f \in Seq(S)
  BY <1>1, <1>3, SeqDef
<1>5. Len(f) = Len(out)
  <2>1. DOMAIN f = 1..Len(f) /\ Len(f) \in Nat
    BY <1>4, LenProperties
  <2>2. DOMAIN f = 1..Len(out)
    BY <1>3
  <2> QED
    BY <1>1, <2>1, <2>2
<1> QED
  BY <1>2, <1>4, <1>5

(* One more frame arrives: the track of the file is the same.              *)
LEMMA TrackArrive ==
  ASSUME NEW S, NEW arrived \in Seq(S), NEW out \in Seq(BlockType), NEW e \in S,
         Len(out) <= Len(arrived), \A i \in 1..Len(out) : out[i].frame = i
  PROVE  TrackFrames(out, Append(arrived, e)) = TrackFrames(out, arrived)
<1> DEFINE b == Append(arrived, e)
<1>1. b \in Seq(S) /\ Len(b) = Len(arrived) + 1 /\ \A i \in 1..Len(arrived) : b[i] = arrived[i]
  BY AppendProperties
<1>2. ASSUME NEW i \in 1..Len(out) PROVE b[i] = arrived[i]
  BY <1>1
<1> HIDE DEF b
<1>3. TrackFrames(out, b) = TrackFrames(out, arrived)
  BY <1>2 DEF TrackFrames
<1> QED
  BY <1>3 DEF b

(* One more block is written: the track of the file grows by its frame.    *)
LEMMA TrackWrite ==
  ASSUME NEW S, NEW arrived \in Seq(S), NEW out \in Seq(BlockType), NEW b \in BlockType,
         Len(out) < Len(arrived), \A i \in 1..Len(out) : out[i].frame = i,
         b.frame = Len(out) + 1
  PROVE  TrackFrames(Append(out, b), arrived) =
           Append(TrackFrames(out, arrived), arrived[Len(out) + 1])
<1> DEFINE o == Append(out, b)
           f == TrackFrames(out, arrived)
           e == arrived[Len(out) + 1]
<1>1. /\ Len(out) \in Nat /\ Len(arrived) \in Nat /\ o \in Seq(BlockType) /\ Len(o) = Len(out) + 1
      /\ \A i \in 1..Len(out) : o[i] = out[i]
      /\ o[Len(out) + 1] = b
  BY AppendProperties
<1>2. f \in Seq(S) /\ Len(f) = Len(out) /\ \A i \in 1..Len(out) : f[i] = arrived[i]
  BY <1>1, TrackIsPrefix
<1>3. e \in S
  BY <1>1, ElementOfSeq
<1>4. /\ Append(f, e) \in Seq(S) /\ Len(Append(f, e)) = Len(out) + 1
      /\ \A i \in 1..Len(out) : Append(f, e)[i] = arrived[i]
      /\ Append(f, e)[Len(out) + 1] = e
  BY <1>2, <1>3, AppendProperties
<1>5. (\A i \in 1..Len(o) : o[i].frame = i) /\ Len(o) <= Len(arrived) /\ o \in Seq(BlockType)
  BY <1>1
<1> HIDE DEF o
<1>6. /\ TrackFrames(o, arrived) \in Seq(S) /\ Len(TrackFrames(o, arrived)) = Len(o)
      /\ \A i \in 1..Len(o) : TrackFrames(o, arrived)[i] = arrived[i]
  BY <1>5, TrackIsPrefix
<1>7. \A i \in 1..Len(o) : TrackFrames(o, arrived)[i] = Append(f, e)[i]
  BY <1>1, <1>4, <1>6
<1>8. Len(o) = Len(out) + 1 /\ TrackFrames(o, arrived) = Append(f, e)
  BY <1>1, <1>4, <1>6, <1>7, SeqEqual
<1> QED
  BY <1>8 DEF o

(* Everything is written: the track is what arrived.                       *)
LEMMA TrackComplete ==
  ASSUME NEW S, NEW arrived \in Seq(S), NEW out \in Seq(BlockType),
         Len(out) = Len(arrived), \A i \in 1..Len(out) : out[i].frame = i
  PROVE  TrackFrames(out, arrived) = arrived
<1>1. Len(out) \in Nat /\ Len(out) <= Len(arrived)
  OBVIOUS
<1> QED
  BY <1>1, TrackIsPrefix, SeqEqual

(* Nothing is written: the track is empty.                                 *)
LEMMA TrackEmpty == ASSUME NEW arrived PROVE TrackFrames(<<>>, arrived) = <<>>
  BY EmptySeq DEF TrackFrames

-----------------------------------------------------------------------------
(* Only frames upstream may send arrive.                                   *)
LEMMA ArrivedStep ==
  ASSUME ArrivedInv, [Next]_vars
  PROVE  ArrivedInv'
<1> USE DEF ArrivedInv, queues, file, sealed, inputs, eosVars, setup, control
<1>1. CASE UNCHANGED <<video, audio>>
  BY <1>1
<1>2. CASE \E ss \in StreamSets, hasFile \in BOOLEAN, isOgg \in OggModes : Open(ss, hasFile, isOgg)
  BY <1>2, EmptySeq DEF Open
<1>3. ASSUME NEW t \in VideoTimes, NEW key \in BOOLEAN, NotifyVideoFrame(t, key)
      PROVE  ArrivedInv'
  <2>1. [t |-> t, key |-> key] \in VideoFrames
    BY DEF VideoFrames
  <2> QED
    BY <1>3, <2>1, AppendProperties DEF NotifyVideoFrame
<1>4. ASSUME NEW t \in AudioTimes, NotifyAudioFrame(t)
      PROVE  ArrivedInv'
  <2>1. [t |-> t] \in AudioFrames
    BY DEF AudioFrames
  <2> QED
    BY <1>4, <2>1, AppendProperties DEF NotifyAudioFrame
<1>5. CASE \/ \E mode \in LiveModes : SetLiveMuxMode(mode)
           \/ ReceiveVorbisHeader \/ NotifyVideoEOS \/ NotifyAudioEOS
           \/ FlushVideo \/ FlushAudio \/ Close \/ DeleteStreams
  BY <1>1, <1>5 DEF SetLiveMuxMode, ReceiveVorbisHeader, NotifyVideoEOS, NotifyAudioEOS,
     FlushVideo, FlushAudio, Close, DeleteStreams
<1>6. CASE \/ CreateNewCluster \/ CreateNewClusterAudioOnly \/ WriteVideoFrame
           \/ WriteAudioFrame \/ EndCluster
  BY <1>1, <1>6 DEF CreateNewCluster, CreateNewClusterAudioOnly, WriteVideoFrame, WriteAudioFrame,
     EndCluster
<1>7. CASE Drain \/ EOS \/ FlushVideoLoop \/ FlushAudioLoop \/ Final \/ CloseFinal
  BY <1>1, <1>7 DEF Drain, EOS, FlushVideoLoop, FlushAudioLoop, Final, CloseFinal, FinalSegment
<1>8. CASE UNCHANGED vars
  BY <1>1, <1>8 DEF vars
<1> QED
  BY <1>2, <1>3, <1>4, <1>5, <1>6, <1>7, <1>8 DEF Next, EntryPoint, InternalStep

(* The initial state of the context maps to that of the promise.           *)
LEMMA InitMaps == Init => File!Init
<1> SUFFICES ASSUME Init PROVE File!Init
  OBVIOUS
<1>1. FileStatus = "closed" /\ video = <<>> /\ audio = <<>> /\ videoOut = <<>> /\ audioOut = <<>>
  BY DEF Init, FileStatus
<1> QED
  BY <1>1, TrackEmpty DEF File!Init, File!Nothing

(* A step of the context maps to a step of the promise or to a stutter.    *)
LEMMA StepMaps ==
  ASSUME ImplInv, [Next]_vars
  PROVE  [File!Next]_(File!vars)
<1> USE DEF queues, file, sealed, inputs, eosVars, setup, control
<1>0. /\ TypeOK /\ FramesKept /\ EndInv /\ ClusterInv /\ IInv /\ SealInv
      /\ video \in Seq(VideoFrames) /\ audio \in Seq(AudioFrames)
      /\ videoOut \in Seq(BlockType) /\ audioOut \in Seq(BlockType)
  BY DEF ImplInv, FullInv, IInv, ArrivedInv, TypeOK
<1>a. /\ Len(videoOut) <= Len(video) /\ \A i \in 1..Len(videoOut) : videoOut[i].frame = i
      /\ Len(audioOut) <= Len(audio) /\ \A i \in 1..Len(audioOut) : audioOut[i].frame = i
  <2>1. /\ Len(videoOut) \in Nat /\ Len(vframes) \in Nat /\ Len(audioOut) \in Nat /\ Len(aframes) \in Nat
    BY <1>0 DEF TypeOK
  <2>2. /\ Len(videoOut) + Len(vframes) = Len(video) /\ Len(audioOut) + Len(aframes) = Len(audio)
        /\ \A i \in 1..Len(videoOut) : videoOut[i].frame = i
        /\ \A i \in 1..Len(audioOut) : audioOut[i].frame = i
    BY <1>0 DEF FramesKept
  <2> QED
    BY <2>1, <2>2
<1>1. CASE UNCHANGED <<open, finals, video, audio, videoOut, audioOut>>
  BY <1>1 DEF File!vars, FileStatus, TrackFrames
<1>2. ASSUME NEW ss \in StreamSets, NEW hasFile \in BOOLEAN, NEW isOgg \in OggModes,
             Open(ss, hasFile, isOgg)
      PROVE  [File!Next]_(File!vars)
  <2>1. FileStatus # "open"
    BY <1>0, <1>2 DEF Open, EndInv, FileStatus
  <2>2. FileStatus' \in {"closed", "open"}
    BY <1>2 DEF Open, FileStatus
  <2>3. /\ video' = <<>> /\ audio' = <<>>
        /\ TrackFrames(videoOut', video') = <<>> /\ TrackFrames(audioOut', audio') = <<>>
    BY <1>2, TrackEmpty DEF Open
  <2>4. ASSUME NEW s \in {"closed", "open"}, FileStatus' = s PROVE File!Begin(s)
    BY <2>1, <2>3, <2>4 DEF File!Begin, File!Nothing, TrackFrames
  <2> QED
    BY <2>2, <2>4 DEF File!Next
<1>3. ASSUME NEW t \in VideoTimes, NEW key \in BOOLEAN, NotifyVideoFrame(t, key)
      PROVE  [File!Next]_(File!vars)
  <2> DEFINE e == [t |-> t, key |-> key]
  <2>1. e \in VideoFrames /\ video' = Append(video, e) /\ UNCHANGED <<audio, videoOut, audioOut, open, finals>>
    BY <1>3 DEF VideoFrames, NotifyVideoFrame
  <2>2. FileStatus = "open" /\ FileStatus' = FileStatus
    BY <1>3, <2>1 DEF NotifyVideoFrame, FileStatus
  <2> HIDE DEF e
  <2>3. TrackFrames(videoOut, video') = TrackFrames(videoOut, video)
    BY <1>0, <1>a, <2>1, TrackArrive, ZenonT(40)
  <2>4. File!Accept("video", e)
    BY <2>1, <2>2, <2>3 DEF File!Accept, TrackFrames
  <2> QED
    BY <2>1, <2>4 DEF File!Next, VideoFrames
<1>4. ASSUME NEW t \in AudioTimes, NotifyAudioFrame(t)
      PROVE  [File!Next]_(File!vars)
  <2> DEFINE e == [t |-> t]
  <2>1. e \in AudioFrames /\ audio' = Append(audio, e) /\ UNCHANGED <<video, videoOut, audioOut, open, finals>>
    BY <1>4 DEF AudioFrames, NotifyAudioFrame
  <2>2. FileStatus = "open" /\ FileStatus' = FileStatus
    BY <1>4, <2>1 DEF NotifyAudioFrame, FileStatus
  <2> HIDE DEF e
  <2>3. TrackFrames(audioOut, audio') = TrackFrames(audioOut, audio)
    BY <1>0, <1>a, <2>1, TrackArrive
  <2>4. File!Accept("audio", e)
    BY <2>1, <2>2, <2>3 DEF File!Accept, TrackFrames
  <2> QED
    BY <2>1, <2>4 DEF File!Next, AudioFrames
<1>5. CASE WriteVideoFrame
  <2> DEFINE p == Head(vframes)
             b == Block(p, VT(p))
  <2>1. vframes # <<>> /\ clusters # <<>> /\ open
    BY <1>0, <1>5 DEF WriteVideoFrame, MergeChoice, ClusterInv, EndInv, Writing, ClusterPCs
  <2>2. p = Len(videoOut) + 1 /\ p \in 1..Len(video) /\ VT(p) \in Nat /\ p \in Nat
    BY <1>0, <2>1, FrontVideo
  <2>3. b \in BlockType /\ b.frame = Len(videoOut) + 1 /\ Len(videoOut) < Len(video)
    <3>1. b \in BlockType
      BY <1>0, <2>1, <2>2, BlockIsTyped
    <3>2. b.frame = p
      BY DEF Block
    <3>3. Len(videoOut) \in Nat /\ Len(video) \in Nat
      BY <1>0
    <3> QED
      BY <2>2, <3>1, <3>2, <3>3
  <2>4. videoOut' = Append(videoOut, b) /\ UNCHANGED <<video, audio, audioOut, open, finals>>
    BY <1>5 DEF WriteVideoFrame
  <2>5. FileStatus = "open" /\ FileStatus' = FileStatus
    BY <2>1, <2>4 DEF FileStatus
  <2> HIDE DEF b, p
  <2>6. TrackFrames(videoOut', video) = Append(TrackFrames(videoOut, video), video[Len(videoOut) + 1])
    BY <1>0, <1>a, <2>3, <2>4, TrackWrite
  <2>7. Len(TrackFrames(videoOut, video)) = Len(videoOut)
    BY <1>0, <1>a, TrackIsPrefix
  <2>8. File!Write("video")
    BY <2>3, <2>4, <2>5, <2>6, <2>7 DEF File!Write, TrackFrames
  <2> QED
    BY <2>8 DEF File!Next
<1>6. CASE WriteAudioFrame
  <2> DEFINE p == Head(aframes)
             b == Block(p, AT(p))
  <2>1. aframes # <<>> /\ clusters # <<>> /\ open
    BY <1>0, <1>6 DEF WriteAudioFrame, MergeChoice, AudioMergeChoice, ClusterInv, EndInv, Writing, ClusterPCs
  <2>2. p = Len(audioOut) + 1 /\ p \in 1..Len(audio) /\ AT(p) \in Nat /\ p \in Nat
    BY <1>0, <2>1, FrontAudio
  <2>3. b \in BlockType /\ b.frame = Len(audioOut) + 1 /\ Len(audioOut) < Len(audio)
    <3>1. b \in BlockType
      BY <1>0, <2>1, <2>2, BlockIsTyped
    <3>2. b.frame = p
      BY DEF Block
    <3>3. Len(audioOut) \in Nat /\ Len(audio) \in Nat
      BY <1>0
    <3> QED
      BY <2>2, <3>1, <3>2, <3>3
  <2>4. audioOut' = Append(audioOut, b) /\ UNCHANGED <<video, audio, videoOut, open, finals>>
    BY <1>6 DEF WriteAudioFrame
  <2>5. FileStatus = "open" /\ FileStatus' = FileStatus
    BY <2>1, <2>4 DEF FileStatus
  <2> HIDE DEF b, p
  <2>6. TrackFrames(audioOut', audio) = Append(TrackFrames(audioOut, audio), audio[Len(audioOut) + 1])
    BY <1>0, <1>a, <2>3, <2>4, TrackWrite
  <2>7. Len(TrackFrames(audioOut, audio)) = Len(audioOut)
    BY <1>0, <1>a, TrackIsPrefix
  <2>8. File!Write("audio")
    BY <2>3, <2>4, <2>5, <2>6, <2>7 DEF File!Write, TrackFrames
  <2> QED
    BY <2>8 DEF File!Next
<1>7. ASSUME FinalSegment, VideoOver, AudioOver, ~Draining PROVE [File!Next]_(File!vars)
  <2>1. UNCHANGED <<video, audio, videoOut, audioOut>> /\ open' = FALSE
    BY <1>7 DEF FinalSegment
  <2>2. CASE ~open
    <3>1. UNCHANGED <<open, finals>>
      BY <1>0, <1>7, <2>1, <2>2 DEF FinalSegment, TypeOK
    <3> QED
      BY <1>1, <2>1, <3>1
  <2>3. CASE open
    <3>1. FileStatus = "open" /\ FileStatus' = "sealed"
      BY <1>0, <1>7, <2>3 DEF FinalSegment, FileStatus, SealInv
    <3>2. Len(videoOut) = Len(video) /\ Len(audioOut) = Len(audio)
      BY <1>0, <1>7 DEF EndInv, QueuesEmpty, FramesKept, TypeOK
    <3>3. TrackFrames(videoOut, video) = video /\ TrackFrames(audioOut, audio) = audio
      BY <1>0, <1>a, <3>2, TrackComplete
    <3>4. File!Seal
      BY <2>1, <3>1, <3>3 DEF File!Seal, TrackFrames
    <3> QED
      BY <3>4 DEF File!Next
  <2> QED
    BY <1>0, <2>2, <2>3 DEF TypeOK
<1>8. CASE Final \/ CloseFinal
  BY <1>0, <1>7, <1>8 DEF Final, CloseFinal, EndInv, Draining, ClusterPCs
<1>9. CASE \/ \E mode \in LiveModes : SetLiveMuxMode(mode)
           \/ ReceiveVorbisHeader \/ NotifyVideoEOS \/ NotifyAudioEOS
           \/ FlushVideo \/ FlushAudio \/ Close \/ DeleteStreams
  BY <1>1, <1>9 DEF SetLiveMuxMode, ReceiveVorbisHeader, NotifyVideoEOS, NotifyAudioEOS,
     FlushVideo, FlushAudio, Close, DeleteStreams
<1>10. CASE CreateNewCluster \/ CreateNewClusterAudioOnly \/ EndCluster
  BY <1>1, <1>10 DEF CreateNewCluster, CreateNewClusterAudioOnly, EndCluster
<1>11. CASE Drain \/ EOS \/ FlushVideoLoop \/ FlushAudioLoop
  BY <1>1, <1>11 DEF Drain, EOS, FlushVideoLoop, FlushAudioLoop
<1>12. CASE UNCHANGED vars
  BY <1>1, <1>12 DEF vars
<1> QED
  BY <1>2, <1>3, <1>4, <1>5, <1>6, <1>8, <1>9, <1>10, <1>11, <1>12
     DEF Next, EntryPoint, InternalStep

-----------------------------------------------------------------------------
(* The interleaver implements the promise: whatever the order of frames,   *)
(* flushes, ends of stream and stops, each track of the file is a prefix   *)
(* of what was accepted for it, and a sealed file holds all of it.         *)
THEOREM ContextImplementsFile == Spec => ImplementsFile
<1>1. Init => ArrivedInv
  BY EmptySeq DEF Init, ArrivedInv
<1>2. ArrivedInv /\ [Next]_vars => ArrivedInv'
  BY ArrivedStep
<1>3. FullInv /\ ArrivedInv /\ [Next]_vars => [File!Next]_(File!vars)
  BY StepMaps DEF ImplInv
<1> QED
  BY <1>1, <1>2, <1>3, InitMaps, FullInvariance, PTL DEF Spec, ImplementsFile, File!Spec

-----------------------------------------------------------------------------
(***************************************************************************)
(* The muxer's threads, for every set of streams, every timecode and every *)
(* bound.  The invariant of the interleaver (FullInv) holds in the filter  *)
(* as well, since the filter only calls it; the proofs here add who holds  *)
(* the lock, how far a session has got, and why a blocked thread sleeps.   *)
(***************************************************************************)

(* A thread inside one of its calls.                                       *)
Inside(p) == th[p] \in {"receive", "wait", "eos"}

(* Where the thread inside Close can be.                                   *)
InClose == Draining \/ pc \in {"close", "detach", "eos", "final"}

(***************************************************************************)
(* LockInv: the lock is held by the thread that is inside a call, and      *)
(* only a call that is not over has the context at work.                   *)
(***************************************************************************)
LockInv ==
  /\ FilterTypeOK
  /\ \A p \in Pins : lock = p <=> Inside(p)
  /\ \A p \in Pins : th[p] = "wait" => pc = "idle"
  /\ \A p \in Pins : th[p] \in {"receive", "eos"} => p \in streams /\ state # "stopped"
  /\ lock = "flush" <=> flushing # "none"
  /\ lock = "flush" => flushes > 0
  /\ closing => lock = "app" /\ InClose
  /\ pc \in {"close", "detach"} => closing

(* A thread that is not back upstream has its stream, unless it was        *)
(* deleted by the Stop that will let it go.                                *)
StreamInv ==
  \A p \in Pins : th[p] # "upstream" => p \in streams \/ state = "stopped" \/ lock = "app"

(***************************************************************************)
(* CompleteInv: the pins' flags are those of the context until it closes;  *)
(* when the last stream has ended the file is closed, and finalised.       *)
(***************************************************************************)
EndedIn(p) == IF p = "video" THEN eosVideo ELSE eosAudio

Ending == Draining \/ pc \in {"eos", "final"}

CompleteInv ==
  /\ ~closing => \A p \in streams : pinEOS[p] <=> EndedIn(p)
  /\ streams # {} /\ ~open => finals = 1
  /\ VideoOver /\ AudioOver /\ open => Ending \/ closing
  /\ CompleteOnce
  /\ completes = 1 => \A p \in Pins : th[p] # "eos"

(***************************************************************************)
(* WakeInv: a blocked thread has an event coming, or nothing has happened  *)
(* yet that it waits for, or whoever has the lock will set its event.      *)
(***************************************************************************)
Asleep(p) ==
  /\ ~pinFlush[p] /\ state # "stopped"
  /\ state = "paused" \/ StreamWaits(p) \/ flushes > 0

Notifies(p) == th[Other(p)] \in {"receive", "eos"} \/ lock = "app"

WakeInv ==
  \A p \in Pins : th[p] = "blocked" => hChange[p] \/ hSample[Other(p)] \/ Asleep(p) \/ Notifies(p)

FilterInv == FullInv /\ LockInv /\ CompleteInv

-----------------------------------------------------------------------------
(* Each pin is the other's other one.                                      *)
LEMMA TwoPins ==
  /\ Other("video") = "audio" /\ Other("audio") = "video"
  /\ \A p \in Pins : Other(p) \in Pins /\ Other(p) # p /\ Other(Other(p)) = p
  /\ \A p, q \in Pins : p = q \/ q = Other(p)
  BY DEF Pins, Other

(* What the filter does to the context: a step of the context, none, or    *)
(* the count of a flush without a stream.                                  *)
LEMMA FilterCallsContext ==
  ASSUME [FilterNext]_allVars
  PROVE  [Next]_vars \/ FlushWithoutStream
<1>1. CASE ContextStep
  BY <1>1 DEF ContextStep, Next
<1>2. ASSUME NEW p \in Pins, StreamingStep(p) PROVE [Next]_vars
  <2>1. CASE Receive(p)
    <3>1. SampleArrives(p)
      BY <2>1 DEF Receive
    <3> QED
      BY <3>1 DEF SampleArrives, Next, EntryPoint
  <2>2. CASE EndOfStream(p)
    <3>1. pc = "idle" /\ (NotifyVideoEOS \/ NotifyAudioEOS)
      BY <2>2 DEF EndOfStream
    <3> QED
      BY <3>1 DEF Next, EntryPoint
  <2>3. CASE NotifyOther(p) \/ WaitCheck(p) \/ Wake(p) \/ Reseize(p) \/ OnEndOfStream(p)
    BY <2>3 DEF NotifyOther, WaitCheck, Wake, Reseize, OnEndOfStream
  <2> QED
    BY <1>2, <2>1, <2>2, <2>3 DEF StreamingStep
<1>3. ASSUME NEW p \in Pins, BeginFlush(p) PROVE [Next]_vars \/ FlushWithoutStream
  BY <1>3 DEF BeginFlush, Next, EntryPoint
<1>4. ASSUME NEW p \in Pins, EndFlush(p) PROVE [Next]_vars
  BY <1>4 DEF EndFlush
<1>5. CASE Pause \/ Run
  <2>1. CASE InitPins
    <3>1. PICK ss \in StreamSets, isOgg \in OggModes : Open(ss, TRUE, isOgg)
      BY <2>1 DEF InitPins
    <3> QED
      BY <3>1 DEF Next, EntryPoint
  <2>2. CASE UNCHANGED vars
    BY <2>2
  <2> QED
    BY <1>5, <2>1, <2>2 DEF Pause, Run
<1>6. CASE Stop
  BY <1>6 DEF Stop, Next, EntryPoint
<1>7. CASE BeginFlushReturn \/ StopReturn
  BY <1>7 DEF BeginFlushReturn, StopReturn
<1>8. CASE SetMuxMode
  BY <1>8 DEF SetMuxMode, Next, EntryPoint
<1>9. CASE UNCHANGED allVars
  BY <1>9 DEF allVars
<1> QED
  BY <1>1, <1>2, <1>3, <1>4, <1>5, <1>6, <1>7, <1>8, <1>9 DEF FilterNext

(* The interleaver's invariant holds in the filter.                        *)
LEMMA ContextStepInv ==
  ASSUME FullInv, [FilterNext]_allVars
  PROVE  FullInv'
<1>1. CASE [Next]_vars
  <2>1. IInv'
    BY <1>1, TypeStep, FramesStep, ClusterStep, EndStep DEF FullInv, IInv
  <2> QED
    BY <1>1, <2>1, PointersStep, SealStep DEF FullInv
<1>2. CASE FlushWithoutStream
  <2>1. flushes' \in 0..MaxFlush
    BY <1>2, BoundsAssumption DEF FlushWithoutStream, FullInv, IInv, TypeOK
  <2>2. UNCHANGED <<queues, file, sealed, video, audio, needKey, eosVars, setup, control>>
    BY <1>2 DEF FlushWithoutStream
  <2>3. TypeOK'
    BY <2>1, <2>2 DEF FullInv, IInv, TypeOK, queues, file, sealed, eosVars, setup, control, BlockType
  <2>4. FramesKept' /\ ClusterInv' /\ EndInv' /\ PointersValid' /\ SealInv'
    BY <2>2 DEF FullInv, IInv, FramesKept, ClusterInv, EndInv, StreamsToEnd, Draining, Writing,
       QueuesEmpty, VideoOver, AudioOver, PointersValid, SealInv, queues, file, sealed, eosVars,
       setup, control
  <2> QED
    BY <2>3, <2>4 DEF FullInv, IInv
<1> QED
  BY <1>1, <1>2, FilterCallsContext

-----------------------------------------------------------------------------
(***************************************************************************)
(* What a step inside the context does to the state the filter looks at.   *)
(***************************************************************************)

(* FinalSegment finalises a file that is open, and leaves another alone.   *)
Finalises == open' = FALSE /\ finals' = IF open THEN finals + 1 ELSE finals

(* A thread inside the context flushes nothing and starts no session; only *)
(* Close marks streams as ended, deletes them, and goes on with closing.   *)
LEMMA InsideContext ==
  ASSUME IInv, closing => InClose, pc \in {"close", "detach"} => closing, InternalStep
  PROVE  /\ pc # "idle" /\ flushes' = flushes
         /\ closing' => closing /\ InClose'
         /\ pc' \in {"close", "detach"} => closing'
         /\ closing \/ UNCHANGED <<streams, eosVideo, eosAudio>>
         /\ closing /\ ~closing' => streams' = {}
         /\ UNCHANGED streams \/ streams' = {}
         /\ UNCHANGED <<open, finals>> \/ Finalises
<1> USE DEF queues, file, sealed, inputs, eosVars, setup, control, InClose, Draining, ClusterPCs
<1>1. CASE CreateNewCluster \/ CreateNewClusterAudioOnly
  BY <1>1 DEF CreateNewCluster, CreateNewClusterAudioOnly
<1>2. CASE WriteVideoFrame \/ WriteAudioFrame
  BY <1>2 DEF WriteVideoFrame, WriteAudioFrame
<1>3. CASE EndCluster
  BY <1>3 DEF EndCluster, IInv, TypeOK
<1>4. CASE Drain
  BY <1>4 DEF Drain, CallNewCluster, CallNewClusterAudioOnly
<1>5. CASE EOS
  BY <1>5 DEF EOS, Resume
<1>6. CASE FlushVideoLoop \/ FlushAudioLoop
  BY <1>6 DEF FlushVideoLoop, FlushAudioLoop, CallNewCluster, CallNewClusterAudioOnly
<1>7. CASE Final \/ CloseFinal
  BY <1>7 DEF Final, CloseFinal, FinalSegment, Resume, Finalises
<1>8. CASE pc = "close" /\ (NotifyVideoEOS \/ NotifyAudioEOS)
  BY <1>8 DEF NotifyVideoEOS, NotifyAudioEOS, AfterEOSFlag
<1>9. CASE DeleteStreams
  BY <1>9 DEF DeleteStreams, IInv, EndInv
<1> QED
  BY <1>1, <1>2, <1>3, <1>4, <1>5, <1>6, <1>7, <1>8, <1>9 DEF InternalStep

(* Once both streams have ended, the thread that ended the last one does   *)
(* not leave the context before the file is closed.                        *)
LEMMA EndingStep ==
  ASSUME IInv, InternalStep, VideoOver /\ AudioOver /\ open => Ending \/ closing, ~closing,
         pc \in {"close", "detach"} => closing
  PROVE  (VideoOver /\ AudioOver /\ open => Ending \/ closing)'
<1> USE DEF queues, file, sealed, inputs, eosVars, setup, control, VideoOver, AudioOver, Ending,
            Draining, ClusterPCs
<1>1. CASE CreateNewCluster \/ CreateNewClusterAudioOnly
  BY <1>1 DEF CreateNewCluster, CreateNewClusterAudioOnly
<1>2. CASE WriteVideoFrame \/ WriteAudioFrame
  BY <1>2 DEF WriteVideoFrame, WriteAudioFrame
<1>3. CASE EndCluster
  BY <1>3 DEF EndCluster, IInv, TypeOK
<1>4. CASE Drain
  BY <1>4 DEF Drain, CallNewCluster, CallNewClusterAudioOnly
<1>5. CASE EOS
  <2>1. VideoOver /\ AudioOver => cEOS = 1
    BY <1>5 DEF EOS, IInv, EndInv, StreamsToEnd
  <2> QED
    BY <1>5, <2>1 DEF EOS
<1>6. CASE FlushVideoLoop \/ FlushAudioLoop
  BY <1>6 DEF FlushVideoLoop, FlushAudioLoop, CallNewCluster, CallNewClusterAudioOnly
<1>7. CASE Final \/ CloseFinal
  BY <1>7 DEF Final, CloseFinal, FinalSegment
<1>8. CASE pc = "close" \/ DeleteStreams
  BY <1>8 DEF DeleteStreams
<1> QED
  BY <1>1, <1>2, <1>3, <1>4, <1>5, <1>6, <1>7, <1>8 DEF InternalStep

-----------------------------------------------------------------------------
(***************************************************************************)
(* The lock.                                                               *)
(***************************************************************************)

(* What a sample's arrival leaves alone, and which stream it needs.        *)
LEMMA ArrivalEffect ==
  ASSUME NEW p \in Pins, SampleArrives(p)
  PROVE  /\ pc = "idle" /\ pc' \notin {"close", "detach"} /\ p \in streams
         /\ UNCHANGED <<streams, open, eosVideo, eosAudio, finals, closing, flushes>>
<1> USE DEF queues, file, sealed, inputs, eosVars, setup, control
<1>1. CASE \E t \in VideoTimes, key \in BOOLEAN : p = "video" /\ NotifyVideoFrame(t, key)
  BY <1>1 DEF NotifyVideoFrame, CallNewCluster
<1>2. CASE \E t \in AudioTimes : p = "audio" /\ NotifyAudioFrame(t)
  BY <1>2 DEF NotifyAudioFrame, CallNewCluster, CallNewClusterAudioOnly
<1>3. CASE p = "audio" /\ ReceiveVorbisHeader
  BY <1>3 DEF ReceiveVorbisHeader
<1> QED
  BY <1>1, <1>2, <1>3 DEF SampleArrives

(* ... and a flush.                                                        *)
LEMMA FlushEffect ==
  ASSUME pc = "idle", FlushVideo \/ FlushAudio \/ FlushWithoutStream
  PROVE  /\ pc' \notin {"close", "detach"} /\ flushes' = flushes + 1
         /\ UNCHANGED <<streams, open, eosVideo, eosAudio, finals, closing>>
  BY DEF FlushVideo, FlushAudio, FlushWithoutStream, queues, file, sealed, inputs, eosVars,
     setup, control

(* ... and the start of a session.                                         *)
LEMMA InitPinsEffect ==
  ASSUME InitPins
  PROVE  /\ pc = "idle" /\ pc' = pc /\ UNCHANGED closing
         /\ streams = {} /\ streams' \subseteq Pins /\ streams' # {} /\ open'
         /\ pinEOS' = [p \in Pins |-> FALSE] /\ pinFlush' = [p \in Pins |-> FALSE]
         /\ hSample' = [p \in Pins |-> FALSE] /\ hChange' = [p \in Pins |-> FALSE]
         /\ completes' = 0 /\ ~eosVideo' /\ ~eosAudio' /\ finals' = 0 /\ flushes' = 0
  BY StreamSetsAssumption DEF InitPins, Open, Pins, queues, file, sealed, inputs, eosVars, setup,
     control

(* The initial states satisfy the invariant.                               *)
LEMMA FilterInitInv == FilterInit => FilterInv /\ StreamInv /\ WakeInv
<1> SUFFICES ASSUME FilterInit PROVE FilterInv /\ StreamInv /\ WakeInv
  OBVIOUS
<1>1. Init
  BY DEF FilterInit
<1>2. FullInv
  BY <1>1, FullInit
<1>3. FilterTypeOK
  <2>1. planned \in [Pins -> Nat]
    BY BoundsAssumption DEF FilterInit
  <2> QED
    BY <1>1, <2>1, FilterAssumption DEF FilterInit, FilterTypeOK, Init
<1>4. LockInv /\ StreamInv /\ WakeInv
  BY <1>1, <1>3 DEF FilterInit, LockInv, StreamInv, WakeInv, Inside, Init, Pins
<1>5. CompleteInv
  BY <1>1 DEF FilterInit, CompleteInv, CompleteOnce, Init
<1> QED
  BY <1>2, <1>4, <1>5 DEF FilterInv

(* The lock is taken and given up in step with the threads.                *)
LEMMA LockStep ==
  ASSUME FullInv, FullInv', LockInv, [FilterNext]_allVars
  PROVE  LockInv'
<1> USE DEF pinVars, events, Inside, Pins, InClose, Draining, ClusterPCs
<1>a. flushes \in Nat
  BY BoundsAssumption DEF FullInv, IInv, TypeOK
<1>0. /\ FilterTypeOK /\ IInv
      /\ lock = "none" => pc = "idle"
      /\ pc \in {"close", "detach"} => closing
      /\ closing => InClose
  BY DEF LockInv, FilterTypeOK, FullInv
<1>1. CASE ContextStep
  <2>1. /\ InternalStep /\ lock # "none" /\ UNCHANGED filterVars
        /\ pc # "idle" /\ flushes' = flushes
        /\ closing' => closing
        /\ pc' \in {"close", "detach"} => closing'
        /\ closing \/ UNCHANGED streams
        /\ lock' = lock /\ th' = th /\ state' = state /\ flushing' = flushing
        /\ closing' => InClose'
    BY <1>0, <1>1, InsideContext DEF ContextStep, filterVars
  <2>2. FilterTypeOK'
    BY <1>0, <2>1 DEF FilterTypeOK, filterVars
  <2>3. ASSUME NEW p \in Pins PROVE lock' = p <=> Inside(p)'
    BY <2>1, <2>3 DEF LockInv
  <2>5. ASSUME NEW p \in Pins PROVE th'[p] # "wait"
    <3>1. th[p] = "wait" => pc = "idle"
      BY DEF LockInv
    <3> QED
      BY <2>1, <3>1
  <2>4. ASSUME NEW p \in Pins, th[p] \in {"receive", "eos"} PROVE (p \in streams /\ state # "stopped")'
    <3>1. lock = p /\ ~closing
      BY <2>4 DEF LockInv
    <3> QED
      BY <2>1, <2>4, <3>1 DEF LockInv, filterVars
  <2>6. /\ (lock = "flush" <=> flushing # "none")'
        /\ (lock = "flush" => flushes > 0)'
        /\ (closing => lock = "app" /\ InClose)'
        /\ (pc \in {"close", "detach"} => closing)'
    BY <1>0, <2>1 DEF LockInv
  <2> QED
    BY <2>1, <2>2, <2>3, <2>4, <2>5, <2>6 DEF LockInv
<1>2. ASSUME NEW p \in Pins, Receive(p) PROVE LockInv'
  <2>1. /\ pc = "idle" /\ pc' \notin {"close", "detach"} /\ p \in streams
        /\ UNCHANGED <<streams, closing, flushes>>
    BY <1>2, ArrivalEffect DEF Receive
  <2>2. FilterTypeOK'
    BY <1>0, <1>2, <2>1 DEF Receive, FilterTypeOK
  <2> QED
    BY <1>0, <1>2, <2>1, <2>2 DEF Receive, LockInv, FilterTypeOK
<1>3. ASSUME NEW p \in Pins, NotifyOther(p) \/ WaitCheck(p) \/ Wake(p) \/ Reseize(p)
      PROVE  LockInv'
  <2>1. UNCHANGED vars /\ UNCHANGED <<state, pinVars, flushing, planned, completes, appCalls>>
    BY <1>3 DEF NotifyOther, WaitCheck, Wake, Reseize
  <2>2. /\ th' \in [Pins -> {"upstream", "receive", "wait", "blocked", "seize", "eos"}]
        /\ hSample' \in [Pins -> BOOLEAN] /\ hChange' \in [Pins -> BOOLEAN]
        /\ lock' \in Pins \cup {"none", "app", "flush"}
    <3>1. CASE NotifyOther(p) \/ WaitCheck(p)
      BY <1>0, <3>1, ZenonT(40) DEF NotifyOther, WaitCheck, FilterTypeOK
    <3>2. CASE Reseize(p)
      BY <1>0, <3>2 DEF Reseize, FilterTypeOK
    <3>3. CASE Wake(p)
      <4>1. th' = [th EXCEPT ![p] = "seize"] /\ lock' = lock
        BY <3>3 DEF Wake
      <4>2. /\ hSample' \in {hSample, [hSample EXCEPT ![Other(p)] = FALSE]}
            /\ hChange' \in {hChange, [hChange EXCEPT ![p] = FALSE]}
        BY <3>3 DEF Wake
      <4> QED
        BY <1>0, <4>1, <4>2 DEF FilterTypeOK
    <3> QED
      BY <1>3, <3>1, <3>2, <3>3
  <2>6. pc # "idle" => lock' # "none"
    BY <1>0, <1>3 DEF NotifyOther, WaitCheck, Wake, Reseize, FilterTypeOK, LockInv
  <2>3. FilterTypeOK'
    BY <1>0, <2>1, <2>2, <2>6 DEF FilterTypeOK, vars, control
  <2>4. /\ \A q \in Pins : lock' = q <=> Inside(q)'
        /\ lock' \in {"app", "flush"} <=> lock \in {"app", "flush"}
        /\ lock \in {"app", "flush"} => lock' = lock
    BY <1>0, <1>3 DEF NotifyOther, WaitCheck, Wake, Reseize, FilterTypeOK, LockInv
  <2>5. \A q \in Pins : /\ th'[q] = "wait" => pc = "idle"
                        /\ th'[q] \in {"receive", "eos"} => th'[q] = th[q]
    BY <1>0, <1>3 DEF NotifyOther, WaitCheck, Wake, Reseize, FilterTypeOK, LockInv
  <2> QED
    BY <2>1, <2>3, <2>4, <2>5 DEF LockInv, vars, control, inputs, setup
<1>4. ASSUME NEW p \in Pins, EndOfStream(p) PROVE LockInv'
  <2>1. /\ pc = "idle" /\ UNCHANGED <<streams, closing, flushes>> /\ pc' \in {"drain", "eos"}
    BY <1>4 DEF EndOfStream, NotifyVideoEOS, NotifyAudioEOS, AfterEOSFlag, setup, inputs
  <2>2. FilterTypeOK'
    BY <1>0, <1>4, <2>1 DEF EndOfStream, FilterTypeOK
  <2> QED
    BY <1>0, <1>4, <2>1, <2>2 DEF EndOfStream, LockInv, FilterTypeOK
<1>5. ASSUME NEW p \in Pins, OnEndOfStream(p) PROVE LockInv'
  <2>1. UNCHANGED <<vars, state, pinVars, flushing>> /\ pc = "idle"
    BY <1>5 DEF OnEndOfStream
  <2>2. FilterTypeOK'
    BY <1>0, <1>5 DEF OnEndOfStream, FilterTypeOK, vars, control
  <2> QED
    BY <1>0, <1>5, <2>1, <2>2 DEF OnEndOfStream, LockInv, FilterTypeOK, vars, control, inputs, setup
<1>6. ASSUME NEW p \in Pins, BeginFlush(p) PROVE LockInv'
  <2>1. /\ pc' \notin {"close", "detach"} /\ flushes' = flushes + 1
        /\ UNCHANGED <<streams, closing>>
    BY <1>0, <1>6, FlushEffect DEF BeginFlush
  <2>2. FilterTypeOK'
    BY <1>0, <1>6 DEF BeginFlush, FilterTypeOK
  <2>3. /\ lock = "none" /\ lock' = "flush" /\ flushing' = p /\ p # "none" /\ flushes + 1 > 0
        /\ UNCHANGED <<th, state>>
    BY <1>a, <1>6 DEF BeginFlush
  <2>4. \A q \in Pins : th[q] \notin {"receive", "wait", "eos"}
    BY <2>3 DEF LockInv
  <2> QED
    BY <1>0, <2>1, <2>2, <2>3, <2>4 DEF LockInv
<1>7. CASE BeginFlushReturn
  <2>1. UNCHANGED <<vars, state, th>> /\ pc = "idle" /\ lock = "flush" /\ lock' = "none" /\ flushing' = "none"
    BY <1>7 DEF BeginFlushReturn
  <2>2. FilterTypeOK'
    BY <1>0, <1>7 DEF BeginFlushReturn, FilterTypeOK, vars, control
  <2> QED
    BY <1>0, <2>1, <2>2 DEF LockInv, vars, control, inputs, setup
<1>8. ASSUME NEW p \in Pins, EndFlush(p) PROVE LockInv'
  <2>1. UNCHANGED <<vars, state, th, lock, flushing>>
    BY <1>8 DEF EndFlush
  <2>2. FilterTypeOK'
    BY <1>0, <1>8 DEF EndFlush, FilterTypeOK, vars, control
  <2> QED
    BY <1>0, <2>1, <2>2 DEF LockInv, vars, control, inputs, setup
<1>9. CASE Pause \/ Run
  <2>1. /\ lock = "none" /\ lock' = lock /\ pc = "idle" /\ pc' = pc /\ closing' = closing
        /\ UNCHANGED <<th, flushing, planned>> /\ appCalls' \in 0..MaxAppCalls
    <3>1. CASE UNCHANGED vars
      BY <1>0, <1>9, <3>1, FilterAssumption DEF Pause, Run, AppCall, FilterTypeOK, vars, control
    <3>2. CASE InitPins
      BY <1>0, <1>9, <3>2, FilterAssumption, InitPinsEffect DEF Pause, Run, AppCall, FilterTypeOK
    <3> QED
      BY <1>9, <3>1, <3>2 DEF Pause, Run
  <2>2. /\ pinEOS' \in [Pins -> BOOLEAN] /\ pinFlush' \in [Pins -> BOOLEAN]
        /\ hSample' \in [Pins -> BOOLEAN] /\ hChange' \in [Pins -> BOOLEAN] /\ completes' \in Nat
    <3>1. CASE InitPins
      BY <3>1, InitPinsEffect, 0 \in Nat
    <3>2. CASE ~InitPins
      BY <1>0, <1>9, <3>2 DEF Pause, Run, FilterTypeOK
    <3> QED
      BY <3>1, <3>2
  <2>3. FilterTypeOK'
    BY <1>0, <1>9, <2>1, <2>2 DEF Pause, Run, FilterTypeOK
  <2>4. \A q \in Pins : th[q] \notin {"receive", "wait", "eos"}
    BY <2>1 DEF LockInv
  <2> QED
    BY <1>0, <2>1, <2>3, <2>4 DEF LockInv
<1>10. CASE Stop
  <2>1. /\ lock = "none" /\ lock' = "app" /\ pc' = "close" /\ closing'
        /\ UNCHANGED <<th, flushing, planned, streams, flushes, state, pinVars, events, completes>>
        /\ appCalls' \in 0..MaxAppCalls
    BY <1>0, <1>10, FilterAssumption DEF Stop, AppCall, Close, FilterTypeOK, setup, inputs
  <2>2. FilterTypeOK'
    BY <1>0, <2>1 DEF FilterTypeOK
  <2>3. \A q \in Pins : th[q] \notin {"receive", "wait", "eos"}
    BY <2>1 DEF LockInv
  <2> QED
    BY <1>0, <2>1, <2>2, <2>3 DEF LockInv
<1>11. CASE StopReturn
  <2>1. /\ lock = "app" /\ lock' = "none" /\ state' = "stopped" /\ pc = "idle"
        /\ UNCHANGED <<vars, th, flushing>>
    BY <1>11 DEF StopReturn
  <2>2. FilterTypeOK'
    BY <1>0, <1>11 DEF StopReturn, FilterTypeOK, vars, control
  <2>3. \A q \in Pins : th[q] \notin {"receive", "wait", "eos"}
    BY <2>1 DEF LockInv
  <2>4. ~closing
    BY <1>0, <2>1
  <2> QED
    BY <1>0, <2>1, <2>2, <2>3, <2>4 DEF LockInv, vars, control, inputs, setup
<1>12. CASE SetMuxMode
  <2>1. UNCHANGED filterVars /\ UNCHANGED <<streams, pc, ret, closing, flushes>>
    BY <1>12 DEF SetMuxMode, SetLiveMuxMode, control, inputs
  <2>2. FilterTypeOK'
    BY <1>0, <2>1 DEF FilterTypeOK, filterVars
  <2> QED
    BY <2>1, <2>2 DEF LockInv, filterVars
<1>13. CASE UNCHANGED allVars
  BY <1>0, <1>13 DEF LockInv, FilterTypeOK, allVars, vars, filterVars, control, inputs, setup
<1> QED
  BY <1>1, <1>2, <1>3, <1>4, <1>5, <1>6, <1>7, <1>8, <1>9, <1>10, <1>11, <1>12, <1>13
     DEF FilterNext, StreamingStep

-----------------------------------------------------------------------------
(***************************************************************************)
(* The end of the graph.                                                   *)
(***************************************************************************)

(* When both streams have ended and no thread is in the context, the file  *)
(* is finalised.                                                           *)
LEMMA EndedIsFinal ==
  ASSUME FilterInv, pc = "idle", streams # {}, VideoOver, AudioOver
  PROVE  finals = 1
<1>1. ~closing
  BY DEF FilterInv, LockInv, InClose, Draining, ClusterPCs
<1>2. ~open
  BY <1>1 DEF FilterInv, CompleteInv, Ending, Draining, ClusterPCs
<1> QED
  BY <1>2 DEF FilterInv, CompleteInv

(* The account of what has ended and what has been sent is kept.           *)
LEMMA CompleteStep ==
  ASSUME FilterInv, FullInv', LockInv', [FilterNext]_allVars
  PROVE  CompleteInv'
<1> USE DEF pinVars, events
<1>0. /\ FilterTypeOK /\ IInv /\ SealInv /\ LockInv /\ CompleteInv /\ streams \subseteq Pins
      /\ lock = "none" => pc = "idle"
      /\ pc = "idle" => ~closing /\ (VideoOver /\ AudioOver => ~open)
      /\ pc \in {"close", "detach"} => closing
      /\ closing => InClose
  BY DEF FilterInv, CompleteInv, LockInv, FilterTypeOK, FullInv, IInv, TypeOK, Pins, InClose,
         Draining, ClusterPCs, Ending
<1>1. CASE ContextStep
  <2>1. /\ InternalStep /\ pc # "idle"
        /\ UNCHANGED <<pinEOS, completes, th>>
    BY <1>0, <1>1, InsideContext DEF ContextStep, filterVars
  <2>2. /\ closing \/ UNCHANGED <<streams, eosVideo, eosAudio>>
        /\ closing' => closing
        /\ closing /\ ~closing' => streams' = {}
        /\ UNCHANGED streams \/ streams' = {}
        /\ UNCHANGED <<open, finals>> \/ Finalises
    BY <1>0, <2>1, InsideContext
  <2>3. (~closing => \A p \in streams : pinEOS[p] <=> EndedIn(p))'
    BY <1>0, <2>1, <2>2 DEF CompleteInv, EndedIn
  <2>4. (VideoOver /\ AudioOver /\ open => Ending \/ closing)'
    <3>1. CASE closing
      <4>1. streams' = {} => ~open'
        BY DEF FullInv, IInv, EndInv
      <4> QED
        BY <2>2, <3>1, <4>1
    <3>2. CASE ~closing
      <4>1. VideoOver /\ AudioOver /\ open => Ending \/ closing
        BY <1>0 DEF CompleteInv
      <4> QED
        BY <1>0, <2>1, <3>2, <4>1, EndingStep
    <3> QED
      BY <3>1, <3>2
  <2>5. (streams # {} /\ ~open => finals = 1)'
    BY <1>0, <2>2 DEF CompleteInv, Finalises, SealInv
  <2>6. CompleteOnce'
    <3>1. finals = 1 => finals' = 1
      BY <1>0, <2>2 DEF Finalises, SealInv
    <3>2. \A p \in streams' : p \in streams
      BY <2>2
    <3> QED
      BY <1>0, <2>1, <3>1, <3>2 DEF CompleteInv, CompleteOnce
  <2> QED
    BY <1>0, <2>1, <2>3, <2>4, <2>5, <2>6 DEF CompleteInv
<1>2. ASSUME UNCHANGED <<streams, open, eosVideo, eosAudio, finals, closing, completes, pinEOS>>,
             pc = "idle", \A p \in Pins : th'[p] = "eos" => th[p] = "eos"
      PROVE  CompleteInv'
  BY <1>0, <1>2 DEF CompleteInv, CompleteOnce, EndedIn, VideoOver, AudioOver
<1>3. ASSUME NEW p \in Pins, Receive(p) PROVE CompleteInv'
  <2>1. /\ pc = "idle" /\ UNCHANGED <<streams, open, eosVideo, eosAudio, finals, closing>>
    BY <1>3, ArrivalEffect DEF Receive
  <2> QED
    BY <1>0, <1>2, <1>3, <2>1 DEF Receive, FilterTypeOK
<1>4. ASSUME UNCHANGED <<vars, pinEOS, completes>>, \A p \in Pins : th'[p] = "eos" => th[p] = "eos"
      PROVE  CompleteInv'
  BY <1>0, <1>4 DEF CompleteInv, CompleteOnce, EndedIn, VideoOver, AudioOver, Ending, Draining,
     ClusterPCs, vars, sealed, eosVars, setup, control
<1>5. ASSUME NEW p \in Pins, NotifyOther(p) \/ WaitCheck(p) \/ Wake(p) \/ Reseize(p)
      PROVE  CompleteInv'
  BY <1>0, <1>4, <1>5 DEF NotifyOther, WaitCheck, Wake, Reseize, FilterTypeOK
<1>6. ASSUME NEW p \in Pins, EndOfStream(p) PROVE CompleteInv'
  <2>1. /\ pc = "idle" /\ p \in streams /\ ~pinEOS[p] /\ pinEOS' = [pinEOS EXCEPT ![p] = TRUE]
        /\ UNCHANGED <<streams, open, finals, closing, completes>>
        /\ IF p = "video" THEN NotifyVideoEOS ELSE NotifyAudioEOS
    BY <1>6 DEF EndOfStream, NotifyVideoEOS, NotifyAudioEOS, setup, sealed
  <2>2. completes # 1 /\ completes' # 1
    BY <1>0, <2>1 DEF CompleteInv, CompleteOnce
  <2>3. \A q \in Pins : EndedIn(q)' <=> EndedIn(q) \/ q = p
    BY <1>0, <2>1 DEF EndedIn, NotifyVideoEOS, NotifyAudioEOS, Pins, IInv, TypeOK
  <2>4. \A q \in streams' : pinEOS'[q] <=> EndedIn(q)'
    BY <1>0, <2>1, <2>3 DEF CompleteInv, FilterTypeOK
  <2>5. VideoOver' /\ AudioOver' /\ open' => pc' = "drain"
    BY <2>1 DEF NotifyVideoEOS, NotifyAudioEOS, AfterEOSFlag, VideoOver, AudioOver, setup, eosVars
  <2> QED
    BY <1>0, <2>1, <2>2, <2>4, <2>5 DEF CompleteInv, CompleteOnce, Ending, Draining
<1>7. ASSUME NEW p \in Pins, OnEndOfStream(p) PROVE CompleteInv'
  <2>1. /\ pc = "idle" /\ th[p] = "eos" /\ UNCHANGED <<vars, pinEOS>>
        /\ completes' = IF cEOS = 0 THEN completes + 1 ELSE completes
        /\ \A q \in Pins : th'[q] # "eos"
        /\ p \in streams
    BY <1>0, <1>7 DEF OnEndOfStream, LockInv, Inside, FilterTypeOK
  <2>2. completes = 0
    BY <1>0, <2>1 DEF CompleteInv, CompleteOnce, FilterTypeOK
  <2>3. ASSUME cEOS = 0 PROVE finals = 1 /\ \A q \in streams : pinEOS[q]
    <3>1. VideoOver /\ AudioOver
      BY <1>0, <2>3 DEF IInv, EndInv, StreamsToEnd
    <3>2. finals = 1
      BY <2>1, <3>1, EndedIsFinal
    <3>3. \A q \in streams : EndedIn(q)
      BY <1>0, <3>1 DEF VideoOver, AudioOver, EndedIn, Pins
    <3> QED
      BY <1>0, <2>1, <3>2, <3>3 DEF CompleteInv
  <2>4. CompleteOnce'
    BY <2>1, <2>2, <2>3 DEF CompleteOnce, vars, sealed, setup
  <2> QED
    BY <1>0, <2>1, <2>4 DEF CompleteInv, EndedIn, VideoOver, AudioOver, Ending, Draining, ClusterPCs,
       vars, sealed, eosVars, setup, control
<1>8. ASSUME NEW p \in Pins, BeginFlush(p) PROVE CompleteInv'
  <2>1. pc = "idle" /\ UNCHANGED <<th, pinEOS, completes>>
    BY <1>0, <1>8 DEF BeginFlush
  <2>2. UNCHANGED <<streams, open, eosVideo, eosAudio, finals, closing>>
    BY <1>8, <2>1, FlushEffect DEF BeginFlush
  <2> QED
    BY <1>2, <2>1, <2>2
<1>9. CASE BeginFlushReturn \/ (\E p \in Pins : EndFlush(p)) \/ StopReturn
  BY <1>4, <1>9 DEF BeginFlushReturn, EndFlush, StopReturn
<1>10. CASE Pause \/ Run
  <2>1. CASE InitPins
    <3>1. /\ pinEOS' = [p \in Pins |-> FALSE] /\ completes' = 0 /\ ~eosVideo' /\ ~eosAudio'
          /\ streams' \subseteq Pins /\ streams' # {} /\ open' /\ finals' = 0
      BY <2>1, InitPinsEffect
    <3>2. ~(VideoOver' /\ AudioOver')
      BY <3>1 DEF VideoOver, AudioOver, Pins
    <3> QED
      BY <3>1, <3>2 DEF CompleteInv, CompleteOnce, EndedIn
  <2>2. CASE ~InitPins
    <3>1. UNCHANGED <<vars, pinEOS, completes, th>>
      BY <1>10, <2>2 DEF Pause, Run, AppCall
    <3> QED
      BY <1>4, <3>1
  <2> QED
    BY <2>1, <2>2
<1>11. CASE Stop
  <2>1. /\ closing' /\ UNCHANGED <<streams, open, finals, th, pinEOS, completes>>
    BY <1>11 DEF Stop, AppCall, Close, setup, sealed
  <2> QED
    BY <1>0, <2>1 DEF CompleteInv, CompleteOnce
<1>12. CASE SetMuxMode
  <2>1. /\ pc = "idle" /\ UNCHANGED <<streams, open, eosVideo, eosAudio, finals, closing>>
        /\ UNCHANGED <<pinEOS, completes, th>>
    BY <1>12 DEF SetMuxMode, SetLiveMuxMode, eosVars, sealed, control, filterVars
  <2> QED
    BY <1>2, <2>1
<1>13. CASE UNCHANGED allVars
  BY <1>4, <1>13 DEF allVars, filterVars
<1> QED
  BY <1>1, <1>3, <1>5, <1>6, <1>7, <1>8, <1>9, <1>10, <1>11, <1>12, <1>13
     DEF FilterNext, StreamingStep

-----------------------------------------------------------------------------
(***************************************************************************)
(* The streams and the wake-ups, when upstream is orderly.                 *)
(***************************************************************************)

(* A thread that is not upstream keeps its stream until Stop has let it    *)
(* go, and a new session starts when every thread is upstream.             *)
LEMMA StreamStep ==
  ASSUME Orderly, FilterInv, LockInv', StreamInv, [FilterNext]_allVars
  PROVE  StreamInv'
<1> USE DEF pinVars, events
<1>0. /\ FilterTypeOK /\ IInv /\ LockInv
      /\ lock = "none" => pc = "idle"
      /\ pc \in {"close", "detach"} => closing
      /\ closing => lock = "app" /\ InClose
      /\ \A p \in Pins : th[p] # "upstream" => p \in streams \/ state = "stopped" \/ lock = "app"
  BY DEF FilterInv, LockInv, FilterTypeOK, FullInv, StreamInv
<1>1. CASE ContextStep
  <2>1. InternalStep /\ UNCHANGED <<th, state, lock>>
    BY <1>1 DEF ContextStep, filterVars
  <2>2. closing \/ UNCHANGED streams
    BY <1>0, <2>1, InsideContext
  <2> QED
    BY <1>0, <2>1, <2>2 DEF StreamInv
<1>2. ASSUME UNCHANGED <<streams, state>>, lock # "app",
             \A p \in Pins : th'[p] # "upstream" => th[p] # "upstream" \/ p \in streams
      PROVE  StreamInv'
  BY <1>0, <1>2 DEF StreamInv
<1>3. ASSUME NEW p \in Pins, Receive(p) PROVE StreamInv'
  <2>1. p \in streams /\ UNCHANGED streams
    BY <1>3, ArrivalEffect DEF Receive
  <2> QED
    BY <1>0, <1>2, <1>3, <2>1 DEF Receive, FilterTypeOK
<1>4. ASSUME NEW p \in Pins, NotifyOther(p) \/ WaitCheck(p) \/ Reseize(p) \/ OnEndOfStream(p)
      PROVE  StreamInv'
  <2>1. /\ th[p] # "upstream" /\ UNCHANGED <<vars, state>> /\ lock # "app"
        /\ \A q \in Pins : th'[q] # "upstream" => th[q] # "upstream"
    BY <1>0, <1>4 DEF NotifyOther, WaitCheck, Reseize, OnEndOfStream, FilterTypeOK, Pins
  <2> QED
    BY <1>2, <2>1 DEF vars, setup
<1>5. ASSUME NEW p \in Pins, Wake(p) PROVE StreamInv'
  <2>1. /\ UNCHANGED <<streams, state, lock>>
        /\ \A q \in Pins : th'[q] # "upstream" => th[q] # "upstream"
    BY <1>0, <1>5 DEF Wake, FilterTypeOK, vars, setup
  <2> QED
    BY <1>0, <2>1 DEF StreamInv
<1>6. ASSUME NEW p \in Pins, EndOfStream(p) PROVE StreamInv'
  <2>1. p \in streams /\ UNCHANGED <<streams, state>> /\ lock # "app"
    BY <1>6 DEF EndOfStream, NotifyVideoEOS, NotifyAudioEOS, setup
  <2> QED
    BY <1>0, <1>2, <1>6, <2>1 DEF EndOfStream, FilterTypeOK
<1>7. ASSUME NEW p \in Pins, BeginFlush(p) PROVE StreamInv'
  <2>1. UNCHANGED <<th, state>> /\ lock # "app" /\ pc = "idle"
    BY <1>0, <1>7 DEF BeginFlush
  <2>2. UNCHANGED streams
    BY <1>7, <2>1, FlushEffect DEF BeginFlush
  <2> QED
    BY <1>2, <2>1, <2>2
<1>8. CASE BeginFlushReturn \/ (\E p \in Pins : EndFlush(p))
  BY <1>2, <1>8 DEF BeginFlushReturn, EndFlush, vars, setup
<1>9. CASE Pause \/ Run
  <2>1. CASE InitPins
    <3>1. \A p \in Pins : th'[p] = "upstream"
      BY <1>9, <2>1 DEF Pause, Run, AppCall, InitPins
    <3> QED
      BY <3>1 DEF StreamInv
  <2>2. CASE ~InitPins
    <3>1. UNCHANGED <<streams, th>> /\ lock = "none" /\ state # "stopped"
      BY <1>9, <2>2 DEF Pause, Run, AppCall, vars, setup
    <3> QED
      BY <1>0, <3>1 DEF StreamInv
  <2> QED
    BY <2>1, <2>2
<1>10. CASE Stop \/ StopReturn
  BY <1>10 DEF Stop, StopReturn, StreamInv
<1>11. CASE SetMuxMode
  <2>1. UNCHANGED <<streams, state, th>> /\ lock # "app"
    BY <1>11 DEF SetMuxMode, SetLiveMuxMode, filterVars
  <2> QED
    BY <1>2, <2>1
<1>12. CASE UNCHANGED allVars
  BY <1>0, <1>12 DEF StreamInv, allVars, vars, filterVars, setup
<1> QED
  BY <1>1, <1>3, <1>4, <1>5, <1>6, <1>7, <1>8, <1>9, <1>10, <1>11, <1>12
     DEF FilterNext, StreamingStep

(* Whoever holds the lock sets the event of the thread it may let go.      *)
LEMMA WakeStep ==
  ASSUME Orderly, FilterInv, LockInv', WakeInv, [FilterNext]_allVars
  PROVE  WakeInv'
<1> USE DEF pinVars, events
<1>0. /\ FilterTypeOK /\ IInv /\ LockInv /\ flushes \in Nat
      /\ lock = "none" => pc = "idle"
      /\ pc \in {"close", "detach"} => closing
      /\ closing => lock = "app" /\ InClose
      /\ \A p \in Pins : Other(p) \in Pins /\ Other(p) # p
      /\ \A p \in Pins : th[p] = "blocked" =>
           hChange[p] \/ hSample[Other(p)] \/ Asleep(p) \/ Notifies(p)
  <2>1. FilterTypeOK /\ IInv /\ LockInv
    BY DEF FilterInv, LockInv, FullInv
  <2>2. flushes \in Nat
    BY <2>1, BoundsAssumption DEF IInv, TypeOK
  <2> QED
    BY <2>1, <2>2, TwoPins DEF LockInv, FilterTypeOK, WakeInv
<1>1. CASE ContextStep
  <2>1. InternalStep /\ pc # "idle" /\ lock # "none" /\ flushes' = flushes /\ UNCHANGED filterVars
    BY <1>0, <1>1, InsideContext DEF ContextStep
  <2>2. ASSUME NEW p \in Pins, th[p] = "blocked" PROVE Notifies(p) \/ flushes > 0
    <3>1. lock # p
      BY <1>0, <2>2 DEF LockInv, Inside
    <3>2. CASE lock = Other(p)
      BY <1>0, <2>1, <3>2 DEF LockInv, Inside, Notifies
    <3>3. lock \in {p, Other(p), "app", "flush"}
      BY <1>0, <2>1, <2>2, TwoPins DEF FilterTypeOK
    <3> QED
      BY <1>0, <3>1, <3>2, <3>3 DEF LockInv, Notifies
  <2>3. ASSUME NEW p \in Pins, th[p] = "blocked"
        PROVE  (hChange[p] \/ hSample[Other(p)] \/ Asleep(p) \/ Notifies(p))'
    BY <1>0, <2>1, <2>2, <2>3 DEF Asleep, Notifies, filterVars
  <2> QED
    BY <2>1, <2>3 DEF WakeInv, filterVars
<1>2. ASSUME NEW q \in Pins, NEW f \in {"receive", "eos"},
             lock = "none", th' = [th EXCEPT ![q] = f]
      PROVE  WakeInv'
  <2>1. ASSUME NEW p \in Pins, th'[p] = "blocked" PROVE Notifies(p)'
    <3>1. p # q
      BY <1>0, <1>2, <2>1 DEF FilterTypeOK
    <3>2. q = Other(p)
      BY <3>1, TwoPins
    <3> QED
      BY <1>0, <1>2, <3>2 DEF Notifies, FilterTypeOK
  <2> QED
    BY <2>1 DEF WakeInv
<1>3. ASSUME NEW q \in Pins, Receive(q) \/ EndOfStream(q) PROVE WakeInv'
  BY <1>2, <1>3 DEF Receive, EndOfStream
<1>4. ASSUME NEW q \in Pins, NotifyOther(q) \/ OnEndOfStream(q) PROVE WakeInv'
  <2>1. /\ hSample'[q] = TRUE /\ th'[q] # "blocked"
    BY <1>0, <1>4 DEF NotifyOther, OnEndOfStream, FilterTypeOK
  <2>2. ASSUME NEW p \in Pins, th'[p] = "blocked" PROVE hSample'[Other(p)]
    BY <2>1, <2>2, TwoPins
  <2> QED
    BY <2>2 DEF WakeInv
<1>5. ASSUME NEW q \in Pins, WaitCheck(q) PROVE WakeInv'
  <2>1. /\ UNCHANGED <<vars, state, pinVars, events>> /\ th[q] = "wait" /\ lock = q /\ lock' = "none"
        /\ th' = [th EXCEPT ![q] = IF MayReturn(q) THEN "upstream" ELSE "blocked"]
    BY <1>5 DEF WaitCheck
  <2>2. UNCHANGED <<streams, open, eosVideo, eosAudio, vframes, rframes, aframes, video, audio, flushes>>
    BY <2>1 DEF vars, setup, eosVars, queues, inputs
  <2>3. \A p \in Pins : Asleep(p)' <=> Asleep(p)
    BY <2>1, <2>2 DEF Asleep, StreamWaits, WaitVideo, WaitAudio, VideoOver, AudioOver, VT, AT
  <2>4. CASE th'[q] = "blocked"
    <3>1. ~MayReturn(q)
      BY <1>0, <2>1, <2>4 DEF FilterTypeOK
    <3>2. Asleep(q)
      BY <1>0, <3>1 DEF MayReturn, Asleep, FilterTypeOK
    <3>3. ASSUME NEW p \in Pins, p # q, th'[p] = "blocked"
          PROVE  hChange'[p] \/ hSample'[Other(p)] \/ Asleep(p)'
      <4>1. th[p] = "blocked" /\ Other(p) = q
        BY <1>0, <2>1, <3>3, TwoPins DEF FilterTypeOK
      <4>2. ~Notifies(p)
        BY <2>1, <4>1 DEF Notifies, Pins
      <4> QED
        BY <1>0, <2>1, <2>3, <4>1, <4>2
    <3> QED
      BY <2>3, <3>2, <3>3 DEF WakeInv
  <2>5. CASE th'[q] # "blocked"
    <3>1. ASSUME NEW p \in Pins, th'[p] = "blocked"
          PROVE  hChange'[p] \/ hSample'[Other(p)] \/ Asleep(p)'
      <4>1. th[p] = "blocked" /\ Other(p) = q
        BY <1>0, <2>1, <2>5, <3>1, TwoPins DEF FilterTypeOK
      <4>2. ~Notifies(p)
        BY <2>1, <4>1 DEF Notifies, Pins
      <4> QED
        BY <1>0, <2>1, <2>3, <4>1, <4>2
    <3> QED
      BY <3>1 DEF WakeInv
  <2> QED
    BY <2>4, <2>5
<1>6. ASSUME UNCHANGED <<vars, state>>, lock' = lock,
             \A p \in Pins :
               /\ th[p] \in {"receive", "eos"} => th'[p] = th[p]
               /\ th'[p] = "blocked" =>
                    /\ th[p] = "blocked" /\ pinFlush'[p] = pinFlush[p]
                    /\ hChange[p] => hChange'[p]
                    /\ hSample[Other(p)] => hSample'[Other(p)]
      PROVE  WakeInv'
  <2>1. UNCHANGED <<streams, open, eosVideo, eosAudio, vframes, rframes, aframes, video, audio, flushes>>
    BY <1>6 DEF vars, setup, eosVars, queues, inputs
  <2>2. ASSUME NEW p \in Pins, th'[p] = "blocked" PROVE Asleep(p) => Asleep(p)'
    BY <1>6, <2>1, <2>2 DEF Asleep, StreamWaits, WaitVideo, WaitAudio, VideoOver, AudioOver, VT, AT
  <2>3. ASSUME NEW p \in Pins PROVE Notifies(p) => Notifies(p)'
    BY <1>0, <1>6 DEF Notifies
  <2> QED
    BY <1>0, <1>6, <2>2, <2>3 DEF WakeInv
<1>7. ASSUME NEW q \in Pins, Wake(q) PROVE WakeInv'
  <2>1. /\ UNCHANGED <<vars, state, lock, pinFlush>> /\ th[q] = "blocked"
        /\ th' = [th EXCEPT ![q] = "seize"]
        /\ hChange' \in {hChange, [hChange EXCEPT ![q] = FALSE]}
        /\ hSample' \in {hSample, [hSample EXCEPT ![Other(q)] = FALSE]}
    BY <1>7 DEF Wake
  <2>2. ASSUME NEW p \in Pins, th'[p] = "blocked"
        PROVE  /\ th[p] = "blocked"
               /\ hChange[p] => hChange'[p]
               /\ hSample[Other(p)] => hSample'[Other(p)]
    BY <1>0, <2>1, <2>2, TwoPins DEF FilterTypeOK
  <2>3. ASSUME NEW p \in Pins PROVE th[p] \in {"receive", "eos"} => th'[p] = th[p]
    BY <1>0, <2>1, <2>3 DEF FilterTypeOK
  <2> QED
    BY <1>0, <1>6, <2>1, <2>2, <2>3
<1>8. ASSUME NEW q \in Pins, EndFlush(q) PROVE WakeInv'
  <2>1. /\ UNCHANGED <<vars, state, lock, th, hSample>> /\ th[q] = "upstream"
        /\ hChange' = [hChange EXCEPT ![q] = FALSE] /\ pinFlush' = [pinFlush EXCEPT ![q] = FALSE]
    BY <1>8 DEF EndFlush
  <2>2. ASSUME NEW p \in Pins, th'[p] = "blocked"
        PROVE  pinFlush'[p] = pinFlush[p] /\ hChange'[p] = hChange[p]
    BY <1>0, <2>1, <2>2 DEF FilterTypeOK
  <2> QED
    BY <1>6, <2>1, <2>2
<1>9. ASSUME NEW q \in Pins, Reseize(q) PROVE WakeInv'
  <2>1. /\ UNCHANGED <<vars, state, pinVars, events>> /\ th' = [th EXCEPT ![q] = "wait"]
        /\ lock = "none" /\ th[q] = "seize"
    BY <1>9 DEF Reseize
  <2>2. UNCHANGED <<streams, open, eosVideo, eosAudio, vframes, rframes, aframes, video, audio, flushes>>
    BY <2>1 DEF vars, setup, eosVars, queues, inputs
  <2>3. \A p \in Pins : Asleep(p)' <=> Asleep(p)
    BY <2>1, <2>2 DEF Asleep, StreamWaits, WaitVideo, WaitAudio, VideoOver, AudioOver, VT, AT
  <2>4. \A p \in Pins : Notifies(p) => Notifies(p)'
    BY <1>0, <2>1 DEF Notifies, FilterTypeOK
  <2>5. \A p \in Pins : th'[p] = "blocked" => th[p] = "blocked"
    BY <1>0, <2>1 DEF FilterTypeOK
  <2> QED
    BY <1>0, <2>1, <2>3, <2>4, <2>5 DEF WakeInv
<1>10. ASSUME NEW q \in Pins, BeginFlush(q) PROVE WakeInv'
  <2>1. pc = "idle" /\ lock = "none" /\ UNCHANGED <<th, state, pinFlush, hChange, hSample>>
    BY <1>0, <1>10 DEF BeginFlush
  <2>2. flushes' = flushes + 1
    BY <1>10, <2>1, FlushEffect DEF BeginFlush
  <2>3. \A p \in Pins : Asleep(p) => Asleep(p)'
    BY <1>0, <2>1, <2>2 DEF Asleep
  <2>4. \A p \in Pins : Notifies(p) => Notifies(p)'
    BY <2>1 DEF Notifies
  <2> QED
    BY <1>0, <2>1, <2>3, <2>4 DEF WakeInv
<1>11. CASE BeginFlushReturn
  <2>1. /\ UNCHANGED <<vars, state, th, hSample>> /\ lock = "flush" /\ lock' = "none"
        /\ pinFlush' = [pinFlush EXCEPT ![flushing] = TRUE]
        /\ hChange' = [hChange EXCEPT ![flushing] = TRUE]
    BY <1>11 DEF BeginFlushReturn
  <2>2. UNCHANGED <<streams, open, eosVideo, eosAudio, vframes, rframes, aframes, video, audio, flushes>>
    BY <2>1 DEF vars, setup, eosVars, queues, inputs
  <2>3. ASSUME NEW p \in Pins, p # flushing PROVE (Asleep(p) => Asleep(p)') /\ hChange'[p] = hChange[p]
    BY <1>0, <2>1, <2>2, <2>3
       DEF Asleep, StreamWaits, WaitVideo, WaitAudio, VideoOver, AudioOver, VT, AT, FilterTypeOK
  <2>4. ASSUME NEW p \in Pins, p = flushing PROVE hChange'[p]
    BY <1>0, <2>1, <2>4 DEF FilterTypeOK
  <2>5. \A p \in Pins : Notifies(p) => Notifies(p)'
    BY <2>1 DEF Notifies
  <2> QED
    BY <1>0, <2>1, <2>3, <2>4, <2>5 DEF WakeInv
<1>12. CASE Pause \/ Run
  <2>1. CASE InitPins
    <3>1. \A p \in Pins : th'[p] = "upstream"
      BY <1>12, <2>1 DEF Pause, Run, AppCall, InitPins
    <3> QED
      BY <3>1 DEF WakeInv
  <2>2. CASE Run /\ ~InitPins
    BY <2>2 DEF Run, WakeInv
  <2>3. CASE Pause /\ ~InitPins
    <3>1. /\ UNCHANGED <<vars, pinFlush, hSample, hChange, th, lock>> /\ state' = "paused"
      BY <2>3 DEF Pause, AppCall
    <3>2. ASSUME NEW p \in Pins PROVE (Asleep(p) => Asleep(p)') /\ (Notifies(p) => Notifies(p)')
      BY <3>1 DEF Asleep, Notifies
    <3> QED
      BY <1>0, <3>1, <3>2 DEF WakeInv
  <2> QED
    BY <1>12, <2>1, <2>2, <2>3
<1>13. CASE Stop
  BY <1>13 DEF Stop, WakeInv, Notifies
<1>14. CASE StopReturn
  BY <1>14 DEF StopReturn, WakeInv
<1>15. CASE SetMuxMode
  <2>1. /\ state = "stopped" /\ UNCHANGED filterVars
    BY <1>15 DEF SetMuxMode
  <2>2. \A p \in Pins : ~Asleep(p) /\ (Notifies(p) => Notifies(p)')
    BY <2>1 DEF Asleep, Notifies, filterVars
  <2> QED
    BY <1>0, <2>1, <2>2 DEF WakeInv, filterVars
<1>16. CASE UNCHANGED allVars
  BY <1>6, <1>16 DEF allVars, filterVars
<1> QED
  BY <1>1, <1>3, <1>4, <1>5, <1>7, <1>8, <1>9, <1>10, <1>11, <1>12, <1>13, <1>14, <1>15, <1>16
     DEF FilterNext, StreamingStep

-----------------------------------------------------------------------------
(***************************************************************************)
(* The theorems.                                                           *)
(***************************************************************************)

(* The invariant of the filter and the interleaver inside it holds in      *)
(* every reachable state, orderly upstream or not.                         *)
THEOREM FilterInvariance == FilterSpec => []FilterInv
<1>1. FilterInit => FilterInv
  BY FilterInitInv
<1>2. FilterInv /\ [FilterNext]_allVars => FilterInv'
  <2> SUFFICES ASSUME FilterInv, [FilterNext]_allVars PROVE FilterInv'
    OBVIOUS
  <2>1. FullInv'
    BY ContextStepInv DEF FilterInv
  <2>2. LockInv'
    BY <2>1, LockStep DEF FilterInv
  <2>3. CompleteInv'
    BY <2>1, <2>2, CompleteStep
  <2> QED
    BY <2>1, <2>2, <2>3 DEF FilterInv
<1> QED
  BY <1>1, <1>2, PTL DEF FilterSpec

(* Every variable of the filter holds a value of its type, and the context *)
(* is entered only with the lock.                                          *)
THEOREM FilterTypeCorrect == FilterSpec => []FilterTypeOK
<1>1. FilterInv => FilterTypeOK
  BY DEF FilterInv, LockInv
<1> QED
  BY <1>1, FilterInvariance, PTL

(* What is proved of the interleaver alone holds of the filter around it.  *)
THEOREM FilterKeepsContext ==
  FilterSpec => [](FramesKept /\ PointersValid /\ FinalisedOnce /\ NoMutualWait)
<1>1. FilterInv => FramesKept /\ PointersValid /\ FinalisedOnce /\ NoMutualWait
  BY FinalisedOnceHolds, WaitsExclude DEF FilterInv, FullInv, IInv
<1> QED
  BY <1>1, FilterInvariance, PTL

(* EC_COMPLETE is sent at most once a session, for a complete file.        *)
THEOREM CompletesOnce == FilterSpec => []CompleteOnce
<1>1. FilterInv => CompleteOnce
  BY DEF FilterInv, CompleteInv
<1> QED
  BY <1>1, FilterInvariance, PTL

(* With an orderly upstream, no thread uses a stream that Stop deleted,    *)
(* however long it was blocked.                                            *)
THEOREM StreamsStayAlive == Orderly => (FilterSpec => []StreamAlive)
<1> SUFFICES ASSUME Orderly PROVE FilterSpec => []StreamAlive
  OBVIOUS
<1>1. FilterInit => StreamInv
  BY FilterInitInv
<1>2. FilterInv /\ FilterInv' /\ StreamInv /\ [FilterNext]_allVars => StreamInv'
  BY StreamStep DEF FilterInv
<1>3. FilterInv /\ StreamInv => StreamAlive
  <2> SUFFICES ASSUME FilterInv, StreamInv, NEW p \in Pins, lock = p,
                      pc # "idle" \/ th[p] = "receive" \/ (th[p] = "wait" /\ state = "running")
               PROVE  p \in streams
    BY DEF StreamAlive, FilterInv, LockInv
  <2>1. Inside(p) /\ p # "app"
    BY DEF FilterInv, LockInv, Pins
  <2>2. CASE th[p] \in {"receive", "eos"}
    BY <2>2 DEF FilterInv, LockInv
  <2>3. CASE th[p] = "wait"
    <3>1. pc = "idle"
      BY <2>3 DEF FilterInv, LockInv
    <3> QED
      BY <2>1, <2>3, <3>1 DEF StreamInv
  <2> QED
    BY <2>1, <2>2, <2>3 DEF Inside
<1> QED
  BY <1>1, <1>2, <1>3, FilterInvariance, PTL DEF FilterSpec

(* With an orderly upstream, no wake-up of a blocked thread is lost.       *)
THEOREM WakeupsAreKept == Orderly => (FilterSpec => []NoLostWakeup)
<1> SUFFICES ASSUME Orderly PROVE FilterSpec => []NoLostWakeup
  OBVIOUS
<1>1. FilterInit => WakeInv
  BY FilterInitInv
<1>2. FilterInv /\ FilterInv' /\ WakeInv /\ [FilterNext]_allVars => WakeInv'
  BY WakeStep DEF FilterInv
<1>3. FilterInv /\ WakeInv => NoLostWakeup
  <2> SUFFICES ASSUME FilterInv, WakeInv, NEW p \in Pins, th[p] = "blocked", lock = "none",
                      \/ pinFlush[p] \/ state = "stopped"
                      \/ state = "running" /\ ~StreamWaits(p) /\ flushes = 0
               PROVE  hChange[p] \/ hSample[Other(p)]
    BY DEF NoLostWakeup
  <2>1. ~Notifies(p)
    BY TwoPins DEF FilterInv, LockInv, Inside, Notifies, Pins
  <2>2. ~Asleep(p)
    BY DEF Asleep
  <2> QED
    BY <2>1, <2>2 DEF WakeInv
<1> QED
  BY <1>1, <1>2, <1>3, FilterInvariance, PTL DEF FilterSpec

=============================================================================
