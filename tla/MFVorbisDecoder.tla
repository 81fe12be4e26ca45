--------------------------- MODULE MFVorbisDecoder ---------------------------
(***************************************************************************)
(* The Media Foundation Vorbis decoder (src/mediafoundation/webmmfvorbisdec*)
(* and src/common/vorbisdecoder.cc): packets in, blocks of samples out in  *)
(* the number of channels and the format the pipeline chose.               *)
(*                                                                         *)
(* A block is one sample of every channel and is known by its place in the *)
(* stream.  What a block holds is abstracted to the speaker of each of its *)
(* channels, and an output channel to the speakers that were mixed into it.*)
(* Every entry point but the flush takes the lock and runs to its end.     *)
(***************************************************************************)
EXTENDS Integers, Sequences

CONSTANTS
  Channels,        \* channels the input may have
  Renegotiates,    \* the pipeline may set the types a second time
  Rate, Ticks,     \* blocks in a second, units of time in a second
  PacketSizes,     \* blocks of a packet, all packets but the first of a stream
  MaxPackets,      \* packets of a sample
  Capacity,        \* blocks of an output buffer: a second, rounded up
  Positions,       \* bound: blocks the stream may be entered at
  StreamEnd        \* bound: blocks of the stream

ASSUME ChannelsAssumption == Channels \subseteq 1..8 /\ Renegotiates \in BOOLEAN
ASSUME RateAssumption     == {Rate, Ticks, Capacity, MaxPackets} \subseteq Nat \ {0}
ASSUME VbBounds           ==
  /\ PacketSizes \subseteq Nat \ {0} /\ Positions \subseteq Nat /\ StreamEnd \in Nat
  /\ \A n \in PacketSizes : n * MaxPackets <= Capacity

VARIABLES
  inChannels,   \* channels of m_input_mediatype, 0: not set
  outFormat,    \* m_output_mediatype: <<channels, float>>, <<>>: not set
  post,         \* m_post_process_samples
  samples,      \* m_mf_input_samples: [at, n, bad], place, blocks, a packet is refused
  pcm,          \* m_output_samples, as the places of its blocks
  decodeStart,  \* m_decode_start_time, -1: none
  total,        \* m_total_samples_decoded
  startTime,    \* m_start_time
  next,         \* place the source's next sample starts at
  out,          \* the last output: [at, first, channels], <<>>: none
  failed        \* a packet was refused since the last flush

vbFormat == <<inChannels, outFormat, post>>
vbTimes  == <<decodeStart, total, startTime>>
vbVars   == <<vbFormat, samples, pcm, vbTimes, next, out, failed>>

VbInit ==
  /\ inChannels = 0 /\ outFormat = <<>> /\ post = FALSE
  /\ samples = <<>> /\ pcm = <<>>
  /\ decodeStart = -1 /\ total = 0 /\ startTime = 0
  /\ next = 0 /\ out = <<>> /\ failed = FALSE

-----------------------------------------------------------------------------
(* The speakers of a Vorbis block, in the order libvorbis gives them.      *)
VorbisOrder(c) ==
  CASE c = 1 -> <<"FC">>
    [] c = 2 -> <<"FL", "FR">>
    [] c = 3 -> <<"FL", "FC", "FR">>
    [] c = 4 -> <<"FL", "FR", "BL", "BR">>
    [] c = 5 -> <<"FL", "FC", "FR", "BL", "BR">>
    [] c = 6 -> <<"FL", "FC", "FR", "BL", "BR", "LFE">>
    [] c = 7 -> <<"FL", "FC", "FR", "SL", "SR", "BC", "LFE">>
    [] c = 8 -> <<"FL", "FC", "FR", "SL", "SR", "BL", "BR", "LFE">>

(* (Mutated form: the blocks stay in the order of libvorbis.)              *)
InterleaveBlock(c) == VorbisOrder(c)

(* ReorderAndInterleaveBlock_ takes the speakers from these places.        *)
ReorderAndInterleaveBlock(c) ==
  LET from == CASE c = 3 -> <<1, 3, 2>>
                [] c = 5 -> <<1, 3, 2, 4, 5>>
                [] c = 6 -> <<1, 3, 2, 6, 4, 5>>
                [] c = 7 -> <<1, 3, 2, 7, 6, 4, 5>>
                [] c = 8 -> <<1, 3, 2, 8, 6, 7, 4, 5>>
                [] OTHER -> [i \in 1..c |-> i]
  IN [i \in 1..c |-> VorbisOrder(c)[from[i]]]

(* The speakers of the channels of an output, as the channel mask of its   *)
(* type gives them.                                                        *)
GetChannelMask(c) ==
  CASE c = 1 -> <<"FC">>
    [] c = 2 -> <<"FL", "FR">>
    [] c = 3 -> <<"FL", "FR", "FC">>
    [] c = 4 -> <<"FL", "FR", "BL", "BR">>
    [] c = 5 -> <<"FL", "FR", "FC", "BL", "BR">>
    [] c = 6 -> <<"FL", "FR", "FC", "LFE", "BL", "BR">>
    [] c = 7 -> <<"FL", "FR", "FC", "LFE", "BC", "SL", "SR">>
    [] c = 8 -> <<"FL", "FR", "FC", "LFE", "BL", "BR", "SL", "SR">>

(* The places PostProcessSamples mixes into the left and the right channel.*)
StereoMix(c) ==
  CASE c = 3 -> <<{1, 3}, {2, 3}>>
    [] c = 4 -> <<{1, 3, 4}, {2, 3, 4}>>
    [] c = 5 -> <<{1, 3, 4}, {2, 3, 5}>>
    [] c = 6 -> <<{1, 3, 4, 5}, {2, 3, 4, 6}>>
    [] c = 7 -> <<{1, 3, 4, 5, 7}, {2, 3, 4, 6, 7}>>
    [] c = 8 -> <<{1, 3, 4, 5, 7}, {2, 3, 4, 6, 8}>>

(* PostProcessSamples: what an output channel gets of a block, the stereo  *)
(* mix, the first six channels, its own, or what was in the buffer before. *)
PostProcessSamples(block, width, float) ==
  LET c == Len(block) IN
  [i \in 1..width |->
     CASE width < c /\ width = 2  -> {block[j] : j \in StereoMix(c)[i]}
       [] width < c /\ width = 6  -> {block[i]}
       [] width = c /\ ~float     -> {block[i]}
       [] OTHER                   -> {}]

(* ProcessLibVorbisOutput copies the blocks to the buffer, or by way of a  *)
(* buffer of its own.                                                      *)
ProcessLibVorbisOutput ==
  LET block == ReorderAndInterleaveBlock(inChannels) IN
  IF post THEN PostProcessSamples(block, outFormat[1], outFormat[2])
  ELSE [i \in DOMAIN block |-> {block[i]}]

-----------------------------------------------------------------------------
(* SetInputType creates the decoder, anew when there was one: the samples  *)
(* that are queued and its output go, the times and the output type stay.  *)
(* The pipeline does not change the type of a stream that has begun (``I   *)
(* don't think we can change media types while we're playing'').           *)
VbSetInputType ==
  /\ decodeStart < 0 /\ samples = <<>>
  /\ Renegotiates \/ inChannels = 0
  /\ inChannels' \in Channels
  /\ samples' = <<>> /\ pcm' = <<>>
  /\ UNCHANGED <<outFormat, post, vbTimes, next, out, failed>>

(* SetInputType with no type forgets the output type as well.              *)
VbClearInputType ==
  /\ decodeStart < 0 /\ inChannels > 0
  /\ inChannels' = 0 /\ outFormat' = <<>>
  /\ samples' = <<>> /\ pcm' = <<>>
  /\ UNCHANGED <<post, vbTimes, next, out, failed>>

(* The types GetOutputMediaType offers for an input.                       *)
OutputTypes(c) ==
  ({c} \cup (IF c > 2 THEN {2} ELSE {}) \cup (IF c > 6 THEN {6} ELSE {})) \X BOOLEAN

(* SetOutputType: m_post_process_samples is set and never cleared.         *)
VbSetOutputType ==
  /\ inChannels > 0
  /\ Renegotiates \/ (outFormat = <<>> /\ ~post)
  /\ outFormat' \in OutputTypes(inChannels)
  /\ post' = (post \/ outFormat'[1] # inChannels \/ ~outFormat'[2])
  /\ UNCHANGED <<inChannels, samples, pcm, vbTimes, next, out, failed>>

(* ProcessInput queues a sample.  The source's samples follow each other   *)
(* without a gap; the first packet since libvorbis was created or restarted*)
(* gives no block, and the last packet may be one that it refuses.  A      *)
(* sample is known by its place and the blocks of the packets before that. *)
VbProcessInput ==
  /\ inChannels > 0 /\ Len(samples) < 2
  /\ \E count \in 1..MaxPackets, n \in PacketSizes, bad \in BOOLEAN :
       LET silent    == IF decodeStart < 0 /\ samples = <<>> THEN 1 ELSE 0
           blocks(k) == n * (IF k = 0 THEN 0 ELSE k - silent)
           good      == IF bad THEN count - 1 ELSE count
       IN /\ samples' = Append(samples, [at |-> next, n |-> blocks(good), bad |-> bad])
          /\ next' = next + blocks(count)
          /\ next' <= StreamEnd
  /\ UNCHANGED <<vbFormat, pcm, vbTimes, out, failed>>

(* DecodeVorbisFormat2Sample: the places of the blocks a sample gives.     *)
Decoded(s) == [i \in 1..s.n |-> s.at + i - 1]

(* A packet is refused: the sample stays at the front, and the packets     *)
(* before it have been decoded.                                            *)
VbDecodeFails ==
  /\ samples # <<>> /\ outFormat # <<>> /\ ~failed
  /\ Head(samples).bad
  /\ pcm' = pcm \o Decoded(Head(samples))
  /\ failed' = TRUE
  /\ UNCHANGED <<vbFormat, samples, vbTimes, next, out>>

SamplesToMediaTime(n) == (n * Ticks) \div Rate

(* The output buffer is filled with what there is and with what fits.      *)
(* (Mutated form: the times of the buffers are added up.)                  *)
FillAddingUp(places, start, counted, sum) ==
  LET n == IF Len(places) < Capacity THEN Len(places) ELSE Capacity IN
  IF n = 0
  THEN pcm' = <<>> /\ total' = counted /\ startTime' = sum /\ UNCHANGED out
  ELSE /\ pcm' = SubSeq(places, n + 1, Len(places))
       /\ total' = counted + n
       /\ startTime' = sum + SamplesToMediaTime(n)
       /\ out' = [at |-> sum, first |-> places[1], channels |-> ProcessLibVorbisOutput]

(* Times are counted in blocks from the time of the first sample.          *)
Fill(places, start, counted, sum) ==
  LET n == IF Len(places) < Capacity THEN Len(places) ELSE Capacity IN
  IF n = 0
  THEN pcm' = <<>> /\ total' = counted /\ startTime' = sum /\ UNCHANGED out
  ELSE /\ pcm' = SubSeq(places, n + 1, Len(places))
       /\ total' = counted + n
       /\ startTime' = start + SamplesToMediaTime(counted + n)
       /\ out' = [at |-> sum, first |-> places[1], channels |-> ProcessLibVorbisOutput]

(* ProcessOutput decodes the front sample and fills one output buffer.  The*)
(* time of the first sample since the flush is the time of the output.     *)
VbProcessOutput ==
  /\ samples # <<>> /\ outFormat # <<>>
  /\ LET begins == decodeStart < 0
         time   == SamplesToMediaTime(Head(samples).at)
         start  == IF begins THEN time ELSE decodeStart
     IN /\ ~Head(samples).bad
        /\ Fill(pcm \o Decoded(Head(samples)), start,
                IF begins THEN 0 ELSE total, IF begins THEN time ELSE startTime)
        /\ decodeStart' = start
  /\ samples' = Tail(samples)
  /\ UNCHANGED <<vbFormat, next, failed>>

(* MFT_MESSAGE_COMMAND_FLUSH; the source goes on at another place.         *)
VbFlush ==
  /\ decodeStart >= 0 \/ samples # <<>>
  /\ decodeStart' = -1 /\ samples' = <<>> /\ pcm' = <<>>
  /\ next' \in Positions /\ failed' = FALSE /\ out' = <<>>
  /\ UNCHANGED <<vbFormat, total, startTime>>

-----------------------------------------------------------------------------
VbNext ==
  \/ VbSetInputType \/ VbClearInputType \/ VbSetOutputType
  \/ VbProcessInput \/ VbDecodeFails \/ VbProcessOutput \/ VbFlush

VbSpec == VbInit /\ [][VbNext]_vbVars

-----------------------------------------------------------------------------
(* The times of the output do not drift: however many buffers were filled  *)
(* since the last flush, a buffer has the time its first block has in the  *)
(* stream, to within one unit, though each buffer's duration is rounded.   *)
OutputTimes ==
  out # <<>> /\ ~failed =>
    SamplesToMediaTime(out.first) - out.at \in {0, 1}

(* What reaches a speaker comes from its own side or the middle: the order *)
(* libvorbis uses, the order of the blocks, the mix and the channel mask   *)
(* of the output type fit together, whatever the type.                     *)
Left  == {"FL", "BL", "SL"}
Right == {"FR", "BR", "SR"}

OwnSide ==
  out # <<>> =>
    \A i \in DOMAIN out.channels :
      LET speaker == GetChannelMask(Len(out.channels))[i] IN
      /\ out.channels[i] # {}
      /\ speaker \in Left  => out.channels[i] \cap Right = {}
      /\ speaker \in Right => out.channels[i] \cap Left = {}

(* What leaves the transform has the right time and the right channels.    *)
OutputSound == OutputTimes /\ OwnSide

=============================================================================
