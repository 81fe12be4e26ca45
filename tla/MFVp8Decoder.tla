---------------------------- MODULE MFVp8Decoder ----------------------------
(***************************************************************************)
(* The Media Foundation VP8 decoder (src/mediafoundation/webmmfvp8dec): a  *)
(* transform the pipeline feeds samples and asks for pictures, with the    *)
(* quality control that leaves out pictures when the renderer is late.     *)
(*                                                                         *)
(* A sample holds one or more frames; frames are numbered in the order of  *)
(* the input since the last flush, so that a sample is the number of its   *)
(* first frame, how many it has, and its two attributes.  Every entry      *)
(* point but ProcessMessage takes the lock; each pass through the loop of  *)
(* ProcessOutput is an action, and only a flush comes in between.          *)
(***************************************************************************)
EXTENDS Integers, Sequences

CONSTANTS
  Counts,      \* numbers of frames a sample may have
  Lags,        \* how many frames late the renderer may report a sample to be
  LagWindow,   \* reports that are averaged: 16
  MaxFrames,   \* bound: frames between two flushes
  MaxAdvice    \* bound: reports, changes of rate and of drop mode

ASSUME CountsAssumption == Counts \subseteq Nat \ {0}
ASSUME LagsAssumption   == Lags \subseteq Nat /\ LagWindow \in Nat \ {0}
ASSUME Vp8Bounds        == MaxFrames \in Nat /\ MaxAdvice \in Nat

VARIABLES
  inType, outType,   \* m_pInputMediaType, m_pOutputMediaType # 0
  queue, dwBuffer,   \* m_samples; dwBuffer of its front
  codec,             \* last frame m_ctx decoded, 0: none since it was created or flushed
  rate, thin,        \* m_rate, m_bThin
  dropMode, budget,  \* m_drop_mode, m_drop_budget
  lagSum, lagCount, lagFrames,  \* m_lag_sum, m_lag_count, m_lag_frames
  busy,              \* ProcessOutput has the lock
  came,              \* frames that came in since the last flush
  damaged,           \* a frame was lost to an error since then
  gap,               \* pictures rendered since one was left out, 16: that or more
  advice             \* reports, changes of rate and of drop mode so far

types   == <<inType, outType>>
input   == <<queue, dwBuffer, came>>
lag     == <<lagSum, lagCount, lagFrames>>
drop    == <<dropMode, budget, gap>>
vp8Vars == <<types, input, codec, rate, thin, drop, lag, busy, damaged, advice>>

Vp8Init ==
  /\ inType = FALSE /\ outType = FALSE
  /\ queue = <<>> /\ dwBuffer = 0 /\ codec = 0 /\ came = 0
  /\ rate = 1 /\ thin = FALSE
  /\ dropMode = 0 /\ budget = 0 /\ gap = 16
  /\ lagSum = 0 /\ lagCount = 0 /\ lagFrames = 0
  /\ busy = FALSE /\ damaged = FALSE /\ advice = 0

-----------------------------------------------------------------------------
(* SetInputType creates the codec anew and forgets the output type; the    *)
(* samples that are queued stay.  While there are any, the pipeline does   *)
(* not call it (the TODOs there leave that case open).                     *)
SetInputType ==
  /\ ~busy /\ queue = <<>>
  /\ inType' \in BOOLEAN
  /\ outType' = FALSE /\ codec' = 0 /\ came' = 0 /\ damaged' = FALSE
  /\ UNCHANGED <<queue, dwBuffer, rate, thin, drop, lag, busy, advice>>

SetOutputType ==
  /\ ~busy /\ inType /\ outType' = TRUE
  /\ UNCHANGED <<inType, input, codec, rate, thin, drop, lag, busy, damaged, advice>>

(* A key frame, or a sample that comes first, is alone or leads its sample.*)
ProcessInput ==
  /\ ~busy /\ inType /\ outType
  /\ \E n \in Counts, key, preroll \in BOOLEAN :
       /\ came + n <= MaxFrames
       /\ came = 0 => key
       /\ queue' = Append(queue, [first |-> came + 1, n |-> n, key |-> key,
                                  preroll |-> preroll])
       /\ came' = came + n
  /\ UNCHANGED <<types, dwBuffer, codec, rate, thin, drop, lag, busy, damaged, advice>>

(* MFT_MESSAGE_COMMAND_FLUSH, without the lock: the samples go, the codec  *)
(* and the drop budget stay.  The stream goes on with a key frame.         *)
Flush ==
  /\ inType /\ came > 0
  /\ queue' = <<>> /\ dwBuffer' = 0 /\ came' = 0 /\ codec' = 0 /\ damaged' = FALSE
  /\ UNCHANGED <<types, rate, thin, drop, lag, busy, advice>>

-----------------------------------------------------------------------------
(* ProcessOutput takes the lock and calls Decode until it has a picture,   *)
(* an error, or no sample.                                                 *)
ProcessOutput ==
  /\ ~busy /\ inType /\ outType
  /\ busy' = TRUE
  /\ UNCHANGED <<types, input, codec, rate, thin, drop, lag, damaged, advice>>

NeedMoreInput ==
  /\ busy /\ queue = <<>>
  /\ busy' = FALSE
  /\ UNCHANGED <<types, input, codec, rate, thin, drop, lag, damaged, advice>>

FrontSample == Head(queue)
Frame == FrontSample.first + dwBuffer
Whole == FrontSample.first + FrontSample.n - 1

(* ReplenishDropBudget: in mode d, 1 << (5 - d).                           *)
Share == <<16, 8, 4, 2>>

Replenished == IF dropMode \in 1..4 THEN Share[dropMode] ELSE 0

(* A preroll sample: DecodeAll, and no picture.                            *)
DecodePreroll ==
  /\ busy /\ queue # <<>> /\ FrontSample.preroll
  /\ queue' = Tail(queue) /\ dwBuffer' = 0
  /\ codec' = Whole
  /\ budget' = Replenished /\ gap' = 16
  /\ UNCHANGED <<types, came, rate, thin, dropMode, lag, busy, damaged,
                 advice>>

(* DecodeOne consumes a buffer, and the sample with its last.              *)
Consume ==
  IF dwBuffer + 1 >= FrontSample.n
  THEN queue' = Tail(queue) /\ dwBuffer' = 0
  ELSE dwBuffer' = dwBuffer + 1 /\ UNCHANGED queue

(* The codec refuses a frame: the sample is dropped, with the frames it    *)
(* still has, and ProcessOutput fails.                                     *)
DecodeFails ==
  /\ busy /\ queue # <<>>
  /\ queue' = Tail(queue) /\ dwBuffer' = 0
  /\ damaged' = TRUE /\ busy' = FALSE
  /\ UNCHANGED <<types, came, codec, rate, thin, drop, lag, advice>>

(* What Decode leaves out: nothing, all that is not a key frame, or the    *)
(* frame the budget has run out at.                                        *)
Drops ==
  \/ dropMode >= 5 /\ ~FrontSample.key
  \/ dropMode \in 1..4 /\ ~FrontSample.key /\ budget <= 1

(* (Mutated forms: a frame that is left out is not decoded either; the     *)
(* budget is not filled up.)                                               *)
DecodeDroppedUndecoded ==
  /\ busy /\ queue # <<>> /\ ~FrontSample.preroll /\ Drops
  /\ Consume
  /\ budget' = IF dropMode < 5 THEN Replenished ELSE budget
  /\ gap' = 0
  /\ UNCHANGED <<types, came, codec, rate, thin, dropMode, lag, busy, damaged, advice>>

DecodeDroppedUnfilled ==
  /\ busy /\ queue # <<>> /\ ~FrontSample.preroll /\ Drops
  /\ Consume /\ codec' = Frame
  /\ gap' = 0
  /\ UNCHANGED <<types, came, rate, thin, dropMode, budget, lag, busy, damaged, advice>>

DecodeDropped ==
  /\ busy /\ queue # <<>> /\ ~FrontSample.preroll /\ Drops
  /\ Consume /\ codec' = Frame
  /\ budget' = IF dropMode < 5 THEN Replenished ELSE budget
  /\ gap' = 0
  /\ UNCHANGED <<types, came, rate, thin, dropMode, lag, busy, damaged, advice>>

(* A frame that is not left out: ProcessOutput returns its picture, fails  *)
(* when the output sample is not as it should be, or goes on when there is *)
(* none (an alternate reference frame).  The budget is spent in any case;  *)
(* key frames bring it below zero, which is the same as zero.              *)
Decode ==
  /\ busy /\ queue # <<>> /\ ~FrontSample.preroll /\ ~Drops
  /\ Consume /\ codec' = Frame
  /\ budget' = IF dropMode \in 1..4 /\ budget > 0 THEN budget - 1 ELSE budget
  /\ gap' = IF gap < 16 THEN gap + 1 ELSE gap
  /\ busy' \in BOOLEAN
  /\ UNCHANGED <<types, came, rate, thin, dropMode, lag, damaged, advice>>

-----------------------------------------------------------------------------
(* SetDropMode: the budget starts empty, so the next delta frame goes.     *)
SetsDropMode(d) ==
  /\ dropMode' = d /\ budget' = 0
  /\ gap' = 16

Advise == ~busy /\ advice < MaxAdvice /\ advice' = advice + 1

SetDropMode ==
  /\ Advise
  /\ \E d \in 0..5 : SetsDropMode(d)
  /\ UNCHANGED <<types, input, codec, rate, thin, lag, busy, damaged>>

SetRate ==
  /\ Advise
  /\ rate' \in {1, 2} /\ thin' \in BOOLEAN
  /\ lagSum' = 0 /\ lagCount' = 0 /\ lagFrames' = 0
  /\ SetsDropMode(0)
  /\ UNCHANGED <<types, input, codec, busy, damaged>>

(* NotifyQualityEvent: a report of zero or less clears everything; each    *)
(* full window of others is averaged and compared with the one before it.  *)
CaughtUp ==
  /\ Advise /\ ~thin /\ rate = 1
  /\ lagSum' = 0 /\ lagCount' = 0 /\ lagFrames' = 0
  /\ SetsDropMode(0)
  /\ UNCHANGED <<types, input, codec, rate, thin, busy, damaged>>

Late(f) ==
  /\ Advise /\ ~thin /\ rate = 1
  /\ lagCount + 1 < LagWindow
  /\ lagSum' = lagSum + f /\ lagCount' = lagCount + 1
  /\ UNCHANGED <<types, input, codec, rate, thin, drop, lagFrames, busy, damaged>>

(* A small average is ``noise'': the drop mode and the average before it   *)
(* are forgotten, but then this one is kept like any other.                *)
LateAgain(f) ==
  LET frames == (lagSum + f) \div (lagCount + 1)
      noise  == frames <= 1
      before == IF noise THEN 0 ELSE lagFrames
      mode   == IF noise THEN 0 ELSE dropMode
      rises  == before > 0 /\ frames >= before /\ mode < 5
  IN
  /\ Advise /\ ~thin /\ rate = 1
  /\ lagCount + 1 >= LagWindow
  /\ IF rises THEN SetsDropMode(mode + 1)
     ELSE IF noise THEN SetsDropMode(0) ELSE UNCHANGED drop
  /\ lagSum' = 0 /\ lagCount' = 0 /\ lagFrames' = frames
  /\ UNCHANGED <<types, input, codec, rate, thin, busy, damaged>>

-----------------------------------------------------------------------------
Vp8Next ==
  \/ SetInputType \/ SetOutputType \/ ProcessInput \/ Flush
  \/ ProcessOutput \/ NeedMoreInput
  \/ DecodePreroll \/ DecodeFails \/ DecodeDropped \/ Decode
  \/ SetDropMode \/ SetRate \/ CaughtUp
  \/ \E f \in Lags : Late(f) \/ LateAgain(f)

Vp8Spec == Vp8Init /\ [][Vp8Next]_vp8Vars

-----------------------------------------------------------------------------
Vp8TypeOK ==
  /\ \A v \in {inType, outType, thin, busy, damaged} : v \in BOOLEAN
  /\ outType => inType
  /\ came \in 0..MaxFrames /\ codec \in 0..MaxFrames
  /\ \A i \in 1..Len(queue) :
       queue[i] \in [first : 1..MaxFrames, n : Counts, key : BOOLEAN, preroll : BOOLEAN]
  /\ queue # <<>> => dwBuffer \in 0..FrontSample.n - 1
  /\ queue = <<>> => dwBuffer = 0
  /\ dropMode \in 0..5 /\ budget \in 0..16 /\ gap \in 0..16
  /\ lagCount \in 0..LagWindow - 1

(* ``In other modes, we decode every frame (we are suppressing the         *)
(* rendering, not decode)'': the codec is always given the frame after the *)
(* last one it was given, whatever the drop mode and its changes, so that  *)
(* a delta frame finds its references.                                     *)
CodecFollows ==
  /\ Vp8TypeOK
  /\ ~damaged /\ queue # <<>> => Frame = codec + 1

(* ``we always keep keyframes'', and in mode d ``drop 1 out of every       *)
(* 2^(5-d)'': a picture is left out only when that many less one were      *)
(* rendered since the last that was, whatever flushes and reports came in  *)
(* between, and never a key frame's.                                       *)
LeavesOut == codec' > codec /\ gap' = 0

DropShare ==
  [][LeavesOut => /\ dropMode > 0 /\ ~FrontSample.key
                  /\ dropMode < 5 => gap >= Share[dropMode] - 1]_vp8Vars

=============================================================================
