-------------------------- MODULE TransformsProofs ---------------------------
(***************************************************************************)
(* Proofs about the two Media Foundation decoders and the VP8 encoder      *)
(* filter, for all settings, bounds and inputs.  They share nothing.       *)
(***************************************************************************)
EXTENDS MFVp8Decoder, MFVorbisDecoder, Vp8Encoder, SequenceTheorems, WellFoundedInduction, TLAPS

-----------------------------------------------------------------------------
(***************************************************************************)
(* Sequences.                                                              *)
(***************************************************************************)

(* What a queue is without its front.                                      *)
LEMMA TailIs ==
  ASSUME NEW S, NEW s \in Seq(S), s # <<>>
  PROVE  /\ Len(s) \in Nat /\ Len(s) >= 1 /\ Head(s) = s[1] /\ s[1] \in S
         /\ Tail(s) \in Seq(S) /\ Len(Tail(s)) = Len(s) - 1
         /\ \A i \in 1..Len(s) - 1 : Tail(s)[i] = s[i + 1]
         /\ Len(s) = 1 => Tail(s) = <<>>
         /\ Len(s) > 1 => Tail(s) # <<>> /\ Head(Tail(s)) = s[2] /\ s[2] \in S
<1>1. Len(s) \in Nat /\ Len(s) >= 1 /\ Head(s) = s[1] /\ s[1] \in S
  BY EmptySeq, LenProperties
<1>2. /\ Tail(s) \in Seq(S) /\ Len(Tail(s)) = Len(s) - 1
      /\ \A i \in 1..Len(s) - 1 : Tail(s)[i] = s[i + 1]
  BY <1>1, HeadTailProperties
<1>3. ASSUME Len(s) = 1 PROVE Tail(s) = <<>>
  <2>1. Tail(s) # <<>> => Len(Tail(s)) \in Nat \ {0}
    BY <1>2, EmptySeq
  <2> QED
    BY <1>2, <1>3, <2>1
<1>4. ASSUME Len(s) > 1 PROVE Tail(s) # <<>> /\ Head(Tail(s)) = s[2] /\ s[2] \in S
  <2>1. Tail(s)[1] = s[2] /\ s[2] \in S
    BY <1>1, <1>2, <1>4
  <2>2. Tail(s) # <<>>
    BY <1>1, <1>2, <1>4, EmptySeq
  <2> DEFINE t == Tail(s)
  <2>3. t # <<>> /\ t \in Seq(S)
    BY <1>2, <2>2
  <2> HIDE DEF t
  <2>4. Head(t) = t[1]
    BY <2>3
  <2> QED
    BY <2>1, <2>2, <2>4 DEF t
<1> QED
  BY <1>1, <1>2, <1>3, <1>4

-----------------------------------------------------------------------------
(***************************************************************************)
(* The decoder.  The samples in the queue are the last frames that came,   *)
(* one after the other, and the codec has had all frames before them.      *)
(***************************************************************************)
InSample == [first : 1..MaxFrames, n : Counts, key : BOOLEAN, preroll : BOOLEAN]

AfterSample(s) == s.first + s.n

Vp8Types ==
  /\ inType \in BOOLEAN /\ outType \in BOOLEAN /\ thin \in BOOLEAN
  /\ busy \in BOOLEAN /\ damaged \in BOOLEAN
  /\ outType => inType
  /\ came \in 0..MaxFrames /\ codec \in 0..MaxFrames
  /\ dropMode \in 0..5 /\ budget \in 0..16 /\ gap \in 0..16
  /\ lagCount \in 0..LagWindow - 1

QueueInv ==
  /\ queue \in Seq(InSample)
  /\ \A i \in 1..Len(queue) :
       /\ AfterSample(queue[i]) <= came + 1
       /\ AfterSample(queue[i]) = IF i < Len(queue) THEN queue[i + 1].first ELSE came + 1
  /\ IF queue = <<>> THEN dwBuffer = 0 ELSE dwBuffer \in 0..FrontSample.n - 1

CodecInv == ~damaged => IF queue = <<>> THEN codec = came ELSE Frame = codec + 1

(* In a mode that drops one frame of Share, what is left of the budget and *)
(* the pictures since the last one that was left out make up the share.    *)
BudgetInv == dropMode \in 1..4 => gap + budget >= Share[dropMode]

Vp8Inv == Vp8Types /\ QueueInv /\ CodecInv /\ BudgetInv

LEMMA ShareIs == \A d \in 1..4 : Share[d] \in 2..16
<1> SUFFICES ASSUME NEW d \in 1..4 PROVE Share[d] \in 2..16
  OBVIOUS
<1>1. Share[1] = 16 /\ Share[2] = 8 /\ Share[3] = 4 /\ Share[4] = 2
  BY DEF Share
<1>2. d = 1 \/ d = 2 \/ d = 3 \/ d = 4
  OBVIOUS
<1> QED
  BY <1>1, <1>2

LEMMA CountsAre ==
  /\ \A n \in Counts : n \in Nat /\ n >= 1
  /\ \A f \in 1..MaxFrames : f \in Nat /\ f >= 1
<1>1. \A n \in Counts : n \in Nat \ {0}
  BY ONLY CountsAssumption, Zenon
<1>2. \A n \in Nat \ {0} : n \in Nat /\ n >= 1
  OBVIOUS
<1>3. \A f \in 1..MaxFrames : f \in Nat /\ f >= 1
  BY Vp8Bounds
<1> QED
  BY ONLY <1>1, <1>2, <1>3, Zenon

LEMMA Vp8InvInit == Vp8Init => Vp8Inv
<1> SUFFICES ASSUME Vp8Init PROVE Vp8Inv
  OBVIOUS
<1>1. /\ inType = FALSE /\ outType = FALSE /\ thin = FALSE /\ busy = FALSE /\ damaged = FALSE
      /\ came = 0 /\ codec = 0 /\ dropMode = 0 /\ budget = 0 /\ gap = 16 /\ lagCount = 0
      /\ queue = <<>> /\ dwBuffer = 0
  BY DEF Vp8Init
<1>2. 0 \in 0..MaxFrames /\ 0 \in 0..LagWindow - 1
  BY LagsAssumption, Vp8Bounds
<1>3. Vp8Types
  <2>1. /\ inType \in BOOLEAN /\ outType \in BOOLEAN /\ thin \in BOOLEAN
        /\ busy \in BOOLEAN /\ damaged \in BOOLEAN /\ (outType => inType)
    BY ONLY <1>1, Zenon
  <2>2. /\ came \in 0..MaxFrames /\ codec \in 0..MaxFrames
        /\ dropMode \in 0..5 /\ budget \in 0..16 /\ gap \in 0..16
        /\ lagCount \in 0..LagWindow - 1
    BY <1>1, <1>2
  <2> QED
    BY ONLY <2>1, <2>2 DEF Vp8Types
<1>4. QueueInv /\ CodecInv /\ BudgetInv
  BY <1>1 DEF QueueInv, CodecInv, BudgetInv
<1> QED
  BY <1>3, <1>4 DEF Vp8Inv

(* The queue's front, and what is left when it goes.                       *)
LEMMA FrontIs ==
  ASSUME Vp8Inv, queue # <<>>
  PROVE  /\ FrontSample \in InSample /\ Tail(queue) \in Seq(InSample)
         /\ dwBuffer \in Nat /\ dwBuffer < FrontSample.n
         /\ Frame \in 1..came /\ Whole \in 1..came /\ Whole = FrontSample.first + FrontSample.n - 1
         /\ Frame = FrontSample.first + dwBuffer
         /\ Len(Tail(queue)) = Len(queue) - 1
         /\ \A i \in 1..Len(queue) - 1 : Tail(queue)[i] = queue[i + 1]
         /\ IF Tail(queue) = <<>> THEN Whole = came
            ELSE Head(Tail(queue)).first = Whole + 1 /\ Head(Tail(queue)) \in InSample
<1>1. /\ FrontSample = queue[1] /\ Len(queue) \in Nat /\ Len(queue) >= 1
      /\ FrontSample \in InSample /\ Tail(queue) \in Seq(InSample)
      /\ Len(Tail(queue)) = Len(queue) - 1
      /\ \A i \in 1..Len(queue) - 1 : Tail(queue)[i] = queue[i + 1]
      /\ Len(queue) = 1 => Tail(queue) = <<>>
      /\ Len(queue) > 1 => Tail(queue) # <<>> /\ Head(Tail(queue)) = queue[2] /\ queue[2] \in InSample
  <2>1. queue \in Seq(InSample)
    BY DEF Vp8Inv, QueueInv
  <2> QED
    BY <2>1, TailIs DEF FrontSample
<1>2. /\ FrontSample.first \in Nat /\ FrontSample.first >= 1
      /\ FrontSample.n \in Nat /\ FrontSample.n >= 1
  <2>1. FrontSample.first \in 1..MaxFrames /\ FrontSample.n \in Counts
    BY <1>1 DEF InSample
  <2>2. FrontSample.n \in Nat \ {0}
    BY <2>1, CountsAssumption
  <2>3. FrontSample.first \in Nat /\ FrontSample.first >= 1
    BY <2>1, Vp8Bounds
  <2> QED
    BY <2>2, <2>3
<1>3. dwBuffer \in 0..FrontSample.n - 1 /\ came \in Nat
  BY Vp8Bounds DEF Vp8Inv, QueueInv, Vp8Types
<1>4. AfterSample(queue[1]) = FrontSample.first + FrontSample.n
  BY <1>1 DEF AfterSample
<1>5. /\ AfterSample(queue[1]) <= came + 1
      /\ AfterSample(queue[1]) = IF 1 < Len(queue) THEN queue[2].first ELSE came + 1
  BY <1>1 DEF Vp8Inv, QueueInv
<1>6. IF Tail(queue) = <<>> THEN FrontSample.first + FrontSample.n = came + 1
      ELSE Head(Tail(queue)).first = FrontSample.first + FrontSample.n /\ Head(Tail(queue)) \in InSample
  <2>1. CASE Len(queue) = 1
    BY <1>1, <1>4, <1>5, <2>1
  <2>2. CASE Len(queue) > 1
    BY <1>1, <1>4, <1>5, <2>2
  <2> QED
    BY <1>1, <2>1, <2>2
<1>7. Frame = FrontSample.first + dwBuffer /\ Whole = FrontSample.first + FrontSample.n - 1
  BY DEF Frame, Whole
<1>8. FrontSample.first + FrontSample.n <= came + 1
  BY <1>4, <1>5
<1>9. Frame \in 1..came /\ Whole \in 1..came /\ dwBuffer < FrontSample.n /\ dwBuffer \in Nat
  BY ONLY <1>2, <1>3, <1>7, <1>8
<1>10. IF Tail(queue) = <<>> THEN Whole = came ELSE Head(Tail(queue)).first = Whole + 1
  <2>1. CASE Tail(queue) = <<>>
    <3>1. FrontSample.first + FrontSample.n = came + 1
      BY ONLY <1>6, <2>1
    <3> QED
      BY ONLY <1>2, <1>3, <1>7, <2>1, <3>1
  <2>2. CASE Tail(queue) # <<>>
    <3>1. Head(Tail(queue)).first = FrontSample.first + FrontSample.n
      BY ONLY <1>6, <2>2
    <3>2. Whole + 1 = FrontSample.first + FrontSample.n
      BY ONLY <1>2, <1>7
    <3> QED
      BY ONLY <2>2, <3>1, <3>2
  <2> QED
    BY <2>1, <2>2
<1> QED
  BY <1>1, <1>6, <1>7, <1>9, <1>10

(* The front goes: what is left are the last frames that came, and the     *)
(* next one is the one after the whole of the sample.                      *)
LEMMA FrontGoes ==
  ASSUME Vp8Inv, queue # <<>>, queue' = Tail(queue), dwBuffer' = 0, came' = came
  PROVE  /\ QueueInv'
         /\ IF queue' = <<>> THEN Whole = came' ELSE Frame' = Whole + 1
<1>1. /\ Tail(queue) \in Seq(InSample) /\ Len(Tail(queue)) = Len(queue) - 1
      /\ \A i \in 1..Len(queue) - 1 : Tail(queue)[i] = queue[i + 1]
      /\ IF Tail(queue) = <<>> THEN Whole = came
         ELSE Head(Tail(queue)).first = Whole + 1 /\ Head(Tail(queue)) \in InSample
  BY FrontIs
<1>2. Len(queue) \in Nat /\ queue \in Seq(InSample) /\ came \in Nat
  BY LenProperties, Vp8Bounds DEF Vp8Inv, QueueInv, Vp8Types
<1>3. ASSUME NEW i \in 1..Len(queue')
      PROVE  /\ AfterSample(queue'[i]) <= came + 1
             /\ AfterSample(queue'[i]) = IF i < Len(queue') THEN queue'[i + 1].first ELSE came + 1
  <2>1. i \in 1..Len(queue) - 1 /\ i + 1 \in 1..Len(queue)
    BY <1>1, <1>2, <1>3
  <2>2. queue'[i] = queue[i + 1] /\ (i < Len(queue') => queue'[i + 1] = queue[i + 1 + 1])
    BY <1>1, <1>2, <2>1
  <2>3. /\ AfterSample(queue[i + 1]) <= came + 1
        /\ AfterSample(queue[i + 1])
             = IF i + 1 < Len(queue) THEN queue[i + 1 + 1].first ELSE came + 1
    BY <2>1 DEF Vp8Inv, QueueInv
  <2>4. i < Len(queue') <=> i + 1 < Len(queue)
    BY <1>1, <1>2, <2>1
  <2> QED
    BY <2>2, <2>3, <2>4
<1>4. IF queue' = <<>> THEN dwBuffer' = 0 ELSE dwBuffer' \in 0..Head(queue').n - 1
  <2>1. CASE queue' = <<>>
    BY <2>1
  <2>2. CASE queue' # <<>>
    <3>1. Head(queue').n \in Counts
      BY <1>1, <2>2 DEF InSample
    <3>2. Head(queue').n \in Nat /\ Head(queue').n >= 1
      BY ONLY <3>1, CountsAre, Zenon
    <3> QED
      BY <2>2, <3>2
  <2> QED
    BY <2>1, <2>2
<1>5. QueueInv'
  BY <1>1, <1>3, <1>4 DEF QueueInv, FrontSample, AfterSample
<1>6. IF queue' = <<>> THEN Whole = came' ELSE Frame' = Whole + 1
  <2>1. CASE queue' = <<>>
    BY <1>1, <2>1
  <2>2. CASE queue' # <<>>
    <3>1. Head(queue').first = Whole + 1 /\ Head(queue').first \in 1..MaxFrames
      BY <1>1, <2>2 DEF InSample
    <3>2. Head(queue').first \in Nat
      BY ONLY <3>1, CountsAre, Zenon
    <3>3. Frame' = Head(queue').first + dwBuffer'
      BY DEF Frame, FrontSample
    <3> QED
      BY <2>2, <3>1, <3>2, <3>3
  <2> QED
    BY <2>1, <2>2
<1> QED
  BY <1>5, <1>6

(* One buffer of the front goes.                                           *)
LEMMA ConsumeTakesOne ==
  ASSUME Vp8Inv, queue # <<>>, Consume, came' = came
  PROVE  /\ QueueInv'
         /\ IF queue' = <<>> THEN Frame = came' ELSE Frame' = Frame + 1
<1>1. /\ FrontSample \in InSample /\ dwBuffer \in Nat /\ dwBuffer < FrontSample.n
      /\ Whole = FrontSample.first + FrontSample.n - 1
      /\ Frame = FrontSample.first + dwBuffer
  BY FrontIs
<1>2. /\ FrontSample.first \in Nat /\ FrontSample.n \in Nat
  <2>1. FrontSample.first \in 1..MaxFrames /\ FrontSample.n \in Counts
    BY <1>1 DEF InSample
  <2> QED
    BY ONLY <2>1, CountsAre, Zenon
<1>3. CASE dwBuffer + 1 >= FrontSample.n
  <2>1. queue' = Tail(queue) /\ dwBuffer' = 0
    BY <1>3 DEF Consume
  <2>2. /\ QueueInv'
        /\ IF queue' = <<>> THEN Whole = came' ELSE Frame' = Whole + 1
    BY <2>1, FrontGoes
  <2>3. Whole = Frame
    BY <1>1, <1>2, <1>3
  <2> QED
    BY <2>2, <2>3
<1>4. CASE ~(dwBuffer + 1 >= FrontSample.n)
  <2>1. queue' = queue /\ dwBuffer' = dwBuffer + 1
    BY <1>4 DEF Consume
  <2>2. dwBuffer' \in 0..FrontSample.n - 1
    BY <1>1, <1>2, <1>4, <2>1
  <2>3. QueueInv'
    BY <2>1, <2>2 DEF Vp8Inv, QueueInv, FrontSample
  <2>4. Frame' = FrontSample.first + (dwBuffer + 1)
    BY <2>1 DEF Frame, FrontSample
  <2> QED
    BY <1>1, <1>2, <2>1, <2>3, <2>4
<1> QED
  BY <1>3, <1>4

(* What each kind of step needs: the drop budget when the drop mode is     *)
(* set, and the queue when neither it nor the codec is touched.            *)
LEMMA ModeIsSet ==
  ASSUME NEW d \in 0..5, SetsDropMode(d)
  PROVE  dropMode' \in 0..5 /\ budget' \in 0..16 /\ gap' \in 0..16 /\ BudgetInv'
<1>1. dropMode' = d /\ budget' = 0 /\ gap' = 16
  BY DEF SetsDropMode
<1>2. d \in 1..4 => Share[d] \in 2..16
  BY ShareIs
<1> QED
  BY <1>1, <1>2 DEF BudgetInv

LEMMA InputStays ==
  ASSUME Vp8Inv, UNCHANGED <<input, codec, damaged>>
  PROVE  QueueInv' /\ CodecInv' /\ came' = came /\ codec' = codec /\ damaged' = damaged
<1>1. /\ queue' = queue /\ dwBuffer' = dwBuffer /\ came' = came
      /\ codec' = codec /\ damaged' = damaged
  BY DEF input
<1>2. QueueInv'
  BY <1>1 DEF Vp8Inv, QueueInv, FrontSample
<1>3. CodecInv'
  BY <1>1 DEF Vp8Inv, CodecInv, Frame, FrontSample
<1> QED
  BY <1>1, <1>2, <1>3

LEMMA DropStays ==
  ASSUME Vp8Inv, UNCHANGED drop
  PROVE  dropMode' \in 0..5 /\ budget' \in 0..16 /\ gap' \in 0..16 /\ BudgetInv'
BY DEF Vp8Inv, Vp8Types, BudgetInv, drop

(* The types of the next state from those of its parts.                    *)
LEMMA Vp8InvNext ==
  ASSUME inType' \in BOOLEAN, outType' \in BOOLEAN, thin' \in BOOLEAN, busy' \in BOOLEAN,
         damaged' \in BOOLEAN, outType' => inType',
         came' \in 0..MaxFrames, codec' \in 0..MaxFrames,
         dropMode' \in 0..5 /\ budget' \in 0..16 /\ gap' \in 0..16 /\ BudgetInv',
         lagCount' \in 0..LagWindow - 1, QueueInv', CodecInv'
  PROVE  Vp8Inv'
BY Zenon DEF Vp8Inv, Vp8Types

(* Opening, feeding and flushing the decoder.                              *)
LEMMA FeedingKeeps ==
  ASSUME Vp8Inv, SetInputType \/ SetOutputType \/ ProcessInput \/ Flush
  PROVE  Vp8Inv'
<1> USE DEF types, drop, lag
<1>1. /\ inType \in BOOLEAN /\ outType \in BOOLEAN /\ thin \in BOOLEAN
      /\ busy \in BOOLEAN /\ damaged \in BOOLEAN
      /\ outType => inType
  BY Zenon DEF Vp8Inv, Vp8Types
<1>2. came \in 0..MaxFrames /\ codec \in 0..MaxFrames /\ lagCount \in 0..LagWindow - 1
  BY Zenon DEF Vp8Inv, Vp8Types
<1>3. UNCHANGED drop
  BY Zenon DEF SetInputType, SetOutputType, ProcessInput, Flush
<1>4. dropMode' \in 0..5 /\ budget' \in 0..16 /\ gap' \in 0..16 /\ BudgetInv'
  BY <1>3, DropStays
<1>5. thin' = thin /\ lagCount' = lagCount /\ busy' = busy
  BY Zenon DEF SetInputType, SetOutputType, ProcessInput, Flush
<1>6. 0 \in 0..MaxFrames
  BY Vp8Bounds
<1>7. CASE SetInputType
  <2>1. /\ inType' \in BOOLEAN /\ outType' = FALSE /\ codec' = 0 /\ came' = 0
        /\ damaged' = FALSE /\ queue' = queue /\ dwBuffer' = dwBuffer /\ queue = <<>>
    BY <1>7, Zenon DEF SetInputType
  <2>2. QueueInv' /\ CodecInv'
    BY <2>1 DEF Vp8Inv, QueueInv, CodecInv
  <2>3. damaged' \in BOOLEAN /\ outType' \in BOOLEAN /\ (outType' => inType')
    BY ONLY <2>1, Zenon
  <2>4. came' \in 0..MaxFrames /\ codec' \in 0..MaxFrames
    BY <1>6, <2>1
  <2> QED
    BY ONLY <1>1, <1>2, <1>4, <1>5, <2>1, <2>2, <2>3, <2>4, Vp8InvNext, Zenon
<1>8. CASE SetOutputType
  <2>1. /\ outType' = TRUE /\ inType /\ UNCHANGED <<inType, input, codec, damaged>>
    BY <1>8, Zenon DEF SetOutputType
  <2>2. QueueInv' /\ CodecInv' /\ came' = came /\ codec' = codec /\ damaged' = damaged
    BY <2>1, InputStays
  <2>3. inType' \in BOOLEAN /\ outType' \in BOOLEAN /\ damaged' \in BOOLEAN /\ (outType' => inType')
    BY ONLY <1>1, <2>1, <2>2, Zenon
  <2> QED
    BY ONLY <1>1, <1>2, <1>4, <1>5, <2>2, <2>3, Vp8InvNext, Zenon
<1>9. CASE Flush
  <2>1. /\ queue' = <<>> /\ dwBuffer' = 0 /\ came' = 0 /\ codec' = 0 /\ damaged' = FALSE
        /\ inType' = inType /\ outType' = outType
    BY <1>9, Zenon DEF Flush
  <2>2. QueueInv' /\ CodecInv'
    BY <2>1 DEF QueueInv, CodecInv
  <2>3. inType' \in BOOLEAN /\ outType' \in BOOLEAN /\ damaged' \in BOOLEAN /\ (outType' => inType')
    BY ONLY <1>1, <2>1, Zenon
  <2>4. came' \in 0..MaxFrames /\ codec' \in 0..MaxFrames
    BY <1>6, <2>1
  <2> QED
    BY ONLY <1>1, <1>2, <1>4, <1>5, <2>2, <2>3, <2>4, Vp8InvNext, Zenon
<1>10. CASE ProcessInput
  <2>1. PICK n \in Counts, key \in BOOLEAN, preroll \in BOOLEAN :
          /\ came + n <= MaxFrames
          /\ queue' = Append(queue, [first |-> came + 1, n |-> n, key |-> key,
                                     preroll |-> preroll])
          /\ came' = came + n
    BY <1>10, Zenon DEF ProcessInput
  <2>2. /\ dwBuffer' = dwBuffer /\ codec' = codec /\ damaged' = damaged
        /\ inType' = inType /\ outType' = outType
    BY <1>10, Zenon DEF ProcessInput
  <2> DEFINE s == [first |-> came + 1, n |-> n, key |-> key, preroll |-> preroll]
  <2>3. n \in Nat /\ n >= 1 /\ came \in Nat /\ MaxFrames \in Nat
    BY CountsAre, <1>2, Vp8Bounds
  <2>4. came + 1 \in 1..MaxFrames /\ came' \in 0..MaxFrames
    BY <2>1, <2>3
  <2>5. s \in InSample
    BY <2>4 DEF InSample
  <2>6. s.first = came + 1 /\ AfterSample(s) = came' + 1
    BY <2>1, <2>3 DEF AfterSample
  <2>7. s.n = n
    OBVIOUS
  <2> HIDE DEF s
  <2>8. queue \in Seq(InSample) /\ Len(queue) \in Nat
    BY LenProperties DEF Vp8Inv, QueueInv
  <2>9. /\ queue' \in Seq(InSample) /\ Len(queue') = Len(queue) + 1
        /\ queue'[Len(queue) + 1] = s
        /\ \A i \in 1..Len(queue) : queue'[i] = queue[i]
    <3>1. queue' = Append(queue, s)
      BY <2>1 DEF s
    <3> QED
      BY <2>5, <2>8, <3>1, AppendProperties
  <2>10. ASSUME NEW i \in 1..Len(queue')
         PROVE  /\ AfterSample(queue'[i]) <= came' + 1
                /\ AfterSample(queue'[i])
                     = IF i < Len(queue') THEN queue'[i + 1].first ELSE came' + 1
    <3>1. CASE i = Len(queue) + 1
      BY <2>3, <2>1, <2>6, <2>8, <2>9, <3>1
    <3>2. CASE i # Len(queue) + 1
      <4>1. i \in 1..Len(queue) /\ i < Len(queue')
        BY <2>8, <2>9, <3>2
      <4>2. /\ AfterSample(queue[i]) <= came + 1
            /\ AfterSample(queue[i])
                 = IF i < Len(queue) THEN queue[i + 1].first ELSE came + 1
        BY <4>1 DEF Vp8Inv, QueueInv
      <4>3. queue[i] \in InSample
        BY <2>8, <4>1
      <4>4. queue'[i] = queue[i]
        BY <2>9, <4>1
      <4>5. AfterSample(queue[i]) \in Nat
        <5>1. queue[i].first \in 1..MaxFrames /\ queue[i].n \in Counts
          BY <4>3 DEF InSample
        <5>2. queue[i].first \in Nat /\ queue[i].n \in Nat
          BY ONLY <5>1, CountsAre, Zenon
        <5> QED
          BY <5>2 DEF AfterSample
      <4>6. queue'[i + 1].first = IF i < Len(queue) THEN queue[i + 1].first ELSE came + 1
        <5>1. CASE i < Len(queue)
          BY <2>8, <2>9, <4>1, <5>1
        <5>2. CASE ~(i < Len(queue))
          BY <2>6, <2>8, <2>9, <4>1, <5>2
        <5> QED
          BY <5>1, <5>2
      <4> QED
        BY <2>1, <2>3, <4>1, <4>2, <4>4, <4>5, <4>6
    <3> QED
      BY <3>1, <3>2
  <2>11. queue' # <<>>
    BY <2>8, <2>9, EmptySeq
  <2>12. /\ Head(queue') = queue'[1] /\ dwBuffer' \in 0..Head(queue').n - 1
         /\ (~damaged => Head(queue').first + dwBuffer' = codec + 1)
    <3>1. Head(queue') = queue'[1]
      BY <2>9, <2>11
    <3>2. CASE queue = <<>>
      <4>1. Len(queue) = 0 /\ Head(queue') = s
        BY <2>9, <3>1, <3>2
      <4>2. dwBuffer = 0 /\ (~damaged => codec = came)
        BY <3>2 DEF Vp8Inv, QueueInv, CodecInv
      <4> QED
        BY <2>2, <2>3, <2>6, <2>7, <3>1, <4>1, <4>2
    <3>3. CASE queue # <<>>
      <4>1. Head(queue) = queue[1] /\ Len(queue) >= 1
        BY <2>8, <3>3, EmptySeq
      <4>2. Head(queue') = Head(queue)
        BY <2>8, <2>9, <3>1, <4>1
      <4>3. dwBuffer \in 0..Head(queue).n - 1
            /\ (~damaged => Head(queue).first + dwBuffer = codec + 1)
        BY <3>3 DEF Vp8Inv, QueueInv, CodecInv, Frame, FrontSample
      <4> QED
        BY <2>2, <3>1, <4>2, <4>3
    <3> QED
      BY <3>2, <3>3
  <2>13. QueueInv'
    BY <2>9, <2>10, <2>11, <2>12 DEF QueueInv, FrontSample, AfterSample
  <2>14. CodecInv'
    BY <2>2, <2>11, <2>12 DEF CodecInv, Frame, FrontSample
  <2>15. inType' \in BOOLEAN /\ outType' \in BOOLEAN /\ damaged' \in BOOLEAN /\ (outType' => inType')
    BY ONLY <1>1, <2>2, Zenon
  <2> QED
    BY ONLY <1>1, <1>2, <1>4, <1>5, <2>2, <2>4, <2>13, <2>14, <2>15, Vp8InvNext, Zenon
<1> QED
  BY <1>7, <1>8, <1>9, <1>10

(* The steps of ProcessOutput.                                             *)
LEMMA DecodingKeeps ==
  ASSUME Vp8Inv,
         \/ ProcessOutput \/ NeedMoreInput
         \/ DecodePreroll \/ DecodeFails \/ DecodeDropped \/ Decode
  PROVE  Vp8Inv'
<1> USE DEF types, lag
<1>1. /\ inType \in BOOLEAN /\ outType \in BOOLEAN /\ thin \in BOOLEAN
      /\ busy \in BOOLEAN /\ damaged \in BOOLEAN
      /\ outType => inType
  BY Zenon DEF Vp8Inv, Vp8Types
<1>2. came \in 0..MaxFrames /\ codec \in 0..MaxFrames /\ lagCount \in 0..LagWindow - 1
  BY Zenon DEF Vp8Inv, Vp8Types
<1>3. /\ inType' = inType /\ outType' = outType /\ thin' = thin /\ lagCount' = lagCount
  BY Zenon DEF ProcessOutput, NeedMoreInput, DecodePreroll, DecodeFails, DecodeDropped, Decode
<1>4. CASE ProcessOutput \/ NeedMoreInput
  <2>1. busy' \in BOOLEAN /\ UNCHANGED <<input, codec, damaged>> /\ UNCHANGED drop
    BY <1>4, Zenon DEF ProcessOutput, NeedMoreInput
  <2>2. QueueInv' /\ CodecInv' /\ came' = came /\ codec' = codec /\ damaged' = damaged
    BY <2>1, InputStays
  <2>3. dropMode' \in 0..5 /\ budget' \in 0..16 /\ gap' \in 0..16 /\ BudgetInv'
    BY <2>1, DropStays
  <2> QED
    BY ONLY <1>1, <1>2, <1>3, <2>1, <2>2, <2>3, Vp8InvNext, Zenon
<1>5. ASSUME queue # <<>>, came' = came
      PROVE  /\ Frame \in 0..MaxFrames /\ Whole \in 0..MaxFrames
             /\ came' \in 0..MaxFrames
  <2>1. Frame \in 1..came /\ Whole \in 1..came
    BY <1>5, FrontIs
  <2> QED
    BY <1>2, <1>5, <2>1, Vp8Bounds
<1>6. dropMode \in 0..5 /\ budget \in 0..16 /\ gap \in 0..16 /\ BudgetInv
  BY DEF Vp8Inv, Vp8Types
<1>7. Replenished \in 0..16 /\ (dropMode \in 1..4 => Replenished = Share[dropMode])
  BY ShareIs DEF Replenished
<1>8. CASE DecodePreroll
  <2>1. /\ queue # <<>> /\ queue' = Tail(queue) /\ dwBuffer' = 0 /\ came' = came
        /\ codec' = Whole /\ budget' = Replenished /\ gap' = 16
        /\ dropMode' = dropMode /\ busy' = busy /\ damaged' = damaged
    BY <1>8, Zenon DEF DecodePreroll
  <2>2. QueueInv' /\ IF queue' = <<>> THEN Whole = came' ELSE Frame' = Whole + 1
    BY <2>1, FrontGoes
  <2>3. CodecInv'
    BY <2>1, <2>2 DEF CodecInv
  <2>4. dropMode' \in 0..5 /\ budget' \in 0..16 /\ gap' \in 0..16 /\ BudgetInv'
    BY <1>6, <1>7, <2>1, ShareIs DEF BudgetInv
  <2>5. codec' \in 0..MaxFrames /\ came' \in 0..MaxFrames
    BY <1>5, <2>1
  <2> QED
    BY ONLY <1>1, <1>2, <1>3, <2>1, <2>2, <2>3, <2>4, <2>5, Vp8InvNext, Zenon
<1>9. CASE DecodeFails
  <2>1. /\ queue # <<>> /\ queue' = Tail(queue) /\ dwBuffer' = 0 /\ came' = came
        /\ codec' = codec /\ UNCHANGED drop /\ damaged' = TRUE /\ busy' = FALSE
    BY <1>9, Zenon DEF DecodeFails
  <2>2. QueueInv'
    BY <2>1, FrontGoes
  <2>3. CodecInv'
    BY <2>1 DEF CodecInv
  <2>4. dropMode' \in 0..5 /\ budget' \in 0..16 /\ gap' \in 0..16 /\ BudgetInv'
    BY <2>1, DropStays
  <2>5. codec' \in 0..MaxFrames /\ came' \in 0..MaxFrames
    BY <1>2, <1>5, <2>1
  <2>6. damaged' \in BOOLEAN /\ busy' \in BOOLEAN
    BY ONLY <2>1, Zenon
  <2> QED
    BY ONLY <1>1, <1>2, <1>3, <2>1, <2>2, <2>3, <2>4, <2>5, <2>6, Vp8InvNext, Zenon
<1>10. ASSUME queue # <<>>, Consume, codec' = Frame, came' = came, damaged' = damaged
       PROVE  QueueInv' /\ CodecInv' /\ codec' \in 0..MaxFrames /\ came' \in 0..MaxFrames
  <2>1. QueueInv' /\ IF queue' = <<>> THEN Frame = came' ELSE Frame' = Frame + 1
    BY <1>10, ConsumeTakesOne
  <2>2. CodecInv'
    BY <1>10, <2>1 DEF CodecInv
  <2> QED
    BY <1>5, <1>10, <2>1, <2>2
<1>11. CASE DecodeDropped
  <2>1. /\ queue # <<>> /\ Consume /\ codec' = Frame /\ came' = came /\ damaged' = damaged
        /\ budget' = (IF dropMode < 5 THEN Replenished ELSE budget)
        /\ gap' = 0 /\ dropMode' = dropMode /\ busy' = busy
    BY <1>11, Zenon DEF DecodeDropped
  <2>2. QueueInv' /\ CodecInv' /\ codec' \in 0..MaxFrames /\ came' \in 0..MaxFrames
    BY <2>1, <1>10
  <2>3. dropMode' \in 0..5 /\ budget' \in 0..16 /\ gap' \in 0..16 /\ BudgetInv'
    BY <1>6, <1>7, <2>1, ShareIs DEF BudgetInv
  <2> QED
    BY ONLY <1>1, <1>2, <1>3, <2>1, <2>2, <2>3, Vp8InvNext, Zenon
<1>12. CASE Decode
  <2>1. /\ queue # <<>> /\ Consume /\ codec' = Frame /\ came' = came /\ damaged' = damaged
        /\ budget' = (IF dropMode \in 1..4 /\ budget > 0 THEN budget - 1 ELSE budget)
        /\ gap' = (IF gap < 16 THEN gap + 1 ELSE gap)
        /\ dropMode' = dropMode /\ busy' \in BOOLEAN
    BY <1>12, Zenon DEF Decode
  <2>2. QueueInv' /\ CodecInv' /\ codec' \in 0..MaxFrames /\ came' \in 0..MaxFrames
    BY <2>1, <1>10
  <2>3. dropMode' \in 0..5 /\ budget' \in 0..16 /\ gap' \in 0..16
    BY <1>6, <2>1
  <2>4. ASSUME dropMode \in 1..4 PROVE gap' + budget' >= Share[dropMode]
    <3>1. Share[dropMode] \in 2..16 /\ gap + budget >= Share[dropMode]
      BY <1>6, <2>4, ShareIs DEF BudgetInv
    <3>2. CASE gap < 16
      BY <1>6, <2>1, <2>4, <3>1, <3>2
    <3>3. CASE ~(gap < 16)
      BY <1>6, <2>1, <2>3, <2>4, <3>1, <3>3
    <3> QED
      BY <3>2, <3>3
  <2>5. BudgetInv'
    BY <2>1, <2>4 DEF BudgetInv
  <2> QED
    BY ONLY <1>1, <1>2, <1>3, <2>1, <2>2, <2>3, <2>5, Vp8InvNext, Zenon
<1> QED
  BY <1>4, <1>8, <1>9, <1>11, <1>12

(* What the renderer reports, and the changes of rate and of drop mode.    *)
LEMMA AdviceKeeps ==
  ASSUME Vp8Inv, NEW f,
         SetDropMode \/ SetRate \/ CaughtUp \/ Late(f) \/ LateAgain(f)
  PROVE  Vp8Inv'
<1> USE DEF types, lag
<1>1. /\ inType \in BOOLEAN /\ outType \in BOOLEAN /\ thin \in BOOLEAN
      /\ busy \in BOOLEAN /\ damaged \in BOOLEAN
      /\ outType => inType
  BY Zenon DEF Vp8Inv, Vp8Types
<1>2. came \in 0..MaxFrames /\ codec \in 0..MaxFrames /\ lagCount \in 0..LagWindow - 1
  BY Zenon DEF Vp8Inv, Vp8Types
<1>3. /\ inType' = inType /\ outType' = outType /\ busy' = busy /\ thin' \in BOOLEAN
      /\ UNCHANGED <<input, codec, damaged>>
  BY <1>1, Zenon DEF SetDropMode, SetRate, CaughtUp, Late, LateAgain
<1>4. QueueInv' /\ CodecInv' /\ came' = came /\ codec' = codec /\ damaged' = damaged
  BY <1>3, InputStays
<1>5. lagCount' \in 0..LagWindow - 1
  <2>1. 0 \in 0..LagWindow - 1
    BY LagsAssumption
  <2>2. CASE Late(f)
    BY <1>2, <2>2, LagsAssumption DEF Late
  <2>3. CASE ~Late(f)
    <3>1. lagCount' = lagCount \/ lagCount' = 0
      BY <2>3, Zenon DEF SetDropMode, SetRate, CaughtUp, LateAgain
    <3> QED
      BY <1>2, <2>1, <3>1
  <2> QED
    BY <2>2, <2>3
<1>6. UNCHANGED drop \/ \E d \in 0..5 : SetsDropMode(d)
  <2>1. 0 \in 0..5
    OBVIOUS
  <2>2. CASE LateAgain(f)
    <3> DEFINE noise == (lagSum + f) \div (lagCount + 1) <= 1
               mode  == IF noise THEN 0 ELSE dropMode
    <3>1. (mode < 5 /\ SetsDropMode(mode + 1)) \/ SetsDropMode(0) \/ UNCHANGED drop
      BY <2>2, Zenon DEF LateAgain
    <3>2. mode \in 0..5
      BY DEF Vp8Inv, Vp8Types
    <3> HIDE DEF mode
    <3>3. mode < 5 => mode + 1 \in 0..5
      BY <3>2
    <3> QED
      BY ONLY <2>1, <3>1, <3>3, Zenon
  <2>3. CASE ~LateAgain(f)
    BY <2>1, <2>3, Zenon DEF SetDropMode, SetRate, CaughtUp, Late
  <2> QED
    BY <2>2, <2>3
<1>7. dropMode' \in 0..5 /\ budget' \in 0..16 /\ gap' \in 0..16 /\ BudgetInv'
  <2>1. CASE UNCHANGED drop
    BY ONLY <2>1, DropStays, Vp8Inv, Zenon
  <2>2. ASSUME NEW d \in 0..5, SetsDropMode(d)
        PROVE  dropMode' \in 0..5 /\ budget' \in 0..16 /\ gap' \in 0..16 /\ BudgetInv'
    BY ONLY <2>2, ModeIsSet, Zenon
  <2> QED
    BY ONLY <1>6, <2>1, <2>2, Zenon
<1> QED
  BY ONLY <1>1, <1>2, <1>3, <1>4, <1>5, <1>7, Vp8InvNext, Zenon

(* The queue of the decoder is the last frames that came, without a gap,   *)
(* and its drop budget and the pictures since the last one that was left   *)
(* out make up the drop mode's share, for all sizes of samples and of the  *)
(* window of reports.                                                      *)
THEOREM DecoderInvariance == Vp8Spec => []Vp8Inv
<1>1. Vp8Init => Vp8Inv
  BY Vp8InvInit
<1>2. Vp8Inv /\ [Vp8Next]_vp8Vars => Vp8Inv'
  <2> SUFFICES ASSUME Vp8Inv, [Vp8Next]_vp8Vars PROVE Vp8Inv'
    OBVIOUS
  <2>1. CASE SetInputType \/ SetOutputType \/ ProcessInput \/ Flush
    BY <2>1, FeedingKeeps
  <2>2. CASE \/ ProcessOutput \/ NeedMoreInput
             \/ DecodePreroll \/ DecodeFails \/ DecodeDropped \/ Decode
    BY <2>2, DecodingKeeps
  <2>3. CASE SetDropMode \/ SetRate \/ CaughtUp \/ \E f \in Lags : Late(f) \/ LateAgain(f)
    BY ONLY <2>3, Vp8Inv, AdviceKeeps, Zenon
  <2>4. CASE UNCHANGED vp8Vars
    <3>1. /\ UNCHANGED <<input, codec, damaged>> /\ UNCHANGED drop
          /\ UNCHANGED <<inType, outType, thin, busy, lagCount>>
      BY <2>4 DEF vp8Vars, types, lag
    <3>2. QueueInv' /\ CodecInv' /\ came' = came /\ codec' = codec /\ damaged' = damaged
      BY <3>1, InputStays
    <3>3. dropMode' \in 0..5 /\ budget' \in 0..16 /\ gap' \in 0..16 /\ BudgetInv'
      BY <3>1, DropStays
    <3>4. /\ inType' \in BOOLEAN /\ outType' \in BOOLEAN /\ thin' \in BOOLEAN
          /\ busy' \in BOOLEAN /\ damaged' \in BOOLEAN /\ (outType' => inType')
          /\ came' \in 0..MaxFrames /\ codec' \in 0..MaxFrames
          /\ lagCount' \in 0..LagWindow - 1
      BY <3>1, <3>2, Zenon DEF Vp8Inv, Vp8Types
    <3> QED
      BY ONLY <3>2, <3>3, <3>4, Vp8InvNext, Zenon
  <2> QED
    BY ONLY <2>1, <2>2, <2>3, <2>4, [Vp8Next]_vp8Vars, Zenon DEF Vp8Next
<1> QED
  BY <1>1, <1>2, PTL DEF Vp8Spec

(* The codec is given the frames one after the other whatever the drop     *)
(* mode (CodecFollows): the front of the queue begins where the codec is,  *)
(* because queue and codec together are all the frames that came.          *)
THEOREM CodecIsFed == Vp8Spec => []CodecFollows
<1>1. ASSUME Vp8Inv PROVE CodecFollows
  <2>1. Vp8TypeOK
    <3>1. \A v \in {inType, outType, thin, busy, damaged} : v \in BOOLEAN
      BY ONLY <1>1, Zenon DEF Vp8Inv, Vp8Types
    <3>2. /\ (outType => inType)
          /\ came \in 0..MaxFrames /\ codec \in 0..MaxFrames
          /\ dropMode \in 0..5 /\ budget \in 0..16 /\ gap \in 0..16
          /\ lagCount \in 0..LagWindow - 1
      BY ONLY <1>1, Zenon DEF Vp8Inv, Vp8Types
    <3>3. /\ \A i \in 1..Len(queue) :
               queue[i] \in [first : 1..MaxFrames, n : Counts, key : BOOLEAN, preroll : BOOLEAN]
          /\ queue # <<>> => dwBuffer \in 0..FrontSample.n - 1
          /\ queue = <<>> => dwBuffer = 0
      <4>1. queue \in Seq(InSample)
        BY <1>1 DEF Vp8Inv, QueueInv
      <4>2. \A i \in 1..Len(queue) : queue[i] \in InSample
        BY <4>1
      <4>3. IF queue = <<>> THEN dwBuffer = 0 ELSE dwBuffer \in 0..FrontSample.n - 1
        BY <1>1 DEF Vp8Inv, QueueInv
      <4> QED
        BY ONLY <4>2, <4>3, Zenon DEF InSample
    <3> QED
      BY ONLY <3>1, <3>2, <3>3, Zenon DEF Vp8TypeOK
  <2>2. ~damaged /\ queue # <<>> => Frame = codec + 1
    BY <1>1 DEF Vp8Inv, CodecInv
  <2> QED
    BY <2>1, <2>2 DEF CodecFollows
<1> QED
  BY <1>1, DecoderInvariance, PTL

(* A picture is left out only in a drop mode, never a key frame's, and in  *)
(* mode d only when 2^(5-d) - 1 were rendered since the last (DropShare).  *)
THEOREM DropsAreSpaced == Vp8Spec => DropShare
<1> DEFINE Spaced == LeavesOut => /\ dropMode > 0 /\ ~FrontSample.key
                                  /\ dropMode < 5 => gap >= Share[dropMode] - 1
<1>1. ASSUME Vp8Inv, [Vp8Next]_vp8Vars, LeavesOut
      PROVE  /\ dropMode > 0 /\ ~FrontSample.key
             /\ dropMode < 5 => gap >= Share[dropMode] - 1
  <2>1. codec' > codec /\ gap' = 0
    BY <1>1 DEF LeavesOut
  <2>2. codec \in Nat /\ gap \in 0..16 /\ dropMode \in 0..5 /\ budget \in 0..16 /\ BudgetInv
    BY <1>1, Vp8Bounds DEF Vp8Inv, Vp8Types
  <2>3. codec' # 0 /\ codec' # codec
    BY <2>1, <2>2
  <2>4. ~Decode
    <3>1. Decode => gap' = IF gap < 16 THEN gap + 1 ELSE gap
      BY Zenon DEF Decode
    <3>2. (IF gap < 16 THEN gap + 1 ELSE gap) # 0
      BY <2>2
    <3> QED
      BY ONLY <2>1, <3>1, <3>2, Zenon
  <2>5. ~DecodePreroll
    <3>1. DecodePreroll => gap' = 16
      BY Zenon DEF DecodePreroll
    <3>2. gap' # 16
      BY <2>1
    <3> QED
      BY ONLY <3>1, <3>2, Zenon
  <2>6. DecodeDropped
    <3>1. ~(SetInputType \/ SetOutputType \/ ProcessInput \/ Flush)
      BY ONLY <2>3, Zenon DEF SetInputType, SetOutputType, ProcessInput, Flush
    <3>2. ~(ProcessOutput \/ NeedMoreInput \/ DecodeFails)
      BY ONLY <2>3, Zenon DEF ProcessOutput, NeedMoreInput, DecodeFails
    <3>3. ~(SetDropMode \/ SetRate \/ CaughtUp)
      BY ONLY <2>3, Zenon DEF SetDropMode, SetRate, CaughtUp
    <3>4. ~\E f \in Lags : Late(f) \/ LateAgain(f)
      BY ONLY <2>3, Zenon DEF Late, LateAgain
    <3>5. ~UNCHANGED vp8Vars
      BY ONLY <2>3, Zenon DEF vp8Vars
    <3> QED
      BY ONLY <1>1, <2>4, <2>5, <3>1, <3>2, <3>3, <3>4, <3>5, Zenon DEF Vp8Next
  <2>7. Drops
    BY ONLY <2>6, Zenon DEF DecodeDropped
  <2>8. \/ dropMode >= 5 /\ ~FrontSample.key
        \/ dropMode \in 1..4 /\ ~FrontSample.key /\ budget <= 1
    BY ONLY <2>7, Zenon DEF Drops
  <2>9. dropMode \in 1..4 => Share[dropMode] \in 2..16 /\ gap + budget >= Share[dropMode]
    BY <2>2, ShareIs DEF BudgetInv
  <2>10. ~FrontSample.key
    BY ONLY <2>8, Zenon
  <2>11. dropMode > 0 /\ (dropMode < 5 => gap >= Share[dropMode] - 1)
    BY <2>2, <2>8, <2>9
  <2> QED
    BY <2>10, <2>11
<1>2. Vp8Inv /\ [Vp8Next]_vp8Vars => [Spaced]_vp8Vars
  BY ONLY <1>1, Zenon
<1>3. Vp8Spec => [][Spaced]_vp8Vars
  BY <1>2, DecoderInvariance, PTL DEF Vp8Spec
<1> QED
  BY <1>3 DEF DropShare

-----------------------------------------------------------------------------
(***************************************************************************)
(* The encoder.  Where the streaming thread is says what it holds; frames  *)
(* are in one of three places, in the order in which they were encoded;    *)
(* and m_last_keyframe_time is no later than the last key frame, and when  *)
(* the codec keeps nothing back less than a millisecond earlier.           *)
(***************************************************************************)
(* What is left of a number by a division.                                 *)
LEMMA QuotientIs ==
  ASSUME NEW x \in Nat, NEW r \in Nat \ {0}
  PROVE  /\ x \div r \in Nat
         /\ r * (x \div r) <= x /\ x < r * (x \div r) + r
<1>1. x \div r \in Int
  OBVIOUS
<1>2. x = (r * (x \div r)) + (x % r) /\ x % r \in 0..r - 1
  OBVIOUS
<1>3. r * (x \div r) <= x /\ x < r * (x \div r) + r
  BY <1>1, <1>2
<1>4. x \div r >= 0
  OBVIOUS
<1> QED
  BY <1>1, <1>3, <1>4

SentFrames == [from : Nat, start : Nat, key : BOOLEAN, disc : BOOLEAN]

Loop == {"getbuffer", "populate", "deliver"}

UpType ==
  \/ up = Idle \/ up = [at |-> "end"]
  \/ up \in [at : {"render"}, t : Int, disc : BOOLEAN]
  \/ up \in [at : Loop, call : {"receive", "eos"}]

EncTypes ==
  /\ lagInFrames \in Nat /\ interval \in Nat /\ sessions \in Nat
  /\ active \in BOOLEAN /\ eos \in BOOLEAN /\ flush \in BOOLEAN /\ force \in BOOLEAN
  /\ disc \in BOOLEAN /\ committed \in BOOLEAN /\ short \in BOOLEAN /\ ended \in BOOLEAN
  /\ due \in BOOLEAN
  /\ start \in Nat \cup {-1} /\ received \in Nat /\ lastKey \in Nat /\ time \in Int
  /\ inCodec \in Seq(CodecFrames) /\ pending \in Seq(Frames) /\ given \in Seq(CodecFrames)
  /\ sent \in Seq(SentFrames)
  /\ held \in 0 .. NBuffers
  /\ UpType

(* What each place of the streaming thread goes with.                      *)
PlaceInv ==
  /\ up.at \in {"getbuffer", "populate"} => pending # <<>>
  /\ up.at \in {"populate", "deliver"} => held < NBuffers
  /\ up.at \in Loop /\ up.call = "eos" => eos
  /\ up.at = "end" => eos
  /\ ~short /\ up.at \notin Loop => pending = <<>>
  /\ ended => eos /\ up = Idle

SentIs(s, f) == s.from = f.from /\ s.start = f.pts * Ms /\ s.key = f.key

(* Sent, pending, kept back: together the frames given, until a Stop       *)
(* destroys the codec; at the end of stream it keeps none back.            *)
FlowInv ==
  /\ Len(sent) + Len(pending) + Len(inCodec) <= Len(given)
  /\ active => Len(sent) + Len(pending) + Len(inCodec) = Len(given)
  /\ \A i \in 1 .. Len(sent) : SentIs(sent[i], given[i])
  /\ \A i \in 1 .. Len(pending) : pending[i] = Stamp(given[Len(sent) + i])
  /\ \A i \in 1 .. Len(inCodec) : inCodec[i] = given[Len(sent) + Len(pending) + i]
  /\ eos => up.at # "render" /\ inCodec = <<>> /\ Len(sent) + Len(pending) = Len(given)

(* Times rise, and the first sample is the one with the discontinuity.     *)
TimesInv ==
  /\ active \/ up # Idle => (disc <=> sent = <<>>)
  /\ \A i \in 1 .. Len(sent) : sent[i].disc <=> i = 1
  /\ active => (start = -1 <=> given = <<>>)
  /\ active => \A i \in 1 .. Len(given) : given[i].from <= start
  /\ \A i, j \in 1 .. Len(given) : i < j => given[i].from < given[j].from
  /\ \A i \in 1 .. Len(given) : given[i].pts = given[i].from \div Ms

LastKeyIs(k, n) == given[k].key /\ \A j \in k + 1 .. n : ~given[j].key

KeyTime(k) ==
  lastKey <= given[k].from /\ (lagInFrames = 0 => given[k].from < lastKey + Ms)

KeyInv ==
  /\ given # <<>> => given[1].key
  /\ due => force \/ given = <<>> \/ ~active
  /\ lagInFrames = 0 => inCodec = <<>>
  /\ sessions = 0 => ~active /\ up = Idle /\ given = <<>>
  /\ sessions \in {0, 1} /\ given = <<>> => lastKey = 0
  /\ (sessions = 1 \/ lagInFrames = 0) /\ given # <<>> =>
       \E k \in 1 .. Len(given) : LastKeyIs(k, Len(given)) /\ KeyTime(k)
  /\ interval > 0 /\ (sessions = 1 \/ lagInFrames = 0) =>
       \A i \in 2 .. Len(given) : ~given[i].key =>
         \E k \in 1 .. i - 1 : LastKeyIs(k, i - 1) /\ given[i].from - given[k].from < interval

EncInv == EncTypes /\ PlaceInv /\ FlowInv /\ TimesInv /\ KeyInv

(* A time that was cut down to milliseconds and scaled back is less than   *)
(* one short of what it was.                                               *)
LEMMA StampWithin ==
  ASSUME NEW x \in Nat
  PROVE  (x \div Ms) * Ms \in Nat /\ (x \div Ms) * Ms <= x /\ x < (x \div Ms) * Ms + Ms
<1>1. Ms \in Nat \ {0}
  BY DEF Ms
<1>2. x \div Ms \in Nat /\ Ms * (x \div Ms) <= x /\ x < Ms * (x \div Ms) + Ms
  BY <1>1, QuotientIs
<1> DEFINE y == x \div Ms
<1> HIDE DEF y
<1>3. y \in Nat /\ Ms * y = y * Ms
  BY <1>1, <1>2 DEF y
<1> QED
  BY <1>2, <1>3 DEF y, Ms

(* The frames that come out of the codec, with their times scaled back.    *)
LEMMA StampedIs ==
  ASSUME NEW q \in Seq(CodecFrames)
  PROVE  /\ Stamped(q) \in Seq(Frames) /\ Len(Stamped(q)) = Len(q)
         /\ \A i \in 1 .. Len(q) : Stamped(q)[i] = Stamp(q[i])
         /\ \A i \in 1 .. Len(q) : Stamp(q[i]) \in Frames
<1>1. Len(q) \in Nat /\ DOMAIN q = 1 .. Len(q)
  BY LenProperties
<1>2. \A i \in 1 .. Len(q) : Stamp(q[i]) \in Frames
  <2> SUFFICES ASSUME NEW i \in 1 .. Len(q) PROVE Stamp(q[i]) \in Frames
    OBVIOUS
  <2>1. q[i] \in CodecFrames
    BY ElementOfSeq
  <2>2. q[i].from \in Nat /\ q[i].pts \in Nat /\ q[i].key \in BOOLEAN
    BY ONLY <2>1 DEF CodecFrames
  <2>3. q[i].pts * Ms \in Nat
    BY ONLY <2>2 DEF Ms
  <2> QED
    BY ONLY <2>2, <2>3 DEF Stamp, Frames
<1>3. Stamped(q) = [i \in 1 .. Len(q) |-> Stamp(q[i])]
  BY <1>1 DEF Stamped
<1>4. Stamped(q) \in [1 .. Len(q) -> Frames]
  BY ONLY <1>2, <1>3
<1>5. Stamped(q) \in Seq(Frames) /\ DOMAIN Stamped(q) = 1 .. Len(q)
  BY ONLY <1>1, <1>4, SeqDef
<1>6. Len(Stamped(q)) = Len(q)
  <2>1. Len(Stamped(q)) \in Nat /\ DOMAIN Stamped(q) = 1 .. Len(Stamped(q))
    BY <1>5, LenProperties
  <2> QED
    BY ONLY <1>1, <1>5, <2>1
<1> QED
  BY ONLY <1>2, <1>3, <1>5, <1>6

LEMMA EncInvInit == EncoderInit => EncInv
<1> SUFFICES ASSUME EncoderInit PROVE EncInv
  OBVIOUS
<1>1. /\ active = FALSE /\ eos = FALSE /\ flush = FALSE /\ force = FALSE /\ disc = FALSE
      /\ committed = FALSE /\ short = FALSE /\ ended = FALSE /\ due = FALSE
      /\ start = -1 /\ received = 0 /\ lastKey = 0 /\ time \in Origins /\ held = 0
      /\ sessions = 0
      /\ inCodec = <<>> /\ pending = <<>> /\ given = <<>> /\ sent = <<>> /\ up = Idle
      /\ lagInFrames \in LagsInFrames /\ interval \in Intervals
  BY Zenon DEF EncoderInit
<1>2. EncTypes
  <2>1. /\ active \in BOOLEAN /\ eos \in BOOLEAN /\ flush \in BOOLEAN /\ force \in BOOLEAN
        /\ disc \in BOOLEAN /\ committed \in BOOLEAN /\ short \in BOOLEAN /\ ended \in BOOLEAN
        /\ due \in BOOLEAN
    BY ONLY <1>1, Zenon
  <2>2. /\ start \in Nat \cup {-1} /\ received \in Nat /\ lastKey \in Nat /\ time \in Int
        /\ held \in 0 .. NBuffers /\ sessions \in Nat
    BY <1>1, EncoderAssumption
  <2>3. lagInFrames \in Nat /\ interval \in Nat
    BY <1>1, EncoderAssumption
  <2>4. /\ inCodec \in Seq(CodecFrames) /\ pending \in Seq(Frames) /\ given \in Seq(CodecFrames)
        /\ sent \in Seq(SentFrames)
    BY <1>1, EmptySeq
  <2>5. UpType
    BY <1>1 DEF UpType
  <2> QED
    BY ONLY <2>1, <2>2, <2>3, <2>4, <2>5, Zenon DEF EncTypes
<1>3. PlaceInv
  BY <1>1 DEF PlaceInv, Idle, Loop
<1>4. FlowInv
  BY <1>1 DEF FlowInv
<1>5. TimesInv
  BY <1>1 DEF TimesInv
<1>6. KeyInv
  BY <1>1 DEF KeyInv
<1> QED
  BY ONLY <1>2, <1>3, <1>4, <1>5, <1>6, Zenon DEF EncInv

(* Where the streaming thread can be, and what it has there.               *)
LEMMA UpIs ==
  ASSUME UpType
  PROVE  /\ up.at \in {"idle", "end", "render"} \cup Loop
         /\ up.at = "idle" <=> up = Idle
         /\ up.at = "render" => up.t \in Int /\ up.disc \in BOOLEAN
         /\ up.at \in Loop => up \in [at : Loop, call : {"receive", "eos"}]
<1>1. CASE up = Idle
  BY <1>1 DEF Idle, Loop
<1>2. CASE up = [at |-> "end"]
  BY <1>2 DEF Idle, Loop
<1>3. CASE up \in [at : {"render"}, t : Int, disc : BOOLEAN]
  BY <1>3 DEF Idle, Loop
<1>4. CASE up \in [at : Loop, call : {"receive", "eos"}]
  <2>1. up.at \in Loop
    BY <1>4
  <2>2. up # Idle
    BY <2>1 DEF Loop, Idle
  <2> QED
    BY <1>4, <2>1, <2>2 DEF Loop
<1> QED
  BY ONLY UpType, <1>1, <1>2, <1>3, <1>4, Zenon DEF UpType

(* The loop goes on while there are frames.                                *)
LEMMA ContinueIs ==
  ASSUME NEW call \in {"receive", "eos"}, Continue(call), call = "eos" => eos', ~ended'
  PROVE  UpType' /\ PlaceInv' /\ up'.at # "render"
<1>1. CASE pending' # <<>>
  <2>1. up' = [at |-> "getbuffer", call |-> call]
    BY <1>1 DEF Continue
  <2>2. up'.at = "getbuffer" /\ up'.call = call
    BY <2>1
  <2>3. UpType'
    BY <2>1 DEF UpType, Loop
  <2> QED
    BY <1>1, <2>2, <2>3 DEF PlaceInv, Loop
<1>2. CASE pending' = <<>> /\ call = "eos"
  <2>1. up' = [at |-> "end"]
    BY <1>2 DEF Continue
  <2>2. up'.at = "end"
    BY <2>1
  <2> QED
    BY <1>2, <2>1, <2>2 DEF PlaceInv, Loop, UpType
<1>3. CASE pending' = <<>> /\ call # "eos"
  <2>1. up' = Idle
    BY <1>3 DEF Continue
  <2>2. up'.at = "idle"
    BY <2>1 DEF Idle
  <2> QED
    BY <1>3, <2>1, <2>2 DEF PlaceInv, Loop, UpType
<1> QED
  BY <1>1, <1>2, <1>3

(* What is left of each part of the invariant by a step that does not      *)
(* touch what it speaks of.                                                *)
LEMMA FlowStays ==
  ASSUME EncInv, UNCHANGED <<sent, pending, inCodec, given>>, active' => active,
         eos' => eos /\ up'.at # "render"
  PROVE  FlowInv'
<1>1. FlowInv
  BY DEF EncInv
<1>2. sent' = sent /\ pending' = pending /\ inCodec' = inCodec /\ given' = given
  OBVIOUS
<1> QED
  BY <1>1, <1>2 DEF FlowInv

LEMMA TimesStay ==
  ASSUME EncInv, UNCHANGED <<sent, given, start, disc>>, active' => active,
         up' # Idle => active \/ up # Idle
  PROVE  TimesInv'
<1>1. TimesInv
  BY DEF EncInv
<1>2. sent' = sent /\ given' = given /\ start' = start /\ disc' = disc
  OBVIOUS
<1> QED
  BY <1>1, <1>2 DEF TimesInv

LEMMA KeysStay ==
  ASSUME EncInv, UNCHANGED <<given, lastKey, inCodec, settings, sessions>>,
         due' => force' \/ given = <<>> \/ ~active', sessions = 0 => ~active' /\ up' = Idle
  PROVE  KeyInv'
<1>1. KeyInv
  BY DEF EncInv
<1>2. /\ given' = given /\ lastKey' = lastKey /\ inCodec' = inCodec /\ sessions' = sessions
      /\ lagInFrames' = lagInFrames /\ interval' = interval
  BY DEF settings
<1> QED
  BY <1>1, <1>2 DEF KeyInv, LastKeyIs, KeyTime

LEMMA PlaceStays ==
  ASSUME EncInv, UNCHANGED <<up, pending, eos, short>>, held' \in Nat, held' <= held,
         ended' => ended
  PROVE  PlaceInv' /\ UpType' /\ held' \in 0 .. NBuffers
<1>1. PlaceInv /\ UpType /\ held \in 0 .. NBuffers
  BY Zenon DEF EncInv, EncTypes
<1>2. up' = up /\ pending' = pending /\ eos' = eos /\ short' = short
  OBVIOUS
<1>3. PlaceInv'
  BY <1>1, <1>2, EncoderAssumption DEF PlaceInv
<1>4. UpType'
  BY <1>1, <1>2 DEF UpType
<1> QED
  BY <1>1, <1>3, <1>4, EncoderAssumption

(* The steps of others than the source's thread.                           *)
LEMMA OutsideKeeps ==
  ASSUME EncInv,
         \/ DownstreamStops \/ StopFilter \/ SetForceKeyframe \/ ClearForceKeyframe
         \/ DownstreamReleases
         \/ BeginFlush \/ PassBeginFlush \/ EndFlush \/ PassEndFlush
  PROVE  EncInv'
<1> USE DEF settings, pin, encoder, outpin, history, bounds
<1>1. EncTypes /\ PlaceInv /\ FlowInv /\ TimesInv /\ KeyInv
  BY Zenon DEF EncInv
<1>2. /\ UNCHANGED settings
      /\ up' = up /\ pending' = pending /\ eos' = eos /\ short' = short /\ sent' = sent
      /\ given' = given /\ start' = start /\ disc' = disc /\ lastKey' = lastKey
      /\ received' = received /\ sessions' = sessions
  BY Zenon DEF DownstreamStops, StopFilter, SetForceKeyframe, ClearForceKeyframe,
       DownstreamReleases, BeginFlush, PassBeginFlush, EndFlush, PassEndFlush
<1>3. /\ active' \in BOOLEAN /\ flush' \in BOOLEAN /\ force' \in BOOLEAN /\ due' \in BOOLEAN
      /\ committed' \in BOOLEAN /\ ended' \in BOOLEAN
      /\ (active' => active) /\ (ended' => ended)
      /\ (due' => force' \/ (due /\ (force => force')))
  <2>1. CASE DownstreamStops
    BY <1>1, <2>1 DEF EncTypes, DownstreamStops
  <2>2. CASE DownstreamReleases
    BY <1>1, <2>2 DEF EncTypes, DownstreamReleases
  <2>3. CASE PassEndFlush
    BY <1>1, <2>3 DEF EncTypes, PassEndFlush
  <2>4. CASE StopFilter
    BY <1>1, <2>4 DEF EncTypes, StopFilter
  <2>5. CASE SetForceKeyframe
    BY <1>1, <2>5 DEF EncTypes, SetForceKeyframe
  <2>6. CASE ClearForceKeyframe
    BY <1>1, <2>6 DEF EncTypes, ClearForceKeyframe
  <2>7. CASE BeginFlush
    BY <1>1, <2>7 DEF EncTypes, BeginFlush
  <2>8. CASE EndFlush
    BY <1>1, <2>8 DEF EncTypes, EndFlush
  <2>9. CASE PassBeginFlush
    BY <1>1, <2>9 DEF EncTypes, PassBeginFlush
  <2> QED
    BY <2>1, <2>2, <2>3, <2>4, <2>5, <2>6, <2>7, <2>8, <2>9
<1>4. held' \in Nat /\ held' <= held /\ time' \in Int
  <2>1. held \in Nat /\ time \in Int
    BY <1>1, EncoderAssumption DEF EncTypes
  <2>2. time' = time \/ time' \in Origins
    BY Zenon DEF DownstreamStops, StopFilter, SetForceKeyframe, ClearForceKeyframe,
       DownstreamReleases, BeginFlush, PassBeginFlush, EndFlush, PassEndFlush
  <2>3. held' = held \/ held' = 0 \/ (held > 0 /\ held' = held - 1)
    BY Zenon DEF DownstreamStops, StopFilter, SetForceKeyframe, ClearForceKeyframe,
       DownstreamReleases, BeginFlush, PassBeginFlush, EndFlush, PassEndFlush
  <2>4. time' \in Int
    BY <2>1, <2>2, EncoderAssumption
  <2> QED
    BY <2>1, <2>3, <2>4
<1>5. inCodec' = inCodec \/ (inCodec' = <<>> /\ ~active')
  BY Zenon DEF DownstreamStops, StopFilter, SetForceKeyframe, ClearForceKeyframe,
     DownstreamReleases, BeginFlush, PassBeginFlush, EndFlush, PassEndFlush
<1>6. PlaceInv' /\ UpType' /\ held' \in 0 .. NBuffers
  BY <1>2, <1>3, <1>4, PlaceStays
<1>7. EncTypes'
  <2>1. inCodec' \in Seq(CodecFrames)
    BY <1>1, <1>5, EmptySeq DEF EncTypes
  <2>2. /\ lagInFrames' = lagInFrames /\ interval' = interval
    BY <1>2, Zenon
  <2> QED
    BY ONLY <1>1, <1>2, <1>3, <1>4, <1>6, <2>1, <2>2, Zenon DEF EncTypes
<1>8. TimesInv'
  BY <1>2, <1>3, TimesStay
<1>9. KeyInv'
  <2>1. due' => force' \/ given = <<>> \/ ~active'
    BY ONLY <1>1, <1>3, Zenon DEF KeyInv
  <2>2. sessions = 0 => ~active' /\ up' = Idle
    BY ONLY <1>1, <1>2, <1>3, Zenon DEF KeyInv
  <2>3. CASE inCodec' = inCodec
    BY <1>2, <2>1, <2>2, <2>3, KeysStay
  <2>4. CASE inCodec' = <<>>
    <3>1. lagInFrames' = lagInFrames /\ interval' = interval
      BY <1>2
    <3> QED
      BY <1>1, <1>2, <2>1, <2>2, <2>4, <3>1 DEF KeyInv, LastKeyIs, KeyTime
  <2> QED
    BY <1>5, <2>3, <2>4
<1>10. FlowInv'
  <2>1. eos' => eos /\ up'.at # "render"
    BY ONLY <1>1, <1>2, Zenon DEF FlowInv
  <2>2. CASE inCodec' = inCodec
    BY <1>2, <1>3, <2>1, <2>2, FlowStays
  <2>3. CASE inCodec' = <<>> /\ ~active'
    <3>1. Len(inCodec) \in Nat /\ Len(sent) \in Nat /\ Len(pending) \in Nat /\ Len(given) \in Nat
      BY <1>1, LenProperties DEF EncTypes
    <3>2. /\ Len(sent) + Len(pending) + Len(inCodec) <= Len(given)
          /\ eos => Len(sent) + Len(pending) = Len(given)
          /\ \A i \in 1 .. Len(sent) : SentIs(sent[i], given[i])
          /\ \A i \in 1 .. Len(pending) : pending[i] = Stamp(given[Len(sent) + i])
      BY <1>1 DEF FlowInv
    <3>3. Len(inCodec') = 0 /\ \A i \in 1 .. Len(inCodec') : FALSE
      BY <2>3
    <3>4. Len(sent') + Len(pending') + Len(inCodec') <= Len(given')
      BY <1>2, <3>1, <3>2, <3>3
    <3> QED
      BY ONLY <1>2, <2>1, <2>3, <3>2, <3>3, <3>4 DEF FlowInv
  <2> QED
    BY <1>5, <2>2, <2>3
<1> QED
  BY ONLY <1>6, <1>7, <1>8, <1>9, <1>10, Zenon DEF EncInv

(* A session begins with nothing of the last, but for the time of its last *)
(* key frame.                                                              *)
LEMMA StartKeeps ==
  ASSUME EncInv, StartFilter
  PROVE  EncInv'
<1> USE DEF settings, bounds
<1>1. EncTypes /\ PlaceInv /\ FlowInv /\ TimesInv /\ KeyInv
  BY Zenon DEF EncInv
<1>2. /\ active' = TRUE /\ eos' = FALSE /\ flush' = FALSE /\ start' = -1 /\ disc' = TRUE
      /\ inCodec' = <<>> /\ pending' = <<>> /\ given' = <<>> /\ sent' = <<>>
      /\ short' = FALSE /\ ended' = FALSE /\ committed' = TRUE /\ time' \in Origins
      /\ sessions' = sessions + 1 /\ up = Idle /\ up' = up
      /\ lagInFrames' = lagInFrames /\ interval' = interval /\ received' = received
      /\ force' = force /\ lastKey' = lastKey /\ held' = held /\ due' = due
  BY Zenon DEF StartFilter
<1>3. up'.at = "idle" /\ up' = Idle
  BY <1>2 DEF Idle
<1>4. EncTypes'
  <2>1. /\ inCodec' \in Seq(CodecFrames) /\ pending' \in Seq(Frames) /\ given' \in Seq(CodecFrames)
        /\ sent' \in Seq(SentFrames)
    BY <1>2, EmptySeq
  <2>2. time' \in Int /\ start' \in Nat \cup {-1} /\ sessions' \in Nat
    BY <1>1, <1>2, EncoderAssumption DEF EncTypes
  <2>3. UpType'
    BY <1>3 DEF UpType
  <2>4. /\ active' \in BOOLEAN /\ eos' \in BOOLEAN /\ flush' \in BOOLEAN /\ disc' \in BOOLEAN
        /\ committed' \in BOOLEAN /\ short' \in BOOLEAN /\ ended' \in BOOLEAN
    BY ONLY <1>2, Zenon
  <2>5. /\ lagInFrames' \in Nat /\ interval' \in Nat /\ force' \in BOOLEAN /\ due' \in BOOLEAN
        /\ received' \in Nat /\ lastKey' \in Nat /\ held' \in 0 .. NBuffers
    BY ONLY <1>1, <1>2, Zenon DEF EncTypes
  <2> QED
    BY ONLY <2>1, <2>2, <2>3, <2>4, <2>5, Zenon DEF EncTypes
<1>5. PlaceInv'
  BY <1>2, <1>3 DEF PlaceInv, Loop
<1>6. FlowInv' /\ TimesInv'
  BY <1>2, <1>3 DEF FlowInv, TimesInv
<1>7. KeyInv'
  <2>1. sessions \in Nat
    BY <1>1 DEF EncTypes
  <2>2. sessions' \in {0, 1} => lastKey' = 0
    BY <1>1, <1>2, <2>1 DEF KeyInv
  <2> QED
    BY <1>2, <2>1, <2>2 DEF KeyInv
<1> QED
  BY ONLY <1>4, <1>5, <1>6, <1>7, Zenon DEF EncInv

(* A sample comes.                                                         *)
LEMMA SampleKeeps ==
  ASSUME EncInv, NEW d \in Steps, NEW discont \in BOOLEAN, Sample(d, discont)
  PROVE  EncInv'
<1> USE DEF settings, encoder, outpin, history
<1>1. EncTypes /\ PlaceInv /\ FlowInv /\ TimesInv /\ KeyInv
  BY Zenon DEF EncInv
<1>2. /\ up = Idle /\ active /\ ~eos /\ time' = time + d
      /\ received' = (IF decimate > 1 THEN received + 1 ELSE received)
      /\ up' = (IF decimate > 1 /\ received % decimate # 0 THEN Idle
                ELSE [at |-> "render", t |-> time, disc |-> discont])
      /\ UNCHANGED <<inCodec, given, pending, sent, short, ended, committed, held>>
      /\ UNCHANGED <<lagInFrames, interval, active, eos, flush, start, force, lastKey, disc,
                     due, sessions>>
  BY Zenon DEF Sample
<1>3. time \in Int /\ received \in Nat /\ time' \in Int /\ received' \in Nat
  BY <1>1, <1>2, EncoderAssumption DEF EncTypes
<1>4. /\ up'.at \in {"idle", "render"} /\ (up'.at = "idle" => up' = Idle)
      /\ UpType'
  <2>1. CASE up' = Idle
    BY <2>1 DEF Idle, UpType
  <2>2. CASE up' = [at |-> "render", t |-> time, disc |-> discont]
    <3>1. up' \in [at : {"render"}, t : Int, disc : BOOLEAN] /\ up'.at = "render"
      BY <1>3, <2>2
    <3> QED
      BY <3>1 DEF UpType
  <2> QED
    BY <1>2, <2>1, <2>2
<1>5. EncTypes'
  BY ONLY <1>1, <1>2, <1>3, <1>4, Zenon DEF EncTypes
<1>6. PlaceInv'
  <2>1. ~short => pending = <<>>
    BY <1>1, <1>2 DEF PlaceInv, Loop, Idle
  <2>2. ~ended
    BY <1>1, <1>2, Zenon DEF PlaceInv
  <2>3. pending' = pending /\ short' = short /\ ended' = ended
    BY <1>2
  <2>4. up'.at \notin Loop /\ up'.at # "end"
    BY <1>4 DEF Loop
  <2>5. up'.at \notin {"getbuffer", "populate"} /\ up'.at \notin {"populate", "deliver"}
    BY <1>4
  <2> QED
    BY ONLY <2>1, <2>2, <2>3, <2>4, <2>5, Zenon DEF PlaceInv
<1>7. FlowInv' /\ TimesInv'
  BY <1>2, FlowStays, TimesStay
<1>8. KeyInv'
  <2>1. due' => force' \/ given = <<>> \/ ~active'
    BY ONLY <1>1, <1>2, Zenon DEF KeyInv
  <2>2. sessions # 0
    BY ONLY <1>1, <1>2, Zenon DEF KeyInv
  <2>3. UNCHANGED settings
    BY DEF Sample
  <2> QED
    BY <1>2, <2>1, <2>2, <2>3, KeysStay
<1> QED
  BY ONLY <1>5, <1>6, <1>7, <1>8, Zenon DEF EncInv

(* What comes out of the codec, and the last key frame of it.              *)
LEMMA GreatestIs ==
  ASSUME NEW n \in Nat, NEW S \in SUBSET (0 .. n), S # {}
  PROVE  \E m \in S : \A y \in S : y <= m
<1> DEFINE D == {n - y : y \in S}
<1>1. \A y \in S : y \in Nat /\ n - y \in Nat
  OBVIOUS
<1>2. D \in SUBSET Nat /\ D # {}
  BY <1>1
<1>3. PICK x \in D : \A e \in D : ~(<<e, x>> \in OpToRel(<, Nat))
  BY <1>2, NatLessThanWellFounded, WFMin
<1>4. PICK m \in S : x = n - m
  BY <1>3
<1>5. ASSUME NEW y \in S PROVE y <= m
  <2>1. n - y \in D /\ n - y \in Nat /\ x \in Nat
    BY <1>1, <1>2, <1>3
  <2>2. /\ <<n - y, x>> \in Nat \X Nat
        /\ <<n - y, x>>[1] = n - y /\ <<n - y, x>>[2] = x
    BY <2>1
  <2>3. <<n - y, x>> \notin OpToRel(<, Nat)
    BY <1>3, <2>1
  <2>4. ~(n - y < x)
    BY <2>2, <2>3 DEF OpToRel
  <2> QED
    BY <1>1, <1>4, <2>1, <2>4
<1> QED
  BY <1>5

LEMMA AppendFramesIs ==
  ASSUME EncTypes, NEW q \in Seq(CodecFrames), AppendFrames(q)
  PROVE  /\ pending' \in Seq(Frames) /\ Len(pending') = Len(pending) + Len(q)
         /\ \A i \in 1 .. Len(pending) + Len(q) :
              pending'[i] = IF i <= Len(pending) THEN pending[i]
                            ELSE Stamp(q[i - Len(pending)])
         /\ lastKey' \in Nat
         /\ \/ lastKey' = lastKey
            \/ \E i \in 1 .. Len(q) : q[i].key /\ lastKey' = q[i].pts * Ms
         /\ (\E i \in 1 .. Len(q) : q[i].key) =>
              \E i \in 1 .. Len(q) : q[i].key /\ lastKey' = q[i].pts * Ms
<1>1. pending \in Seq(Frames) /\ lastKey \in Nat
  BY Zenon DEF EncTypes
<1>2. DOMAIN q = 1 .. Len(q) /\ Len(q) \in Nat
  BY LenProperties
<1>3. /\ pending' \in Seq(Frames) /\ Len(pending') = Len(pending) + Len(q)
      /\ \A i \in 1 .. Len(pending) + Len(q) :
           pending'[i] = IF i <= Len(pending) THEN pending[i] ELSE Stamp(q[i - Len(pending)])
  <2> DEFINE e == Stamped(q)
  <2>1. pending' = pending \o e
    BY DEF AppendFrames
  <2>2. /\ e \in Seq(Frames) /\ Len(e) = Len(q)
        /\ \A i \in 1 .. Len(q) : e[i] = Stamp(q[i])
    BY StampedIs
  <2> HIDE DEF e
  <2>3. /\ pending' \in Seq(Frames) /\ Len(pending') = Len(pending) + Len(e)
        /\ \A i \in 1 .. Len(pending) + Len(e) :
             pending'[i] = IF i <= Len(pending) THEN pending[i] ELSE e[i - Len(pending)]
    <3>1. pending \in Seq(Frames) /\ e \in Seq(Frames)
      BY ONLY <1>1, <2>2, Zenon
    <3> QED
      BY ONLY <2>1, <3>1, ConcatProperties
  <2>4. Len(pending) \in Nat
    BY <1>1, LenProperties
  <2>5. ASSUME NEW i \in 1 .. Len(pending) + Len(q)
        PROVE  pending'[i] = IF i <= Len(pending) THEN pending[i]
                             ELSE Stamp(q[i - Len(pending)])
    <3>1. pending'[i] = IF i <= Len(pending) THEN pending[i] ELSE e[i - Len(pending)]
      BY ONLY <2>2, <2>3
    <3>2. ~(i <= Len(pending)) => i - Len(pending) \in 1 .. Len(q)
      BY ONLY <1>2, <2>4
    <3> QED
      BY ONLY <2>2, <3>1, <3>2
  <2> QED
    BY ONLY <2>2, <2>3, <2>5
<1>4. CASE \E i \in DOMAIN q : q[i].key
  <2> DEFINE S == {i \in 1 .. Len(q) : q[i].key}
  <2>1. S \in SUBSET (0 .. Len(q)) /\ S # {}
    BY <1>2, <1>4
  <2>2. PICK m \in S : \A y \in S : y <= m
    BY <1>2, <2>1, GreatestIs
  <2>3. \A j \in m + 1 .. Len(q) : ~q[j].key
    <3> SUFFICES ASSUME NEW j \in m + 1 .. Len(q), q[j].key PROVE FALSE
      OBVIOUS
    <3>1. j \in 1 .. Len(q) /\ ~(j <= m)
      BY <1>2, <2>2
    <3> QED
      BY <2>2, <3>1
  <2>4. \E k \in DOMAIN q : q[k].key /\ \A j \in k + 1 .. Len(q) : ~q[j].key
    BY <1>2, <2>2, <2>3
  <2>5. LastKeyOf(q) \in DOMAIN q /\ q[LastKeyOf(q)].key
    BY <2>4, Zenon DEF LastKeyOf
  <2>6. lastKey' = q[LastKeyOf(q)].pts * Ms
    <3>1. lastKey' = Stamp(q[LastKeyOf(q)]).start
      BY <1>4 DEF AppendFrames
    <3> QED
      BY ONLY <3>1 DEF Stamp
  <2>7. q[LastKeyOf(q)].pts \in Nat
    <3>1. q[LastKeyOf(q)] \in CodecFrames
      BY <1>2, <2>5
    <3> QED
      BY ONLY <3>1 DEF CodecFrames
  <2>8. lastKey' \in Nat
    BY ONLY <2>6, <2>7 DEF Ms
  <2>9. LastKeyOf(q) \in 1 .. Len(q)
    BY ONLY <1>2, <2>5
  <2> QED
    BY ONLY <1>3, <2>5, <2>6, <2>8, <2>9
<1>5. CASE ~\E i \in DOMAIN q : q[i].key
  <2>1. lastKey' = lastKey
    BY <1>5 DEF AppendFrames
  <2> QED
    BY <1>1, <1>2, <1>3, <1>5, <2>1
<1> QED
  BY <1>4, <1>5

LEMMA OutAndKept ==
  ASSUME NEW q \in Seq(CodecFrames), NEW n \in 0 .. Len(q)
  PROVE  /\ Out(q, n) \in Seq(CodecFrames) /\ Kept(q, n) \in Seq(CodecFrames)
         /\ Len(Out(q, n)) = Len(q) - n /\ Len(Kept(q, n)) = n
         /\ \A i \in 1 .. Len(q) - n : Out(q, n)[i] = q[i]
         /\ \A i \in 1 .. n : Kept(q, n)[i] = q[Len(q) - n + i]
<1>1. Len(q) \in Nat /\ \A i \in 1 .. Len(q) : q[i] \in CodecFrames
  BY LenProperties
<1>2. /\ Out(q, n) \in Seq(CodecFrames) /\ Len(Out(q, n)) = Len(q) - n
      /\ \A i \in 1 .. Len(q) - n : Out(q, n)[i] = q[i]
  <2>1. \A i \in 1 .. Len(q) - n : q[i] \in CodecFrames
    BY <1>1
  <2>2. /\ Out(q, n) \in Seq(CodecFrames)
        /\ Len(Out(q, n)) = IF 1 <= Len(q) - n THEN Len(q) - n - 1 + 1 ELSE 0
        /\ \A i \in 1 .. Len(q) - n - 1 + 1 : Out(q, n)[i] = q[1 + i - 1]
    BY <1>1, <2>1, SubSeqProperties DEF Out
  <2> QED
    BY <1>1, <2>2
<1>3. /\ Kept(q, n) \in Seq(CodecFrames) /\ Len(Kept(q, n)) = n
      /\ \A i \in 1 .. n : Kept(q, n)[i] = q[Len(q) - n + i]
  <2> DEFINE m == Len(q) - n + 1
  <2>1. m \in Int /\ \A i \in m .. Len(q) : q[i] \in CodecFrames
    BY <1>1
  <2>2. Kept(q, n) = SubSeq(q, m, Len(q))
    BY DEF Kept
  <2>3. /\ Kept(q, n) \in Seq(CodecFrames)
        /\ Len(Kept(q, n)) = IF m <= Len(q) THEN Len(q) - m + 1 ELSE 0
        /\ \A i \in 1 .. Len(q) - m + 1 : Kept(q, n)[i] = q[m + i - 1]
    <3> HIDE DEF m
    <3> QED
      BY <1>1, <2>1, <2>2, SubSeqProperties
  <2>4. Len(q) - m + 1 = n /\ \A i \in 1 .. n : m + i - 1 = Len(q) - n + i
    BY <1>1
  <2> QED
    BY <1>1, <2>3, <2>4
<1> QED
  BY <1>2, <1>3

(* The end of the stream: the codec gives out all it has kept back.        *)
LEMMA EndOfStreamKeeps ==
  ASSUME EncInv, EndOfStream
  PROVE  EncInv'
<1> USE DEF settings, outpin, history, bounds
<1>1. EncTypes /\ PlaceInv /\ FlowInv /\ TimesInv /\ KeyInv
  BY Zenon DEF EncInv
<1>2. /\ up = Idle /\ active /\ ~eos /\ eos' = TRUE /\ inCodec' = <<>>
      /\ AppendFrames(inCodec) /\ Continue("eos")
      /\ UNCHANGED <<lagInFrames, interval, active, flush, start, received, force, disc, given,
                     committed, held, time, sent, short, ended, due, sessions>>
  BY Zenon DEF EndOfStream
<1>3. inCodec \in Seq(CodecFrames) /\ pending \in Seq(Frames) /\ sent \in Seq(SentFrames)
      /\ given \in Seq(CodecFrames)
  BY <1>1, Zenon DEF EncTypes
<1>4. /\ Len(inCodec) \in Nat /\ Len(pending) \in Nat /\ Len(sent) \in Nat /\ Len(given) \in Nat
  BY <1>3, LenProperties
<1>5. /\ pending' \in Seq(Frames) /\ Len(pending') = Len(pending) + Len(inCodec)
      /\ \A i \in 1 .. Len(pending) + Len(inCodec) :
           pending'[i] = IF i <= Len(pending) THEN pending[i]
                         ELSE Stamp(inCodec[i - Len(pending)])
      /\ lastKey' \in Nat
      /\ \/ lastKey' = lastKey
         \/ \E i \in 1 .. Len(inCodec) : inCodec[i].key /\ lastKey' = inCodec[i].pts * Ms
  BY <1>1, <1>2, <1>3, AppendFramesIs
<1>6. ~ended /\ ended' = ended
  BY <1>1, <1>2, Zenon DEF PlaceInv
<1>7. UpType' /\ PlaceInv' /\ up'.at # "render"
  <2>1. ~ended' /\ eos'
    BY <1>2, <1>6
  <2> QED
    BY <1>2, <2>1, ContinueIs
<1>8. EncTypes'
  <2>1. inCodec' \in Seq(CodecFrames)
    BY <1>2, EmptySeq
  <2>2. eos' \in BOOLEAN
    BY ONLY <1>2, Zenon
  <2> QED
    BY ONLY <1>1, <1>2, <1>5, <1>7, <2>1, <2>2, Zenon DEF EncTypes
<1>9. FlowInv'
  <2>1. Len(sent) + Len(pending) + Len(inCodec) = Len(given)
    BY <1>1, <1>2 DEF FlowInv
  <2>2. Len(inCodec') = 0
    BY <1>2
  <2>3. ASSUME NEW i \in 1 .. Len(pending') PROVE pending'[i] = Stamp(given'[Len(sent') + i])
    <3>1. CASE i <= Len(pending)
      <4>1. i \in 1 .. Len(pending) /\ pending'[i] = pending[i]
        BY <1>4, <1>5, <3>1
      <4> QED
        BY <1>1, <1>2, <4>1 DEF FlowInv
    <3>2. CASE ~(i <= Len(pending))
      <4>1. i - Len(pending) \in 1 .. Len(inCodec) /\ pending'[i] = Stamp(inCodec[i - Len(pending)])
        BY <1>4, <1>5, <3>2
      <4>2. inCodec[i - Len(pending)] = given[Len(sent) + Len(pending) + (i - Len(pending))]
        BY <1>1, <4>1 DEF FlowInv
      <4>3. Len(sent) + Len(pending) + (i - Len(pending)) = Len(sent) + i
        BY <1>4
      <4> QED
        BY <1>2, <4>1, <4>2, <4>3
    <3> QED
      BY <3>1, <3>2
  <2>4. \A i \in 1 .. Len(sent') : SentIs(sent'[i], given'[i])
    BY <1>1, <1>2 DEF FlowInv
  <2>5. Len(sent') + Len(pending') = Len(given')
    BY <1>2, <1>4, <1>5, <2>1
  <2>6. Len(given') \in Nat /\ Len(sent') + Len(pending') + Len(inCodec') = Len(given')
    BY <1>2, <1>4, <2>2, <2>5
  <2> QED
    BY <1>2, <1>7, <2>2, <2>3, <2>4, <2>5, <2>6 DEF FlowInv
<1>10. TimesInv'
  BY <1>2, TimesStay
<1>11. KeyInv'
  <2>1. ASSUME NEW k \in 1 .. Len(given), LastKeyIs(k, Len(given)), KeyTime(k)
        PROVE  KeyTime(k)'
    <3>1. ASSUME NEW i \in 1 .. Len(inCodec), inCodec[i].key, lastKey' = inCodec[i].pts * Ms
          PROVE  lastKey' <= given[k].from
      <4> DEFINE j == Len(sent) + Len(pending) + i
      <4>1. j \in 1 .. Len(given) /\ inCodec[i] = given[j]
        BY <1>1, <1>4, <3>1 DEF FlowInv
      <4>2. j <= k
        BY <1>4, <2>1, <3>1, <4>1 DEF LastKeyIs
      <4>3. given[j].from \in Nat /\ given[k].from \in Nat
        <5>1. given[j] \in CodecFrames /\ given[k] \in CodecFrames
          BY ONLY <1>3, <4>1, k \in 1 .. Len(given), ElementOfSeq
        <5> QED
          BY ONLY <5>1 DEF CodecFrames
      <4>4. j = k \/ given[j].from < given[k].from
        BY <1>1, <1>4, <4>1, <4>2 DEF TimesInv
      <4>5. lastKey' \in Nat /\ lastKey' <= given[j].from
        <5>1. given[j].pts = given[j].from \div Ms
          BY <1>1, <4>1 DEF TimesInv
        <5>2. lastKey' = (given[j].from \div Ms) * Ms
          BY ONLY <3>1, <4>1, <5>1
        <5> QED
          BY ONLY <4>3, <5>2, StampWithin
      <4> QED
        BY ONLY <4>3, <4>4, <4>5
    <3>2. lagInFrames = 0 => lastKey' = lastKey
      <4>1. lagInFrames = 0 => Len(inCodec) = 0
        BY <1>1 DEF KeyInv
      <4> QED
        BY <1>4, <1>5, <4>1
    <3>3. lastKey' <= given[k].from
      BY <1>5, <2>1, <3>1 DEF KeyTime
    <3>4. given' = given /\ lagInFrames' = lagInFrames
      BY <1>2
    <3> QED
      BY ONLY <2>1, <3>2, <3>3, <3>4 DEF KeyTime
  <2>2. given = <<>> => lastKey' = lastKey
    <3>1. given = <<>> => Len(inCodec) = 0
      BY <1>1, <1>4 DEF FlowInv
    <3> QED
      BY <1>4, <1>5, <3>1
  <2> QED
    BY <1>1, <1>2, <2>1, <2>2 DEF KeyInv, LastKeyIs, KeyTime
<1> QED
  BY ONLY <1>7, <1>8, <1>9, <1>10, <1>11, Zenon DEF EncInv

(* A sample is encoded: dropped, refused by a codec that is gone, or given *)
(* to it.                                                                  *)
LEMMA EncodeDropped ==
  ASSUME EncInv, Encode, ~Used
  PROVE  EncInv'
<1> USE DEF settings, encoder, outpin, history, bounds
<1>1. EncTypes /\ PlaceInv /\ FlowInv /\ TimesInv /\ KeyInv
  BY Zenon DEF EncInv
<1>2. /\ up.at = "render" /\ up' = Idle
      /\ UNCHANGED <<start, force, due, lastKey, encoder, pending>>
      /\ UNCHANGED <<lagInFrames, interval, active, eos, flush, received, disc, committed, held,
                     time, sent, short, ended, sessions, settings>>
  BY Zenon DEF Encode
<1>3. up'.at = "idle"
  BY <1>2 DEF Idle
<1>4. up # Idle
  BY <1>2 DEF Idle
<1>5. EncTypes'
  <2>1. UpType'
    BY <1>2 DEF UpType
  <2> QED
    BY ONLY <1>1, <1>2, <2>1, Zenon DEF EncTypes, encoder
<1>6. PlaceInv'
  <2>1. (~short => pending = <<>>) /\ ~ended
    BY <1>1, <1>2, <1>4 DEF PlaceInv, Loop
  <2> QED
    BY <1>2, <1>3, <2>1 DEF PlaceInv, Loop
<1>7. FlowInv'
  <2>1. eos' => eos /\ up'.at # "render"
    BY <1>2, <1>3
  <2> QED
    BY <1>2, <2>1, FlowStays
<1>8. TimesInv'
  BY <1>2, TimesStay
<1>9. KeyInv'
  <2>1. due' => force' \/ given = <<>> \/ ~active'
    BY <1>1, <1>2 DEF KeyInv
  <2>2. sessions = 0 => ~active' /\ up' = Idle
    BY <1>1, <1>2 DEF KeyInv
  <2> QED
    BY <1>2, <2>1, <2>2, KeysStay
<1> QED
  BY ONLY <1>5, <1>6, <1>7, <1>8, <1>9, Zenon DEF EncInv

LEMMA EncodeRefused ==
  ASSUME EncInv, Encode, Used, ~active
  PROVE  EncInv'
<1> USE DEF settings, encoder, outpin, history, bounds
<1>1. EncTypes /\ PlaceInv /\ FlowInv /\ TimesInv /\ KeyInv
  BY Zenon DEF EncInv
<1>2. /\ up.at = "render" /\ Continue("receive")
      /\ start' = (IF start < 0 THEN 0 ELSE up.t)
      /\ force' = (IF force \/ up.disc \/ start < 0 THEN FALSE ELSE force)
      /\ UNCHANGED <<due, lastKey, encoder, pending>>
      /\ UNCHANGED <<lagInFrames, interval, active, eos, flush, received, disc, committed, held,
                     time, sent, short, ended, sessions, settings>>
  BY Zenon DEF Encode
<1>3. up # Idle /\ ~ended
  BY <1>1, <1>2 DEF PlaceInv, Idle
<1>4. UpType' /\ PlaceInv' /\ up'.at # "render"
  BY <1>2, <1>3, ContinueIs
<1>5. EncTypes'
  <2>1. start' \in Nat \cup {-1}
    BY <1>1, <1>2, UpIs DEF EncTypes, Used
  <2>2. force' \in BOOLEAN
    BY ONLY <1>1, <1>2 DEF EncTypes
  <2> QED
    BY ONLY <1>1, <1>2, <1>4, <2>1, <2>2, Zenon DEF EncTypes, encoder
<1>6. FlowInv'
  <2>1. eos' => eos /\ up'.at # "render"
    BY <1>2, <1>4
  <2> QED
    BY <1>2, <2>1, FlowStays
<1>7. TimesInv'
  BY <1>1, <1>2, <1>3 DEF TimesInv
<1>8. KeyInv'
  <2>1. sessions # 0
    BY <1>1, <1>3 DEF KeyInv
  <2> QED
    BY <1>2, <2>1, KeysStay
<1> QED
  BY ONLY <1>4, <1>5, <1>6, <1>7, <1>8, Zenon DEF EncInv

LEMMA EncodeTaken ==
  ASSUME EncInv, Encode, Used, active
  PROVE  EncInv'
<1> USE DEF settings, outpin, history, bounds
<1> DEFINE f == Picture(start')
           q == Append(inCodec, f)
           n == IF Len(q) < lagInFrames THEN Len(q) ELSE lagInFrames
<1>1. EncTypes /\ PlaceInv /\ FlowInv /\ TimesInv /\ KeyInv
  BY Zenon DEF EncInv
<1>2. /\ up.at = "render" /\ Continue("receive")
      /\ start' = (IF start < 0 THEN 0 ELSE up.t)
      /\ force' = (IF force \/ up.disc \/ start < 0 THEN FALSE ELSE force)
      /\ given' = Append(given, f)
      /\ due' = (due /\ ~f.key)
      /\ inCodec' = Kept(q, n) /\ AppendFrames(Out(q, n))
      /\ UNCHANGED <<lagInFrames, interval, active, eos, flush, received, disc, committed, held,
                     time, sent, short, ended, sessions>>
  BY Zenon DEF Encode
<1>3. up # Idle /\ ~ended
  BY <1>1, <1>2 DEF PlaceInv, Idle
<1>4. UpType' /\ PlaceInv' /\ up'.at # "render"
  BY <1>2, <1>3, ContinueIs
<1>5. up.t \in Nat /\ up.disc \in BOOLEAN /\ start \in Nat \cup {-1} /\ start' \in Nat
  BY <1>1, <1>2, UpIs DEF EncTypes, Used
<1>6. Forced \in BOOLEAN /\ f \in CodecFrames
  <2>1. Forced \in BOOLEAN
    BY DEF Forced
  <2>2. start' \div Ms \in Nat
    <3>1. Ms \in Nat \ {0} /\ start' \in Nat
      BY <1>5 DEF Ms
    <3> QED
      BY ONLY <3>1, QuotientIs
  <2> QED
    BY <1>5, <2>1, <2>2 DEF CodecFrames, Picture
<1>7. f.from = start' /\ f.pts = f.from \div Ms /\ (f.key <=> Forced)
  BY <1>6 DEF Picture
<1> HIDE DEF f
<1>8. inCodec \in Seq(CodecFrames) /\ pending \in Seq(Frames) /\ sent \in Seq(SentFrames)
      /\ given \in Seq(CodecFrames)
  BY <1>1, Zenon DEF EncTypes
<1>9. /\ Len(inCodec) \in Nat /\ Len(pending) \in Nat /\ Len(sent) \in Nat /\ Len(given) \in Nat
  BY <1>8, LenProperties
<1>10. /\ given' \in Seq(CodecFrames) /\ Len(given') = Len(given) + 1
       /\ given'[Len(given) + 1] = f /\ \A i \in 1 .. Len(given) : given'[i] = given[i]
  BY <1>2, <1>6, <1>8, AppendProperties
<1>11. /\ q \in Seq(CodecFrames) /\ Len(q) = Len(inCodec) + 1
       /\ q[Len(inCodec) + 1] = f /\ \A i \in 1 .. Len(inCodec) : q[i] = inCodec[i]
  BY <1>6, <1>8, AppendProperties
<1>12. n \in 0 .. Len(q) /\ (lagInFrames = 0 => n = 0)
  <2> HIDE DEF q
  <2> QED
    BY <1>1, <1>9, <1>11 DEF EncTypes
<1> HIDE DEF q, n
<1>13. /\ Out(q, n) \in Seq(CodecFrames) /\ inCodec' \in Seq(CodecFrames)
       /\ Len(Out(q, n)) = Len(q) - n /\ Len(inCodec') = n
       /\ \A i \in 1 .. Len(q) - n : Out(q, n)[i] = q[i]
       /\ \A i \in 1 .. n : inCodec'[i] = q[Len(q) - n + i]
  BY <1>2, <1>11, <1>12, OutAndKept
<1>14. /\ pending' \in Seq(Frames) /\ Len(pending') = Len(pending) + (Len(q) - n)
       /\ \A i \in 1 .. Len(pending) + (Len(q) - n) :
            pending'[i] = IF i <= Len(pending) THEN pending[i]
                          ELSE Stamp(Out(q, n)[i - Len(pending)])
       /\ lastKey' \in Nat
       /\ \/ lastKey' = lastKey
          \/ \E i \in 1 .. Len(q) - n : q[i].key /\ lastKey' = q[i].pts * Ms
       /\ (\E i \in 1 .. Len(q) - n : q[i].key) =>
            \E i \in 1 .. Len(q) - n : q[i].key /\ lastKey' = q[i].pts * Ms
  <2>1. /\ pending' \in Seq(Frames) /\ Len(pending') = Len(pending) + Len(Out(q, n))
        /\ \A i \in 1 .. Len(pending) + Len(Out(q, n)) :
             pending'[i] = IF i <= Len(pending) THEN pending[i]
                           ELSE Stamp(Out(q, n)[i - Len(pending)])
        /\ lastKey' \in Nat
        /\ \/ lastKey' = lastKey
           \/ \E i \in 1 .. Len(Out(q, n)) : Out(q, n)[i].key /\ lastKey' = Out(q, n)[i].pts * Ms
        /\ (\E i \in 1 .. Len(Out(q, n)) : Out(q, n)[i].key) =>
             \E i \in 1 .. Len(Out(q, n)) : Out(q, n)[i].key /\ lastKey' = Out(q, n)[i].pts * Ms
    BY <1>1, <1>2, <1>13, AppendFramesIs
  <2> QED
    BY <1>13, <2>1
<1>15. Len(sent) + Len(pending) + Len(inCodec) = Len(given)
  BY <1>1 DEF FlowInv
<1>16. ASSUME NEW j \in 1 .. Len(q)
       PROVE  /\ q[j] = given'[Len(sent) + Len(pending) + j]
              /\ Len(sent) + Len(pending) + j \in 1 .. Len(given')
  <2>1. CASE j = Len(inCodec) + 1
    BY <1>9, <1>10, <1>11, <1>15, <2>1, SMTT(30)
  <2>2. CASE j # Len(inCodec) + 1
    <3>1. j \in 1 .. Len(inCodec)
      BY <1>9, <1>11, <2>2
    <3>2. q[j] = given[Len(sent) + Len(pending) + j]
      BY <1>1, <1>11, <3>1 DEF FlowInv
    <3>3. Len(sent) + Len(pending) + j \in 1 .. Len(given)
      BY <1>9, <1>15, <3>1
    <3> QED
      BY <1>9, <1>10, <3>2, <3>3
  <2> QED
    BY <2>1, <2>2
<1>17. EncTypes'
  <2>1. start' \in Nat \cup {-1}
    BY <1>5
  <2>2. force' \in BOOLEAN /\ due' \in BOOLEAN
    BY ONLY <1>1, <1>2 DEF EncTypes
  <2> QED
    BY ONLY <1>1, <1>2, <1>4, <1>10, <1>13, <1>14, <2>1, <2>2, Zenon DEF EncTypes
<1>18. FlowInv'
  <2>1. ~eos'
    BY <1>1, <1>2 DEF FlowInv
  <2>2. Len(sent') + Len(pending') + Len(inCodec') = Len(given') /\ Len(given') \in Nat
    <3>1. /\ Len(sent') = Len(sent) /\ Len(pending') = Len(pending) + (Len(q) - n)
          /\ Len(inCodec') = n /\ Len(given') = Len(given) + 1 /\ Len(q) = Len(inCodec) + 1
          /\ n \in 0 .. Len(q)
      BY <1>2, <1>10, <1>11, <1>12, <1>13, <1>14
    <3> QED
      BY ONLY <1>9, <1>15, <3>1
  <2>3. ASSUME NEW i \in 1 .. Len(sent')
        PROVE  SentIs(sent'[i], given'[i])
    <3>1. i \in 1 .. Len(sent) /\ i \in 1 .. Len(given) /\ sent' = sent
      BY <1>2, <1>9, <1>15, <2>3
    <3> QED
      BY <1>1, <1>10, <3>1 DEF FlowInv
  <2>4. ASSUME NEW i \in 1 .. Len(pending') PROVE pending'[i] = Stamp(given'[Len(sent') + i])
    <3>1. CASE i <= Len(pending)
      <4>1. i \in 1 .. Len(pending) /\ pending'[i] = pending[i]
        BY <1>9, <1>11, <1>12, <1>14, <3>1
      <4>2. Len(sent) + i \in 1 .. Len(given) /\ pending[i] = Stamp(given[Len(sent) + i])
        BY <1>1, <1>9, <1>15, <4>1 DEF FlowInv
      <4> QED
        BY <1>2, <1>10, <4>1, <4>2
    <3>2. CASE ~(i <= Len(pending))
      <4> DEFINE j == i - Len(pending)
      <4>1. j \in 1 .. Len(q) - n /\ j \in 1 .. Len(q) /\ Len(pending) + j = i
        BY <1>9, <1>11, <1>12, <1>14, <3>2
      <4>2. pending'[i] = Stamp(q[j])
        BY <1>9, <1>11, <1>12, <1>13, <1>14, <3>2, <4>1
      <4>3. q[j] = given'[Len(sent) + Len(pending) + j]
        BY <1>16, <4>1
      <4>4. Len(sent) + Len(pending) + j = Len(sent') + i
        BY <1>2, <1>9, <4>1
      <4> QED
        BY <4>2, <4>3, <4>4
    <3> QED
      BY <3>1, <3>2
  <2>5. ASSUME NEW i \in 1 .. Len(inCodec')
        PROVE  inCodec'[i] = given'[Len(sent') + Len(pending') + i]
    <3> DEFINE j == Len(q) - n + i
    <3>1. j \in 1 .. Len(q) /\ inCodec'[i] = q[j]
      BY <1>9, <1>11, <1>12, <1>13
    <3>2. q[j] = given'[Len(sent) + Len(pending) + j]
      BY <1>16, <3>1
    <3>3. Len(sent) + Len(pending) + j = Len(sent') + Len(pending') + i
      BY <1>2, <1>9, <1>11, <1>12, <1>13, <1>14
    <3> QED
      BY <3>1, <3>2, <3>3
  <2> QED
    BY <2>1, <2>2, <2>3, <2>4, <2>5 DEF FlowInv
<1>19. /\ given = <<>> => start = -1
       /\ given # <<>> => start \in Nat /\ start' = up.t /\ up.t > start
  <2>1. start = -1 <=> given = <<>>
    BY <1>1 DEF TimesInv
  <2> QED
    BY <1>2, <1>5, <2>1 DEF Used
<1>20. \A i \in 1 .. Len(given) : given[i].from < start' /\ given[i].from \in Nat
  <2> SUFFICES ASSUME NEW i \in 1 .. Len(given) PROVE given[i].from < start' /\ given[i].from \in Nat
    OBVIOUS
  <2>1. given # <<>> /\ given[i] \in CodecFrames
    BY <1>8, ElementOfSeq
  <2>2. given[i].from \in Nat
    BY ONLY <2>1 DEF CodecFrames
  <2>3. given[i].from <= start
    BY <1>1 DEF TimesInv
  <2> QED
    BY <1>5, <1>19, <2>1, <2>2, <2>3
<1>21. given' # <<>>
  BY <1>9, <1>10, EmptySeq
<1>22. TimesInv'
  <2>1. (disc' <=> sent' = <<>>) /\ \A i \in 1 .. Len(sent') : sent'[i].disc <=> i = 1
    BY <1>1, <1>2 DEF TimesInv
  <2>2. \A i \in 1 .. Len(given') : given'[i].from <= start'
    <3> SUFFICES ASSUME NEW i \in 1 .. Len(given') PROVE given'[i].from <= start'
      OBVIOUS
    <3>1. CASE i = Len(given) + 1
      BY <1>5, <1>7, <1>10, <3>1
    <3>2. CASE i # Len(given) + 1
      <4>1. i \in 1 .. Len(given) /\ given'[i] = given[i]
        BY <1>9, <1>10, <3>2
      <4> QED
        BY <1>5, <1>20, <4>1
    <3> QED
      BY <3>1, <3>2
  <2>3. ASSUME NEW i \in 1 .. Len(given'), NEW j \in 1 .. Len(given'), i < j
        PROVE  given'[i].from < given'[j].from
    <3>1. i \in 1 .. Len(given) /\ given'[i] = given[i]
      BY <1>9, <1>10, <2>3
    <3>2. CASE j = Len(given) + 1
      BY <1>7, <1>10, <1>20, <3>1, <3>2
    <3>3. CASE j # Len(given) + 1
      <4>1. j \in 1 .. Len(given) /\ given'[j] = given[j]
        BY <1>9, <1>10, <3>3
      <4> QED
        BY <1>1, <2>3, <3>1, <4>1 DEF TimesInv
    <3> QED
      BY <3>2, <3>3
  <2>4. ~(start' = -1)
    BY <1>5
  <2>5. ASSUME NEW i \in 1 .. Len(given') PROVE given'[i].pts = given'[i].from \div Ms
    <3>1. CASE i = Len(given) + 1
      BY ONLY <1>7, <1>10, <3>1
    <3>2. CASE i # Len(given) + 1
      <4>1. i \in 1 .. Len(given) /\ given'[i] = given[i]
        BY <1>9, <1>10, <3>2
      <4> QED
        BY <1>1, <4>1 DEF TimesInv
    <3> QED
      BY <3>1, <3>2
  <2> QED
    BY <1>21, <2>1, <2>2, <2>3, <2>4, <2>5 DEF TimesInv
<1>23. given'[1].key
  <2>1. CASE given = <<>>
    <3>1. Len(given) = 0 /\ given'[1] = f
      BY <1>10, <2>1
    <3>2. Forced
      BY <1>19, <2>1 DEF Forced
    <3> QED
      BY <1>7, <3>1, <3>2
  <2>2. CASE given # <<>>
    <3>1. 1 \in 1 .. Len(given)
      BY <1>8, <1>9, <2>2, EmptySeq
    <3> QED
      BY <1>1, <1>10, <2>2, <3>1 DEF KeyInv
  <2> QED
    BY <2>1, <2>2
<1>24. ~due' \/ force'
  <2>1. force => Forced
    BY DEF Forced
  <2>2. given = <<>> => Forced
    BY <1>19 DEF Forced
  <2>3. due => force \/ given = <<>>
    BY <1>1 DEF KeyInv
  <2> QED
    BY <1>2, <1>7, <2>1, <2>2, <2>3
<1>25. lagInFrames' = 0 => inCodec' = <<>>
  BY <1>2, <1>12, <1>13, EmptySeq
<1>26. ASSUME NEW i \in 1 .. Len(q), q[i].key
       PROVE  \A k \in 1 .. Len(given') :
                LastKeyIs(k, Len(given))' => q[i].pts * Ms <= given'[k].from
  <2> SUFFICES ASSUME NEW k \in 1 .. Len(given'), LastKeyIs(k, Len(given))'
               PROVE  q[i].pts * Ms <= given'[k].from
    OBVIOUS
  <2> DEFINE j == Len(sent) + Len(pending) + i
  <2>1. j \in 1 .. Len(given') /\ q[i] = given'[j]
    BY <1>16
  <2>2. Len(given') \in Nat
    BY <1>9, <1>10
  <2>3. j <= k
    BY <1>26, <2>1, <2>2 DEF LastKeyIs
  <2>4. given'[j].from \in Nat
    <3>1. given'[j] \in CodecFrames
      BY <1>10, <2>1, ElementOfSeq
    <3> QED
      BY ONLY <3>1 DEF CodecFrames
  <2>5. j = k \/ given'[j].from < given'[k].from
    BY <1>22, <2>1, <2>2, <2>3 DEF TimesInv
  <2>6. given'[k] \in CodecFrames
    BY <1>10, ElementOfSeq
  <2>7. given'[k].from \in Nat
    BY ONLY <2>6 DEF CodecFrames
  <2>8. q[i].pts * Ms \in Nat /\ q[i].pts * Ms <= given'[j].from
    <3>1. given'[j].pts = given'[j].from \div Ms
      BY <1>22, <2>1 DEF TimesInv
    <3> HIDE DEF j
    <3>2. q[i].pts * Ms = (given'[j].from \div Ms) * Ms
      BY ONLY <2>1, <3>1
    <3> QED
      BY ONLY <2>4, <3>2, StampWithin
  <2> QED
    BY ONLY <2>4, <2>5, <2>7, <2>8
<1>27. ASSUME f.key
       PROVE  \E k \in 1 .. Len(given') :
                /\ LastKeyIs(k, Len(given))'
                /\ (sessions = 1 \/ lagInFrames = 0) => KeyTime(k)'
  <2>1. PICK k \in 1 .. Len(given') : k = Len(given) + 1 /\ given'[k] = f
    BY <1>9, <1>10
  <2>2. LastKeyIs(k, Len(given))'
    BY <1>9, <1>10, <1>27, <2>1 DEF LastKeyIs
  <2>3. (sessions = 1 \/ lagInFrames = 0) => lastKey' <= f.from
    <3>1. CASE \E i \in 1 .. Len(q) - n : q[i].key
      <4>1. PICK i \in 1 .. Len(q) - n : q[i].key /\ lastKey' = q[i].pts * Ms
        BY <1>14, <3>1
      <4>2. i \in 1 .. Len(q)
        BY <1>9, <1>11, <1>12
      <4> QED
        BY <1>26, <2>1, <2>2, <4>1, <4>2
    <3>2. CASE ~\E i \in 1 .. Len(q) - n : q[i].key
      <4>1. lastKey' = lastKey
        BY <1>14, <3>2
      <4>2. lagInFrames # 0
        BY <1>9, <1>11, <1>12, <1>27, <3>2
      <4>3. CASE given = <<>> /\ sessions = 1
        BY <1>1, <1>5, <1>7, <4>1, <4>3 DEF KeyInv
      <4>4. CASE given # <<>> /\ sessions = 1
        <5>1. PICK k0 \in 1 .. Len(given) : lastKey <= given[k0].from
          BY <1>1, <4>4 DEF KeyInv, KeyTime
        <5>2. given[k0].from < f.from /\ given[k0].from \in Nat /\ lastKey \in Nat
          BY <1>1, <1>7, <1>20 DEF EncTypes
        <5> QED
          BY <1>5, <1>7, <4>1, <5>1, <5>2
      <4> QED
        BY <4>2, <4>3, <4>4
    <3> QED
      BY <3>1, <3>2
  <2>4. lagInFrames = 0 => f.from < lastKey' + Ms
    <3> SUFFICES ASSUME lagInFrames = 0 PROVE f.from < lastKey' + Ms
      OBVIOUS
    <3>1. Len(inCodec) = 0 /\ n = 0
      BY <1>1, <1>12 DEF KeyInv
    <3>2. Len(q) = 1 /\ q[1] = f
      BY ONLY <1>11, <3>1
    <3>3. PICK i \in 1 .. Len(q) - n : q[i].key /\ lastKey' = q[i].pts * Ms
      BY <1>14, <1>27, <3>1, <3>2
    <3>4. i = 1
      BY ONLY <3>1, <3>2, <3>3
    <3>5. lastKey' = (f.from \div Ms) * Ms
      BY ONLY <1>7, <3>2, <3>3, <3>4
    <3>6. f.from \in Nat
      BY <1>5, <1>7
    <3> QED
      BY ONLY <3>5, <3>6, StampWithin
  <2>5. lagInFrames' = lagInFrames
    BY <1>2
  <2> QED
    BY ONLY <2>1, <2>2, <2>3, <2>4, <2>5 DEF KeyTime
<1>28. ASSUME ~f.key, sessions = 1 \/ lagInFrames = 0
       PROVE  \E k \in 1 .. Len(given) :
                /\ LastKeyIs(k, Len(given))' /\ KeyTime(k)'
                /\ interval > 0 => f.from - given[k].from < interval
  <2>1. given # <<>>
    BY <1>7, <1>19, <1>28 DEF Forced
  <2>2. PICK k \in 1 .. Len(given) : LastKeyIs(k, Len(given)) /\ KeyTime(k)
    BY <1>1, <1>28, <2>1 DEF KeyInv
  <2>3. given'[k] = given[k] /\ k \in 1 .. Len(given')
    BY <1>9, <1>10
  <2>4. LastKeyIs(k, Len(given))'
    <3> SUFFICES ASSUME NEW j \in k + 1 .. Len(given') PROVE ~given'[j].key
      BY <2>2, <2>3 DEF LastKeyIs
    <3>1. CASE j = Len(given) + 1
      BY <1>10, <1>28, <3>1
    <3>2. CASE j # Len(given) + 1
      <4>1. j \in k + 1 .. Len(given) /\ j \in 1 .. Len(given)
        BY <1>9, <1>10, <3>2
      <4> QED
        BY <1>10, <2>2, <4>1 DEF LastKeyIs
    <3> QED
      BY <3>1, <3>2
  <2>5. lastKey' <= given'[k].from
    <3>1. CASE lastKey' = lastKey
      BY <2>2, <2>3, <3>1 DEF KeyTime
    <3>2. CASE lastKey' # lastKey
      <4>1. PICK i \in 1 .. Len(q) - n : q[i].key /\ lastKey' = q[i].pts * Ms
        BY <1>14, <3>2
      <4>2. i \in 1 .. Len(q)
        BY <1>9, <1>11, <1>12
      <4> QED
        BY <1>26, <2>3, <2>4, <4>1, <4>2
    <3> QED
      BY <3>1, <3>2
  <2>6. interval > 0 => f.from - given[k].from < interval
    <3>1. interval > 0 => ~(up.t - lastKey >= interval)
      BY <1>7, <1>28 DEF Forced
    <3>2. f.from = up.t /\ given[k].from \in Nat /\ lastKey \in Nat /\ interval \in Nat
      BY <1>1, <1>7, <1>19, <1>20, <2>1 DEF EncTypes
    <3>3. lastKey <= given[k].from
      BY <2>2 DEF KeyTime
    <3> QED
      BY ONLY <1>5, <3>1, <3>2, <3>3
  <2>7. lagInFrames = 0 => lastKey' = lastKey
    <3> SUFFICES ASSUME lagInFrames = 0 PROVE lastKey' = lastKey
      OBVIOUS
    <3>1. Len(inCodec) = 0 /\ n = 0
      BY <1>1, <1>12 DEF KeyInv
    <3>2. Len(q) = 1 /\ q[1] = f
      BY ONLY <1>11, <3>1
    <3>3. \A i \in 1 .. Len(q) - n : ~q[i].key
      BY ONLY <1>28, <3>1, <3>2
    <3> QED
      BY ONLY <1>14, <3>3
  <2>8. KeyTime(k)'
    <3>1. lagInFrames' = lagInFrames
      BY <1>2
    <3> QED
      BY ONLY <2>2, <2>3, <2>5, <2>7, <3>1 DEF KeyTime
  <2> QED
    BY ONLY <2>2, <2>4, <2>6, <2>8
<1>29. (sessions = 1 \/ lagInFrames = 0) =>
         \E k \in 1 .. Len(given') : LastKeyIs(k, Len(given))' /\ KeyTime(k)'
  <2>1. \A k \in 1 .. Len(given) : k \in 1 .. Len(given')
    BY <1>9, <1>10
  <2>2. CASE f.key
    BY <1>27, <2>2
  <2>3. CASE ~f.key
    BY <1>28, <2>1, <2>3
  <2> QED
    BY <2>2, <2>3
<1>30. ASSUME interval > 0, sessions = 1 \/ lagInFrames = 0,
              NEW i \in 2 .. Len(given'), ~given'[i].key
       PROVE  \E k \in 1 .. i - 1 : LastKeyIs(k, i - 1)' /\ given'[i].from - given'[k].from < interval
  <2>1. CASE i = Len(given) + 1
    <3>1. given'[i] = f /\ i - 1 = Len(given)
      BY <1>9, <1>10, <2>1
    <3>2. PICK k \in 1 .. Len(given) :
            /\ LastKeyIs(k, Len(given))'
            /\ interval > 0 => f.from - given[k].from < interval
      BY <1>28, <1>30, <3>1
    <3>3. given'[k] = given[k] /\ k \in 1 .. i - 1
      BY <1>10, <3>1
    <3>4. LastKeyIs(k, i - 1)'
      BY <1>9, <1>10, <2>1, <3>2 DEF LastKeyIs
    <3> QED
      BY <1>30, <3>1, <3>2, <3>3, <3>4
  <2>2. CASE i # Len(given) + 1
    <3>1. i \in 2 .. Len(given) /\ i \in 1 .. Len(given) /\ given'[i] = given[i]
      BY <1>9, <1>10, <2>2
    <3>2. PICK k \in 1 .. i - 1 : LastKeyIs(k, i - 1) /\ given[i].from - given[k].from < interval
      BY <1>1, <1>30, <3>1 DEF KeyInv
    <3>3. \A j \in 1 .. i : given'[j] = given[j]
      BY <1>9, <1>10, <3>1
    <3>4. LastKeyIs(k, i - 1)' /\ given'[k] = given[k]
      BY <3>1, <3>2, <3>3 DEF LastKeyIs
    <3> QED
      BY <3>1, <3>2, <3>4
  <2> QED
    BY <2>1, <2>2
<1>31. KeyInv'
  <2>1. sessions # 0
    BY <1>1, <1>3 DEF KeyInv
  <2>2. sessions' = sessions /\ interval' = interval /\ lagInFrames' = lagInFrames
    BY <1>2
  <2> QED
    BY <1>21, <1>23, <1>24, <1>25, <1>29, <1>30, <2>1, <2>2 DEF KeyInv
<1> QED
  BY ONLY <1>4, <1>17, <1>18, <1>22, <1>31, Zenon DEF EncInv

(* The loop over the pending frames, but for the step that takes one.      *)
LEMMA LoopKeeps ==
  ASSUME EncInv, GetBuffer \/ GetBufferFails \/ Delivered \/ Refused \/ PassEnd
  PROVE  EncInv'
<1> USE DEF settings, pin, encoder, outpin, history, bounds
<1>1. EncTypes /\ PlaceInv /\ FlowInv /\ TimesInv /\ KeyInv
  BY Zenon DEF EncInv
<1>2. /\ UNCHANGED <<settings, sent, pending, inCodec, given, start, disc, lastKey, sessions>>
      /\ UNCHANGED <<lagInFrames, interval, active, eos, flush, received, force, committed, time,
                     due>>
  BY Zenon DEF GetBuffer, GetBufferFails, Delivered, Refused, PassEnd
<1>3. /\ up.at \in {"getbuffer", "deliver", "end"} /\ up # Idle /\ ~ended
      /\ sessions # 0
  <2>1. up.at \in {"getbuffer", "deliver", "end"}
    BY Zenon DEF GetBuffer, GetBufferFails, Delivered, Refused, PassEnd
  <2>2. up # Idle
    BY <2>1 DEF Idle
  <2> QED
    BY <1>1, <2>1, <2>2 DEF PlaceInv, KeyInv
<1>4. up.at \in Loop => /\ up \in [at : Loop, call : {"receive", "eos"}]
                        /\ up.call \in {"receive", "eos"}
  BY <1>1, UpIs DEF EncTypes
<1>5. PlaceInv' /\ UpType' /\ up'.at # "render"
  <2>1. CASE GetBuffer
    <3>1. up.at = "getbuffer" /\ held < NBuffers /\ held' = held /\ short' = short
          /\ ended' = ended /\ up' = [up EXCEPT !.at = "populate"]
      BY <2>1, Zenon DEF GetBuffer
    <3>2. /\ up'.at = "populate" /\ up'.call = up.call
          /\ up' \in [at : Loop, call : {"receive", "eos"}]
      BY <1>4, <3>1 DEF Loop
    <3>3. pending # <<>> /\ (up.call = "eos" => eos)
      BY <1>1, <3>1 DEF PlaceInv, Loop
    <3> QED
      BY <1>2, <1>3, <3>1, <3>2, <3>3 DEF PlaceInv, Loop, UpType
  <2>2. CASE GetBufferFails \/ Refused
    <3>1. /\ up.at \in Loop /\ short' = TRUE /\ ended' = ended /\ held' = held
          /\ up' = IF up.call = "eos" THEN [at |-> "end"] ELSE Idle
      BY <2>2 DEF GetBufferFails, Refused, Fails, Loop
    <3>2. up.call = "eos" => eos
      BY <1>1, <3>1 DEF PlaceInv
    <3>3. up'.at = IF up.call = "eos" THEN "end" ELSE "idle"
      BY <3>1 DEF Idle
    <3>4. UpType'
      BY <3>1 DEF UpType
    <3> QED
      BY <1>2, <1>3, <3>1, <3>2, <3>3, <3>4 DEF PlaceInv, Loop
  <2>3. CASE Delivered
    <3>1. up.at = "deliver" /\ ended' = ended /\ Continue(up.call)
      BY <2>3, Zenon DEF Delivered
    <3>2. up.call = "eos" => eos'
      BY <1>1, <1>2, <3>1 DEF PlaceInv, Loop
    <3>3. up.call \in {"receive", "eos"}
      BY <1>4, <3>1 DEF Loop
    <3>4. PICK c \in {"receive", "eos"} : c = up.call
      BY <3>3
    <3> QED
      BY <1>3, <3>1, <3>2, <3>4, ContinueIs
  <2>4. CASE PassEnd
    <3>1. up.at = "end" /\ up' = Idle /\ short' = short /\ held' = held
      BY <2>4, Zenon DEF PassEnd
    <3>2. eos /\ (~short => pending = <<>>)
      BY <1>1, <3>1 DEF PlaceInv, Loop
    <3>3. up'.at = "idle" /\ UpType'
      BY <3>1 DEF Idle, UpType
    <3> QED
      BY <1>2, <3>1, <3>2, <3>3 DEF PlaceInv, Loop
  <2> QED
    BY <2>1, <2>2, <2>3, <2>4
<1>6. held' \in 0 .. NBuffers
  <2>1. CASE Delivered
    <3>1. up.at = "deliver" /\ held' = held + 1
      BY <2>1, Zenon DEF Delivered
    <3>2. held < NBuffers
      BY <1>1, <3>1 DEF PlaceInv
    <3> QED
      BY <1>1, <3>1, <3>2, EncoderAssumption DEF EncTypes
  <2>2. CASE GetBuffer \/ GetBufferFails \/ Refused \/ PassEnd
    <3>1. held' = held
      BY <2>2, Zenon DEF GetBuffer, GetBufferFails, Refused, PassEnd
    <3> QED
      BY <1>1, <3>1 DEF EncTypes
  <2> QED
    BY <2>1, <2>2
<1>7. short' \in BOOLEAN /\ ended' \in BOOLEAN
  BY <1>1 DEF EncTypes, GetBuffer, GetBufferFails, Delivered, Refused, PassEnd, Fails
<1>8. EncTypes'
  BY ONLY <1>1, <1>2, <1>5, <1>6, <1>7, Zenon DEF EncTypes
<1>9. FlowInv' /\ TimesInv'
  BY <1>2, <1>3, <1>5, FlowStays, TimesStay
<1>10. KeyInv'
  <2>1. due' => force' \/ given = <<>> \/ ~active'
    BY <1>1, <1>2 DEF KeyInv
  <2> QED
    BY <1>2, <1>3, <2>1, KeysStay
<1> QED
  BY ONLY <1>5, <1>8, <1>9, <1>10, Zenon DEF EncInv

(* The first pending frame goes into a sample.                             *)
LEMMA PopulateKeeps ==
  ASSUME EncInv, PopulateSample
  PROVE  EncInv'
<1> USE DEF settings, encoder, outpin, bounds
<1> DEFINE s == [from |-> Head(pending).from, start |-> Head(pending).start,
                 key |-> Head(pending).key, disc |-> disc]
<1>1. EncTypes /\ PlaceInv /\ FlowInv /\ TimesInv /\ KeyInv
  BY Zenon DEF EncInv
<1>2. /\ up.at = "populate" /\ up' = [up EXCEPT !.at = "deliver"]
      /\ sent' = Append(sent, s) /\ pending' = Tail(pending) /\ disc' = FALSE
      /\ UNCHANGED <<settings, inCodec, given, start, lastKey, sessions, held, short, ended>>
      /\ UNCHANGED <<lagInFrames, interval, active, eos, flush, received, force, committed, time,
                     due>>
  BY Zenon DEF PopulateSample
<1>3. up # Idle /\ pending # <<>> /\ ~ended /\ sessions # 0 /\ held < NBuffers
      /\ up \in [at : Loop, call : {"receive", "eos"}] /\ (up.call = "eos" => eos)
  <2>1. up # Idle
    BY <1>2 DEF Idle
  <2> QED
    BY <1>1, <1>2, <2>1, UpIs DEF PlaceInv, KeyInv, EncTypes, Loop
<1>4. /\ up'.at = "deliver" /\ up'.call = up.call
      /\ up' \in [at : Loop, call : {"receive", "eos"}]
  BY <1>2, <1>3 DEF Loop
<1>5. UpType' /\ PlaceInv'
  BY <1>2, <1>3, <1>4 DEF UpType, PlaceInv, Loop
<1>6. inCodec \in Seq(CodecFrames) /\ pending \in Seq(Frames) /\ sent \in Seq(SentFrames)
      /\ given \in Seq(CodecFrames) /\ disc \in BOOLEAN
  BY <1>1, Zenon DEF EncTypes
<1>7. /\ Len(inCodec) \in Nat /\ Len(sent) \in Nat /\ Len(given) \in Nat
  BY <1>6, LenProperties
<1>8. /\ Len(pending) \in Nat /\ Len(pending) >= 1 /\ Head(pending) = pending[1]
      /\ pending[1] \in Frames
      /\ pending' \in Seq(Frames) /\ Len(pending') = Len(pending) - 1
      /\ \A i \in 1 .. Len(pending) - 1 : pending'[i] = pending[i + 1]
  BY <1>2, <1>3, <1>6, TailIs
<1>9. /\ s \in SentFrames /\ s.from = pending[1].from /\ s.start = pending[1].start
      /\ s.key = pending[1].key /\ (s.disc <=> disc)
  BY <1>6, <1>8 DEF Frames, SentFrames
<1> HIDE DEF s
<1>10. /\ sent' \in Seq(SentFrames) /\ Len(sent') = Len(sent) + 1
       /\ sent'[Len(sent) + 1] = s /\ \A i \in 1 .. Len(sent) : sent'[i] = sent[i]
  BY <1>2, <1>6, <1>9, AppendProperties
<1>11. EncTypes'
  <2>1. disc' \in BOOLEAN
    BY ONLY <1>2, Zenon
  <2> QED
    BY ONLY <1>1, <1>2, <1>5, <1>8, <1>10, <2>1, Zenon DEF EncTypes
<1>12. FlowInv'
  <2>1. Len(sent') + Len(pending') = Len(sent) + Len(pending)
    BY <1>7, <1>8, <1>10
  <2>2. /\ Len(sent') + Len(pending') + Len(inCodec') <= Len(given')
        /\ active' => Len(sent') + Len(pending') + Len(inCodec') = Len(given')
        /\ eos' => up'.at # "render" /\ inCodec' = <<>> /\ Len(sent') + Len(pending') = Len(given')
    BY <1>1, <1>2, <1>4, <2>1 DEF FlowInv
  <2>3. ASSUME NEW i \in 1 .. Len(sent')
        PROVE  SentIs(sent'[i], given'[i])
    <3>1. CASE i = Len(sent) + 1
      <4>1. pending[1] = Stamp(given[Len(sent) + 1])
        BY <1>1, <1>8 DEF FlowInv
      <4>2. SentIs(s, given[Len(sent) + 1])
        BY ONLY <1>9, <4>1 DEF SentIs, Stamp
      <4> QED
        BY <1>2, <1>10, <3>1, <4>2
    <3>2. CASE i # Len(sent) + 1
      <4>1. i \in 1 .. Len(sent) /\ sent'[i] = sent[i]
        BY <1>7, <1>10, <3>2
      <4> QED
        BY <1>1, <1>2, <4>1 DEF FlowInv
    <3> QED
      BY <3>1, <3>2
  <2>4. ASSUME NEW i \in 1 .. Len(pending') PROVE pending'[i] = Stamp(given'[Len(sent') + i])
    <3>1. i + 1 \in 1 .. Len(pending) /\ pending'[i] = pending[i + 1]
      BY <1>8
    <3>2. pending[i + 1] = Stamp(given[Len(sent) + (i + 1)])
      BY <1>1, <3>1 DEF FlowInv
    <3>3. Len(sent) + (i + 1) = Len(sent') + i
      BY <1>7, <1>10
    <3> QED
      BY <1>2, <3>1, <3>2, <3>3
  <2>5. ASSUME NEW i \in 1 .. Len(inCodec')
        PROVE  inCodec'[i] = given'[Len(sent') + Len(pending') + i]
    BY <1>1, <1>2, <2>1 DEF FlowInv
  <2> QED
    BY <2>2, <2>3, <2>4, <2>5 DEF FlowInv
<1>13. TimesInv'
  <2>1. sent' # <<>>
    BY <1>7, <1>10, EmptySeq
  <2>2. ASSUME NEW i \in 1 .. Len(sent') PROVE sent'[i].disc <=> i = 1
    <3>1. CASE i = Len(sent) + 1
      <4>1. disc <=> sent = <<>>
        BY <1>1, <1>3 DEF TimesInv
      <4>2. sent = <<>> <=> Len(sent) = 0
        BY <1>6, EmptySeq
      <4> QED
        BY <1>7, <1>9, <1>10, <3>1, <4>1, <4>2
    <3>2. CASE i # Len(sent) + 1
      <4>1. i \in 1 .. Len(sent) /\ sent'[i] = sent[i]
        BY <1>7, <1>10, <3>2
      <4> QED
        BY <1>1, <4>1 DEF TimesInv
    <3> QED
      BY <3>1, <3>2
  <2> QED
    BY <1>1, <1>2, <2>1, <2>2 DEF TimesInv
<1>14. KeyInv'
  <2>1. due' => force' \/ given = <<>> \/ ~active'
    BY <1>1, <1>2 DEF KeyInv
  <2> QED
    BY <1>2, <1>3, <2>1, KeysStay
<1> QED
  BY ONLY <1>5, <1>11, <1>12, <1>13, <1>14, Zenon DEF EncInv

(* Frames are where the streaming thread put them, in the order in which   *)
(* they were encoded, for all settings of the codec, numbers of buffers    *)
(* and bounds on samples, sessions, flushes and requests.                  *)
THEOREM EncoderInvariance == EncoderSpec => []EncInv
<1>1. EncoderInit => EncInv
  BY EncInvInit
<1>2. EncInv /\ [EncoderNext]_encVars => EncInv'
  <2> SUFFICES ASSUME EncInv, [EncoderNext]_encVars PROVE EncInv'
    OBVIOUS
  <2>1. CASE StartFilter
    BY <2>1, StartKeeps
  <2>2. CASE \/ DownstreamStops \/ StopFilter \/ SetForceKeyframe \/ ClearForceKeyframe
             \/ DownstreamReleases
             \/ BeginFlush \/ PassBeginFlush \/ EndFlush \/ PassEndFlush
    BY <2>2, OutsideKeeps
  <2>3. CASE Source
    BY ONLY <2>3, EncInv, EndOfStreamKeeps, SampleKeeps, Zenon DEF Source
  <2>4. CASE Encode
    BY ONLY <2>4, EncInv, EncodeDropped, EncodeRefused, EncodeTaken, Zenon
  <2>5. CASE GetBuffer \/ GetBufferFails \/ Delivered \/ Refused \/ PassEnd
    BY <2>5, LoopKeeps
  <2>6. CASE PopulateSample
    BY <2>6, PopulateKeeps
  <2>7. CASE UNCHANGED encVars
    <3> USE DEF encVars, settings, pin, encoder, outpin, history, bounds
    <3>1. /\ UNCHANGED <<settings, active, eos, flush, start, received, lastKey, disc, force,
                         inCodec, given, pending, committed, held>>
          /\ UNCHANGED <<lagInFrames, interval, up, time, sent, short, ended, due, sessions>>
      BY ONLY <2>7, Zenon DEF encVars, settings, pin, encoder, outpin, history, bounds
    <3>2. EncTypes /\ PlaceInv /\ FlowInv /\ TimesInv /\ KeyInv
      BY Zenon DEF EncInv
    <3>3. held' \in Nat /\ held' <= held
      BY <3>1, <3>2, EncoderAssumption DEF EncTypes
    <3>4. PlaceInv' /\ UpType'
      BY <3>1, <3>3, PlaceStays
    <3>5. EncTypes'
      BY ONLY <3>1, <3>2, <3>4, Zenon DEF EncTypes
    <3>6. FlowInv' /\ TimesInv'
      <4>1. eos' => eos /\ up'.at # "render"
        BY <3>1, <3>2 DEF FlowInv
      <4> QED
        BY <3>1, <4>1, FlowStays, TimesStay
    <3>7. KeyInv'
      <4>1. (due' => force' \/ given = <<>> \/ ~active') /\ (sessions = 0 => ~active' /\ up' = Idle)
        BY <3>1, <3>2 DEF KeyInv
      <4> QED
        BY <3>1, <4>1, KeysStay
    <3> QED
      BY ONLY <3>4, <3>5, <3>6, <3>7, Zenon DEF EncInv
  <2> QED
    BY ONLY <2>1, <2>2, <2>3, <2>4, <2>5, <2>6, <2>7, [EncoderNext]_encVars, Zenon
       DEF EncoderNext, Streaming
<1> QED
  BY <1>1, <1>2, PTL DEF EncoderSpec

(* What has been sent, as frames of the codec.                             *)
LEMMA PlainIs ==
  ASSUME NEW s \in Seq(SentFrames)
  PROVE  /\ Plain(s) \in Seq(Frames) /\ Len(Plain(s)) = Len(s)
         /\ \A i \in 1 .. Len(s) :
              Plain(s)[i] = [from |-> s[i].from, start |-> s[i].start, key |-> s[i].key]
<1>1. Len(s) \in Nat /\ DOMAIN s = 1 .. Len(s)
  BY LenProperties
<1>2. \A i \in 1 .. Len(s) :
        [from |-> s[i].from, start |-> s[i].start, key |-> s[i].key] \in Frames
  <2> SUFFICES ASSUME NEW i \in 1 .. Len(s)
               PROVE  [from |-> s[i].from, start |-> s[i].start, key |-> s[i].key] \in Frames
    OBVIOUS
  <2>1. s[i] \in SentFrames
    BY ElementOfSeq
  <2> QED
    BY ONLY <2>1 DEF SentFrames, Frames
<1>3. Plain(s) =
        [i \in 1 .. Len(s) |-> [from |-> s[i].from, start |-> s[i].start, key |-> s[i].key]]
  BY <1>1 DEF Plain
<1>4. Plain(s) \in [1 .. Len(s) -> Frames]
  BY ONLY <1>2, <1>3
<1>5. Plain(s) \in Seq(Frames) /\ DOMAIN Plain(s) = 1 .. Len(s)
  BY ONLY <1>1, <1>4, SeqDef
<1>6. Len(Plain(s)) = Len(s)
  <2>1. Len(Plain(s)) \in Nat /\ DOMAIN Plain(s) = 1 .. Len(Plain(s))
    BY <1>5, LenProperties
  <2> QED
    BY ONLY <1>1, <1>5, <2>1
<1> QED
  BY ONLY <1>3, <1>5, <1>6

(* Frames leave the filter in the order in which they were encoded, less   *)
(* than a millisecond before their samples, and all of them before the     *)
(* end of stream unless one was refused (FramesInOrder).                   *)
THEOREM FramesLeaveInOrder == EncoderSpec => []FramesInOrder
<1>1. ASSUME EncInv PROVE FramesInOrder
  <2>1. EncTypes /\ PlaceInv /\ FlowInv /\ TimesInv
    BY <1>1, Zenon DEF EncInv
  <2>2. EncoderTypeOK
    <3>1. {active, eos, flush, force, disc, committed, short, ended, due} \subseteq BOOLEAN
      BY ONLY <2>1, Zenon DEF EncTypes
    <3>2. /\ start \in Nat \cup {-1} /\ received \in Nat /\ lastKey \in Nat /\ time \in Int
          /\ inCodec \in Seq(CodecFrames) /\ pending \in Seq(Frames) /\ given \in Seq(CodecFrames)
          /\ held \in 0 .. NBuffers
      BY ONLY <2>1, Zenon DEF EncTypes
    <3>3. up.at = "populate" => pending # <<>>
      BY <2>1 DEF PlaceInv
    <3> QED
      BY ONLY <3>1, <3>2, <3>3, Zenon DEF EncoderTypeOK
  <2>3. inCodec \in Seq(CodecFrames) /\ pending \in Seq(Frames) /\ sent \in Seq(SentFrames)
        /\ given \in Seq(CodecFrames)
    BY <2>1, Zenon DEF EncTypes
  <2>4. /\ Len(inCodec) \in Nat /\ Len(pending) \in Nat /\ Len(sent) \in Nat /\ Len(given) \in Nat
    BY <2>3, LenProperties
  <2> DEFINE p == Plain(sent)
             c == Stamped(inCodec)
             g == Stamped(given)
             u == p \o pending
             w == u \o c
  <2>5. /\ p \in Seq(Frames) /\ Len(p) = Len(sent)
        /\ \A i \in 1 .. Len(sent) :
             p[i] = [from |-> sent[i].from, start |-> sent[i].start, key |-> sent[i].key]
    BY <2>3, PlainIs
  <2>5b. /\ c \in Seq(Frames) /\ Len(c) = Len(inCodec)
         /\ \A i \in 1 .. Len(inCodec) : c[i] = Stamp(inCodec[i])
    BY ONLY <2>3, StampedIs
  <2>5c. /\ g \in Seq(Frames) /\ Len(g) = Len(given)
         /\ \A i \in 1 .. Len(given) : g[i] = Stamp(given[i])
    BY ONLY <2>3, StampedIs
  <2> HIDE DEF p, c, g
  <2>5a. p \in Seq(Frames) /\ Len(p) = Len(sent)
    BY <2>5
  <2>6. /\ u \in Seq(Frames) /\ Len(u) = Len(p) + Len(pending)
        /\ \A i \in 1 .. Len(p) + Len(pending) :
             u[i] = IF i <= Len(p) THEN p[i] ELSE pending[i - Len(p)]
    BY ONLY <2>3, <2>5a, ConcatProperties
  <2> HIDE DEF u
  <2>6a. u \in Seq(Frames) /\ Len(u) = Len(sent) + Len(pending)
    BY <2>5a, <2>6
  <2>7. /\ w \in Seq(Frames) /\ Len(w) = Len(u) + Len(c)
        /\ \A i \in 1 .. Len(u) + Len(c) :
             w[i] = IF i <= Len(u) THEN u[i] ELSE c[i - Len(u)]
    <3>1. u \in Seq(Frames) /\ c \in Seq(Frames)
      BY ONLY <2>5b, <2>6a, Zenon
    <3> QED
      BY ONLY <3>1, ConcatProperties
  <2> HIDE DEF w
  <2>8. Len(w) = Len(sent) + Len(pending) + Len(inCodec) /\ Len(w) <= Len(given) /\ Len(w) \in Nat
    <3>1. Len(w) = Len(sent) + Len(pending) + Len(inCodec)
      BY <2>5, <2>5b, <2>6, <2>7
    <3> QED
      BY <2>1, <2>4, <3>1 DEF FlowInv
  <2>9. ASSUME NEW i \in 1 .. Len(w) PROVE w[i] = Stamp(given[i])
    <3>1. CASE i <= Len(sent)
      <4>1. i \in 1 .. Len(sent) /\ i \in 1 .. Len(given)
        BY <2>4, <2>8, <3>1
      <4>2. w[i] = [from |-> sent[i].from, start |-> sent[i].start, key |-> sent[i].key]
        <5>1. w[i] = u[i]
          BY <2>4, <2>6a, <2>7, <3>1, <4>1
        <5>2. u[i] = p[i]
          BY <2>4, <2>5a, <2>6, <3>1, <4>1
        <5> QED
          BY <2>5, <4>1, <5>1, <5>2
      <4>3. SentIs(sent[i], given[i])
        BY <2>1, <4>1 DEF FlowInv
      <4> QED
        BY ONLY <4>2, <4>3 DEF SentIs, Stamp
    <3>2. CASE Len(sent) < i /\ i <= Len(sent) + Len(pending)
      <4>1. i - Len(sent) \in 1 .. Len(pending)
        BY <2>4, <2>8, <3>2
      <4>2. w[i] = u[i] /\ u[i] = pending[i - Len(sent)]
        BY <2>4, <2>5, <2>6, <2>7, <2>8, <3>2
      <4>3. pending[i - Len(sent)] = Stamp(given[Len(sent) + (i - Len(sent))])
        BY <2>1, <4>1 DEF FlowInv
      <4>4. Len(sent) + (i - Len(sent)) = i
        BY <2>4
      <4> QED
        BY <4>2, <4>3, <4>4
    <3>3. CASE Len(sent) + Len(pending) < i
      <4> DEFINE j == i - (Len(sent) + Len(pending))
      <4>1. j \in 1 .. Len(inCodec)
        BY <2>4, <2>8, <3>3
      <4>2. w[i] = Stamp(inCodec[j])
        <5>1. w[i] = c[j]
          BY <2>4, <2>5, <2>5b, <2>6, <2>7, <2>8, <3>3
        <5> QED
          BY ONLY <2>5b, <4>1, <5>1
      <4>3. inCodec[j] = given[Len(sent) + Len(pending) + j]
        BY <2>1, <4>1 DEF FlowInv
      <4>4. Len(sent) + Len(pending) + j = i
        BY <2>4
      <4> QED
        BY <4>2, <4>3, <4>4
    <3> QED
      BY <2>4, <2>8, <3>1, <3>2, <3>3
  <2>10. IsPrefix(w, g)
    <3> DEFINE a == SubSeq(w, 1, Len(w))
               b == SubSeq(g, 1, Len(w))
    <3>1. a = w
      BY <2>7, SubSeqFull
    <3>2. \A i \in 1 .. Len(w) : g[i] \in Frames /\ g[i] = Stamp(given[i])
      BY <2>4, <2>5c, <2>8, ElementOfSeq
    <3>3. /\ b \in Seq(Frames) /\ Len(b) = IF 1 <= Len(w) THEN Len(w) - 1 + 1 ELSE 0
          /\ \A i \in 1 .. Len(w) - 1 + 1 : b[i] = g[1 + i - 1]
      BY <2>8, <3>2, SubSeqProperties
    <3>4. Len(b) = Len(w) /\ \A i \in 1 .. Len(w) : b[i] = w[i]
      BY <2>8, <2>9, <3>2, <3>3
    <3> HIDE DEF a, b
    <3>5. b = w
      BY <2>7, <3>3, <3>4, SeqEqual
    <3> QED
      BY <2>5c, <2>8, <3>1, <3>5 DEF IsPrefix, a, b
  <2>11. IsPrefix(Plain(sent) \o pending \o Stamped(inCodec), Stamped(given))
    BY <2>10 DEF w, u, p, c, g
  <2>12. active => Len(sent) + Len(pending) + Len(inCodec) = Len(given)
    BY <2>1 DEF FlowInv
  <2>13. \A i \in 1 .. Len(given) - 1 : given[i].from < given[i + 1].from
    BY <2>1, <2>4 DEF TimesInv
  <2>14. \A i \in DOMAIN sent : sent[i].disc = (i = 1)
    <3> SUFFICES ASSUME NEW i \in 1 .. Len(sent) PROVE sent[i].disc = (i = 1)
      BY <2>3, LenProperties
    <3>1. sent[i] \in SentFrames
      BY <2>3, ElementOfSeq
    <3>2. sent[i].disc \in BOOLEAN
      BY ONLY <3>1 DEF SentFrames
    <3>3. sent[i].disc <=> i = 1
      BY <2>1 DEF TimesInv
    <3> QED
      BY ONLY <3>2, <3>3
  <2>15. ended /\ ~short => Len(sent) = Len(given)
    <3> SUFFICES ASSUME ended, ~short PROVE Len(sent) = Len(given)
      OBVIOUS
    <3>1. eos /\ up = Idle
      BY <2>1 DEF PlaceInv
    <3>2. pending = <<>>
      BY <2>1, <3>1 DEF PlaceInv, Loop, Idle
    <3>3. Len(sent) + Len(pending) = Len(given)
      BY <2>1, <3>1 DEF FlowInv
    <3> QED
      BY <2>4, <3>2, <3>3
  <2>16. \A i \in DOMAIN sent : sent[i].from - sent[i].start \in 0 .. Ms - 1
    <3> SUFFICES ASSUME NEW i \in 1 .. Len(sent)
                 PROVE  sent[i].from - sent[i].start \in 0 .. Ms - 1
      BY <2>3, LenProperties
    <3>1. i \in 1 .. Len(given)
      BY <2>4, <2>8
    <3>2. given[i] \in CodecFrames
      BY <2>3, <3>1, ElementOfSeq
    <3>3. given[i].from \in Nat
      BY ONLY <3>2 DEF CodecFrames
    <3>4. given[i].pts = given[i].from \div Ms
      BY <2>1, <3>1 DEF TimesInv
    <3>5. SentIs(sent[i], given[i])
      BY <2>1 DEF FlowInv
    <3> DEFINE x == given[i].from
               y == (given[i].from \div Ms) * Ms
    <3>6. sent[i].from = x /\ sent[i].start = y
      BY ONLY <3>4, <3>5 DEF SentIs
    <3>7. x \in Nat /\ y \in Nat /\ y <= x /\ x < y + Ms
      BY ONLY <3>3, StampWithin
    <3> HIDE DEF x, y
    <3> QED
      BY ONLY <3>6, <3>7 DEF Ms
  <2> QED
    BY ONLY <2>2, <2>11, <2>12, <2>13, <2>14, <2>15, <2>16, Zenon DEF FramesInOrder
<1> QED
  BY <1>1, EncoderInvariance, PTL

(* A session begins with a key frame, a request is met by the next frame   *)
(* that is encoded, and no delta frame comes an interval after the last    *)
(* key frame (NotLate).                                                    *)
LEMMA KeyFramesAreNotLate == EncoderSpec => []NotLate
<1>1. ASSUME EncInv PROVE NotLate
  <2>1. KeyInv /\ EncTypes
    BY <1>1 DEF EncInv
  <2>2. ASSUME interval > 0, sessions = 1 \/ lagInFrames = 0,
               NEW i \in 2 .. Len(given), ~given[i].key
        PROVE  given[i].from - given[LastKeyBefore(i)].from < interval
    <3>1. PICK k \in 1 .. i - 1 : LastKeyIs(k, i - 1) /\ given[i].from - given[k].from < interval
      BY <2>1, <2>2 DEF KeyInv
    <3> DEFINE m == LastKeyBefore(i)
    <3>2. m \in 1 .. i - 1 /\ given[m].key /\ \A j \in m + 1 .. i - 1 : ~given[j].key
      <4>1. \E e \in 1 .. i - 1 : given[e].key /\ \A j \in e + 1 .. i - 1 : ~given[j].key
        BY <3>1 DEF LastKeyIs
      <4> QED
        BY ONLY <4>1, Zenon DEF LastKeyBefore
    <3> HIDE DEF m
    <3>3. m = k
      <4>1. Len(given) \in Nat
        BY <2>1, LenProperties DEF EncTypes
      <4>2. i \in Nat
        BY <4>1
      <4>3. ~(m < k)
        BY <3>1, <3>2, <4>2 DEF LastKeyIs
      <4>4. ~(k < m)
        BY <3>1, <3>2, <4>2 DEF LastKeyIs
      <4> QED
        BY <3>2, <4>2, <4>3, <4>4
    <3> QED
      BY <3>1, <3>3 DEF m
  <2> QED
    BY <2>1, <2>2 DEF KeyInv, NotLate
<1> QED
  BY <1>1, EncoderInvariance, PTL

(* A frame that is a key frame for the interval alone is less than a       *)
(* millisecond short of an interval later than the last one: for a codec   *)
(* that keeps nothing back m_last_keyframe_time is that much earlier at    *)
(* the most (NotEarly).                                                    *)
LEMMA KeyFramesAreNotEarly == EncoderSpec => [][NotEarly]_encVars
<1>1. ASSUME EncInv, EncInv', [EncoderNext]_encVars PROVE NotEarly
  <2> DEFINE n == Len(given) + 1
  <2> SUFFICES ASSUME Len(given') = n, n > 1, given'[n].key, ~force, ~up.disc,
                      lagInFrames = 0
               PROVE  interval > 0 /\ given'[n].from - given[LastKeyBefore(n)].from > interval - Ms
    BY DEF NotEarly
  <2>1. EncTypes /\ KeyInv /\ TimesInv
    BY <1>1, Zenon DEF EncInv
  <2>2. given \in Seq(CodecFrames) /\ Len(given) \in Nat
    <3>1. given \in Seq(CodecFrames)
      BY <2>1, Zenon DEF EncTypes
    <3> QED
      BY <3>1, LenProperties
  <2>3. Encode /\ Used /\ active
    <3>1. given' # given
      BY <2>2
    <3>2. Len(given') # 0
      BY <2>2
    <3>3. given' # <<>>
      BY <3>2
    <3>4. ~(DownstreamStops \/ StopFilter \/ SetForceKeyframe \/ ClearForceKeyframe)
      BY ONLY <3>1, Zenon DEF DownstreamStops, StopFilter, SetForceKeyframe,
         ClearForceKeyframe, encoder
    <3>5. ~(DownstreamReleases \/ BeginFlush \/ PassBeginFlush \/ EndFlush \/ PassEndFlush)
      BY ONLY <3>1, Zenon DEF DownstreamReleases, BeginFlush, PassBeginFlush, EndFlush,
         PassEndFlush, encoder
    <3>6. ~StartFilter
      BY ONLY <3>3, Zenon DEF StartFilter
    <3>7. ~Source
      BY ONLY <3>1, Zenon DEF Source, EndOfStream, Sample, encoder
    <3>8. ~(GetBuffer \/ GetBufferFails \/ PopulateSample \/ Delivered \/ Refused \/ PassEnd)
      BY ONLY <3>1, Zenon DEF GetBuffer, GetBufferFails, PopulateSample, Delivered, Refused,
         PassEnd, encoder
    <3>9. ~UNCHANGED encVars
      BY ONLY <3>1, Zenon DEF encVars, encoder
    <3>10. Encode
      BY ONLY <1>1, <3>4, <3>5, <3>6, <3>7, <3>8, <3>9, Zenon DEF EncoderNext, Streaming
    <3>11. Used /\ active
      BY ONLY <3>1, <3>10, Zenon DEF Encode, encoder
    <3> QED
      BY <3>10, <3>11
  <2>4. given # <<>>
    <3>1. Len(given) # 0
      BY <2>2
    <3> QED
      BY <3>1
  <2>5. start \in Nat
    <3>1. start \in Nat \cup {-1} /\ (start = -1 <=> given = <<>>)
      BY <2>1, <2>3 DEF EncTypes, TimesInv
    <3> QED
      BY <2>4, <3>1
  <2>6. start' = up.t /\ given' = Append(given, Picture(start'))
    <3>1. /\ start' = (IF start < 0 THEN 0 ELSE up.t)
          /\ given' = Append(given, Picture(start'))
      BY ONLY <2>3, Zenon DEF Encode
    <3> QED
      BY <2>5, <3>1
  <2> DEFINE f == Picture(start')
  <2>7. given'[n] = f
    BY ONLY <2>2, <2>6
  <2>8. f.from = start' /\ (f.key <=> Forced)
    BY DEF Picture, Forced
  <2>9. Forced
    BY <2>7, <2>8
  <2>10. interval > 0 /\ up.t - lastKey >= interval
    BY <2>5, <2>9 DEF Forced
  <2>11. PICK k \in 1 .. Len(given) : LastKeyIs(k, Len(given)) /\ KeyTime(k)
    BY <2>1, <2>4 DEF KeyInv
  <2> DEFINE m == LastKeyBefore(n)
  <2>12. n - 1 = Len(given)
    BY <2>2
  <2>13. m \in 1 .. Len(given) /\ given[m].key /\ \A j \in m + 1 .. Len(given) : ~given[j].key
    <3>1. \E e \in 1 .. n - 1 : given[e].key /\ \A j \in e + 1 .. n - 1 : ~given[j].key
      BY <2>11, <2>12 DEF LastKeyIs
    <3>2. m \in 1 .. n - 1 /\ given[m].key /\ \A j \in m + 1 .. n - 1 : ~given[j].key
      BY ONLY <3>1, Zenon DEF LastKeyBefore
    <3> QED
      BY <2>12, <3>2
  <2> HIDE DEF m
  <2>14. m = k
    <3>1. ~(m < k)
      BY <2>2, <2>11, <2>13 DEF LastKeyIs
    <3>2. ~(k < m)
      BY <2>2, <2>11, <2>13 DEF LastKeyIs
    <3> QED
      BY <2>2, <2>13, <3>1, <3>2
  <2>15. given[k].from \in Nat /\ lastKey \in Nat /\ interval \in Nat /\ up.t \in Int
    <3>1. given[k] \in CodecFrames
      BY <2>2, ElementOfSeq
    <3>2. given[k].from \in Nat
      BY ONLY <3>1 DEF CodecFrames
    <3>3. up.at = "render"
      BY ONLY <2>3, Zenon DEF Encode
    <3> QED
      BY <2>1, <3>2, <3>3, UpIs DEF EncTypes
  <2>16. given[k].from < lastKey + Ms
    BY <2>11 DEF KeyTime
  <2>17. given'[n].from = up.t
    BY <2>6, <2>7, <2>8
  <2>18. up.t - given[k].from > interval - Ms
    BY ONLY <2>10, <2>15, <2>16 DEF Ms
  <2> QED
    BY ONLY <2>10, <2>14, <2>17, <2>18 DEF m
<1>2. EncInv /\ EncInv' /\ [EncoderNext]_encVars => [NotEarly]_encVars
  BY ONLY <1>1, Zenon
<1> QED
  BY <1>2, EncoderInvariance, PTL DEF EncoderSpec

(* Key frames come when they are asked for or their interval has passed,   *)
(* and less than a millisecond before that at the earliest                 *)
(* (KeyFramesInTime).                                                      *)
THEOREM KeyFramesCome == EncoderSpec => KeyFramesInTime
BY KeyFramesAreNotLate, KeyFramesAreNotEarly DEF KeyFramesInTime

-----------------------------------------------------------------------------
(***************************************************************************)
(* The Vorbis decoder.  The blocks that wait follow each other without a   *)
(* gap, in pcm and then in the samples, and the next one is `total' blocks *)
(* behind the block at decodeStart.                                        *)
(***************************************************************************)
VbSample == [at : Nat, n : Nat, bad : BOOLEAN]

VbTypes ==
  /\ inChannels \in Nat /\ post \in BOOLEAN /\ failed \in BOOLEAN
  /\ samples \in Seq(VbSample) /\ pcm \in Seq(Nat)
  /\ decodeStart \in Nat \cup {-1} /\ total \in Nat /\ startTime \in Nat
  /\ next \in Nat

(* The place of the block behind those in pcm.                             *)
QueueAt(s, n) == IF s = <<>> THEN n ELSE s[1].at

Adjacent(s, n) ==
  \A i \in 1..Len(s) :
    ~s[i].bad => s[i].at + s[i].n = (IF i = Len(s) THEN n ELSE s[i + 1].at)

(* The blocks of p are those before place a.                               *)
EndsBefore(p, a) == \A i \in 1..Len(p) : p[i] = a - Len(p) + i - 1

(* The times at which the block at place a is the next one.                *)
TimesAt(origin, count, sum, a) ==
  /\ a - count \in Nat
  /\ origin = SamplesToMediaTime(a - count)
  /\ sum = origin + SamplesToMediaTime(count)

VbPlaces ==
  ~failed =>
    /\ Adjacent(samples, next)
    /\ EndsBefore(pcm, QueueAt(samples, next))
    /\ decodeStart < 0 => pcm = <<>>
    /\ decodeStart >= 0 =>
         TimesAt(decodeStart, total, startTime, QueueAt(samples, next) - Len(pcm))

VbInv == VbTypes /\ VbPlaces /\ OutputTimes

(* A time is a natural number, that of no block is zero, and that of two   *)
(* stretches together is at most one unit more than the sum of theirs.     *)
LEMMA QuotientsAdd ==
  ASSUME NEW x \in Nat, NEW y \in Nat, NEW r \in Nat \ {0}
  PROVE  (x + y) \div r - (x \div r + y \div r) \in {0, 1}
<1> DEFINE p == x \div r
           q == y \div r
           s == (x + y) \div r
<1>1. /\ p \in Nat /\ r * p <= x /\ x < r * p + r
      /\ q \in Nat /\ r * q <= y /\ y < r * q + r
      /\ s \in Nat /\ r * s <= x + y /\ x + y < r * s + r
  <2>1. x + y \in Nat
    OBVIOUS
  <2> QED
    BY <2>1, QuotientIs
<1> HIDE DEF p, q, s
<1> DEFINE d == s - (p + q)
<1>2. d \in Int /\ s = p + q + d
  BY <1>1
<1>3. r * s = r * p + r * q + r * d
  BY <1>1, <1>2
<1> HIDE DEF d
<1>4. r * d <= x + y - r * p - r * q /\ r * d > x + y - r * p - r * q - r
  <2>1. r * s \in Int /\ r * p \in Int /\ r * q \in Int /\ r * d \in Int
    BY <1>1, <1>2
  <2> QED
    BY <1>1, <1>3, <2>1
<1>5. r * d < 2 * r /\ r * d > -r
  <2>1. r * p \in Int /\ r * q \in Int /\ r * d \in Int
    BY <1>1, <1>2
  <2> QED
    BY <1>1, <1>4, <2>1
<1>6. d < 2
  <2>1. d >= 2 => r * d >= 2 * r
    BY <1>2
  <2> QED
    BY <1>2, <1>5, <2>1
<1>7. d > -1
  <2>1. d <= -1 => r * d <= -r
    BY <1>2
  <2> QED
    BY <1>2, <1>5, <2>1
<1> QED
  BY <1>2, <1>6, <1>7 DEF d, p, q, s

LEMMA TimeIs ==
  /\ \A n \in Nat : SamplesToMediaTime(n) \in Nat
  /\ SamplesToMediaTime(0) = 0
  /\ \A m, n \in Nat :
       SamplesToMediaTime(m + n) - (SamplesToMediaTime(m) + SamplesToMediaTime(n)) \in {0, 1}
<1>1. Rate \in Nat \ {0} /\ Ticks \in Nat \ {0}
  BY RateAssumption
<1>2. ASSUME NEW n \in Nat PROVE SamplesToMediaTime(n) \in Nat
  <2>1. n * Ticks \in Nat
    BY <1>1
  <2> QED
    BY <1>1, <2>1, QuotientIs DEF SamplesToMediaTime
<1>3. SamplesToMediaTime(0) = 0
  <2>1. 0 * Ticks = 0
    BY <1>1
  <2>2. 0 \div Rate = 0
    BY <1>1
  <2> QED
    BY <2>1, <2>2 DEF SamplesToMediaTime
<1>4. ASSUME NEW m \in Nat, NEW n \in Nat
      PROVE  SamplesToMediaTime(m + n) - (SamplesToMediaTime(m) + SamplesToMediaTime(n)) \in {0, 1}
  <2>1. m * Ticks \in Nat /\ n * Ticks \in Nat /\ (m + n) * Ticks = m * Ticks + n * Ticks
    BY <1>1
  <2>2. (m * Ticks + n * Ticks) \div Rate - ((m * Ticks) \div Rate + (n * Ticks) \div Rate) \in {0, 1}
    BY <1>1, <2>1, QuotientsAdd
  <2> QED
    BY <2>1, <2>2 DEF SamplesToMediaTime
<1> QED
  BY <1>2, <1>3, <1>4

LEMMA VbInvInit == VbInit => VbInv
<1> SUFFICES ASSUME VbInit PROVE VbInv
  OBVIOUS
<1>1. <<>> \in Seq(VbSample) /\ <<>> \in Seq(Nat) /\ Len(<<>>) = 0
  OBVIOUS
<1>2. VbTypes
  BY <1>1 DEF VbInit, VbTypes
<1>3. VbPlaces
  BY <1>1 DEF VbInit, VbPlaces, Adjacent, EndsBefore
<1>4. OutputTimes
  BY DEF VbInit, OutputTimes
<1> QED
  BY <1>2, <1>3, <1>4 DEF VbInv

(* What the source brings continues what is there.                         *)
LEMMA InputContinues ==
  ASSUME VbInv, VbProcessInput
  PROVE  VbTypes' /\ VbPlaces'
<1>1. PICK count \in 1..MaxPackets, n \in PacketSizes, bad \in BOOLEAN :
        LET silent    == IF decodeStart < 0 /\ samples = <<>> THEN 1 ELSE 0
            blocks(k) == n * (IF k = 0 THEN 0 ELSE k - silent)
            good      == IF bad THEN count - 1 ELSE count
        IN /\ samples' = Append(samples, [at |-> next, n |-> blocks(good), bad |-> bad])
           /\ next' = next + blocks(count)
  BY DEF VbProcessInput
<1> DEFINE silent    == IF decodeStart < 0 /\ samples = <<>> THEN 1 ELSE 0
           blocks(k) == n * (IF k = 0 THEN 0 ELSE k - silent)
           good      == IF bad THEN count - 1 ELSE count
           s         == [at |-> next, n |-> blocks(good), bad |-> bad]
<1>2. count \in Nat \ {0} /\ n \in Nat \ {0} /\ bad \in BOOLEAN
  BY RateAssumption, VbBounds
<1>3. good \in Nat /\ (~bad => good = count)
  BY <1>2
<1>4. \A k \in Nat : blocks(k) \in Nat
  BY <1>2
<1>5. samples' = Append(samples, s) /\ next' = next + blocks(count)
  BY <1>1
<1>6. /\ s.at = next /\ s.bad = bad /\ s.n \in Nat
      /\ ~bad => s.n = blocks(count)
      /\ s \in VbSample
  <2>1. next \in Nat
    BY DEF VbInv, VbTypes
  <2> QED
    BY <1>2, <1>3, <1>4, <2>1 DEF VbSample
<1>7. blocks(count) \in Nat
  BY <1>2, <1>4
<1> HIDE DEF s, blocks, good, silent
<1>8. /\ pcm' = pcm /\ failed' = failed /\ decodeStart' = decodeStart /\ total' = total
      /\ startTime' = startTime /\ inChannels' = inChannels /\ post' = post
  BY DEF VbProcessInput, vbFormat, vbTimes
<1>9. /\ samples \in Seq(VbSample) /\ next \in Nat
      /\ Len(samples) \in Nat /\ (Len(samples) = 0 <=> samples = <<>>)
  BY EmptySeq, LenProperties DEF VbInv, VbTypes
<1>10. /\ samples' \in Seq(VbSample) /\ Len(samples') = Len(samples) + 1
       /\ \A i \in 1..Len(samples) : samples'[i] = samples[i]
       /\ samples'[Len(samples) + 1] = s
  BY <1>5, <1>6, <1>9, AppendProperties
<1>11. VbTypes'
  BY <1>5, <1>7, <1>8, <1>9, <1>10 DEF VbInv, VbTypes
<1>12. QueueAt(samples', next') = QueueAt(samples, next)
  <2>1. samples' # <<>>
    BY <1>9, <1>10, EmptySeq
  <2>2. CASE samples = <<>>
    BY <2>1, <2>2, <1>6, <1>9, <1>10 DEF QueueAt
  <2>3. CASE samples # <<>>
    BY <2>1, <2>3, <1>9, <1>10 DEF QueueAt
  <2> QED
    BY <2>2, <2>3
<1>13. ASSUME ~failed PROVE Adjacent(samples', next')
  <2> SUFFICES ASSUME NEW i \in 1..Len(samples'), ~samples'[i].bad
               PROVE  samples'[i].at + samples'[i].n
                        = (IF i = Len(samples') THEN next' ELSE samples'[i + 1].at)
    BY DEF Adjacent
  <2>1. CASE i = Len(samples')
    BY <2>1, <1>5, <1>6, <1>9, <1>10
  <2>2. CASE i # Len(samples')
    <3>1. /\ i \in 1..Len(samples) /\ samples'[i] = samples[i] /\ ~samples[i].bad
          /\ i + 1 \in 1..Len(samples) + 1
      BY <2>2, <1>9, <1>10
    <3>2. samples[i].at + samples[i].n
            = (IF i = Len(samples) THEN next ELSE samples[i + 1].at)
      BY <1>13, <3>1 DEF VbInv, VbPlaces, Adjacent
    <3>3. samples'[i + 1].at = (IF i = Len(samples) THEN next ELSE samples[i + 1].at)
      BY <3>1, <1>6, <1>9, <1>10
    <3> QED
      BY <2>2, <3>1, <3>2, <3>3
  <2> QED
    BY <2>1, <2>2
<1>14. VbPlaces'
  BY <1>8, <1>12, <1>13 DEF VbInv, VbPlaces
<1> QED
  BY <1>11, <1>14

(* The blocks of the front sample continue those in pcm.                   *)
LEMMA DecodedContinue ==
  ASSUME VbInv, samples # <<>>
  PROVE  LET f == Head(samples)
             q == pcm \o Decoded(f)
         IN /\ f = samples[1] /\ f \in VbSample /\ f.at \in Nat /\ f.n \in Nat
            /\ q \in Seq(Nat) /\ Len(pcm) \in Nat /\ Len(q) = Len(pcm) + f.n
            /\ ~failed => EndsBefore(q, f.at + f.n)
<1> DEFINE f == Head(samples)
           d == Decoded(f)
<1>1. f = samples[1] /\ f \in VbSample
  BY TailIs DEF VbInv, VbTypes
<1>2. f.at \in Nat /\ f.n \in Nat
  BY <1>1 DEF VbSample
<1> HIDE DEF f
<1>3. d \in Seq(Nat) /\ Len(d) = f.n /\ \A i \in 1..f.n : d[i] = f.at + i - 1
  BY <1>2 DEF Decoded
<1> HIDE DEF d
<1>4. pcm \in Seq(Nat) /\ Len(pcm) \in Nat
  BY DEF VbInv, VbTypes
<1>5. /\ pcm \o d \in Seq(Nat) /\ Len(pcm \o d) = Len(pcm) + f.n
      /\ \A i \in 1..Len(pcm) + f.n :
           (pcm \o d)[i] = IF i <= Len(pcm) THEN pcm[i] ELSE d[i - Len(pcm)]
  <2>1. /\ pcm \o d \in Seq(Nat) /\ Len(pcm \o d) = Len(pcm) + Len(d)
        /\ \A i \in 1..Len(pcm) + Len(d) :
             (pcm \o d)[i] = IF i <= Len(pcm) THEN pcm[i] ELSE d[i - Len(pcm)]
    BY <1>3, <1>4, ConcatProperties
  <2> QED
    BY <2>1, <1>3
<1>6. ASSUME ~failed PROVE EndsBefore(pcm \o d, f.at + f.n)
  <2>1. \A i \in 1..Len(pcm) : pcm[i] = f.at - Len(pcm) + i - 1
    BY <1>6, <1>1 DEF VbInv, VbPlaces, EndsBefore, QueueAt
  <2> SUFFICES ASSUME NEW i \in 1..Len(pcm) + f.n
               PROVE  (pcm \o d)[i] = (f.at + f.n) - (Len(pcm) + f.n) + i - 1
    BY <1>5 DEF EndsBefore
  <2>2. CASE i <= Len(pcm)
    <3>1. i \in 1..Len(pcm)
      BY <2>2, <1>2, <1>4
    <3>2. (pcm \o d)[i] = f.at - Len(pcm) + i - 1
      BY <2>1, <2>2, <3>1, <1>5
    <3> QED
      BY <3>1, <3>2, <1>2, <1>4
  <2>3. CASE i > Len(pcm)
    <3>1. i - Len(pcm) \in 1..f.n
      BY <2>3, <1>2, <1>4
    <3>2. (pcm \o d)[i] = f.at + (i - Len(pcm)) - 1
      BY <2>3, <3>1, <1>2, <1>3, <1>4, <1>5
    <3> QED
      BY <3>2, <1>2, <1>4
  <2>4. i <= Len(pcm) \/ i > Len(pcm)
    BY <1>2, <1>4
  <2> QED
    BY <2>2, <2>3, <2>4
<1> QED
  BY <1>1, <1>2, <1>4, <1>5, <1>6 DEF d, f

(* A buffer is filled: the times go on with the blocks, and what leaves    *)
(* has its time.                                                           *)
LEMMA FillContinues ==
  ASSUME NEW q \in Seq(Nat), NEW origin \in Nat, NEW count \in Nat, NEW sum \in Nat,
         NEW a \in Nat, EndsBefore(q, a), TimesAt(origin, count, sum, a - Len(q)),
         Fill(q, origin, count, sum)
  PROVE  /\ pcm' \in Seq(Nat) /\ total' \in Nat /\ startTime' \in Nat
         /\ EndsBefore(pcm', a) /\ TimesAt(origin, total', startTime', a - Len(pcm'))
         /\ out' = out \/ SamplesToMediaTime(out'.first) - out'.at \in {0, 1}
<1> DEFINE n == IF Len(q) < Capacity THEN Len(q) ELSE Capacity
<1>1. Len(q) \in Nat /\ Capacity \in Nat \ {0}
  BY RateAssumption
<1>2. n \in 0..Len(q) /\ (n = 0 => Len(q) = 0)
  BY <1>1
<1>3. /\ n = 0 => pcm' = <<>> /\ total' = count /\ startTime' = sum /\ out' = out
      /\ n # 0 => /\ pcm' = SubSeq(q, n + 1, Len(q))
                  /\ total' = count + n
                  /\ startTime' = origin + SamplesToMediaTime(count + n)
                  /\ out' = [at |-> sum, first |-> q[1], channels |-> ProcessLibVorbisOutput]
  BY DEF Fill
<1> HIDE DEF n
<1>4. CASE n = 0
  <2>1. pcm' = <<>> /\ Len(pcm') = 0 /\ pcm' \in Seq(Nat)
    BY <1>3, <1>4
  <2> QED
    BY <2>1, <1>2, <1>3, <1>4 DEF EndsBefore
<1>5. CASE n # 0
  <2>1. /\ pcm' \in Seq(Nat) /\ Len(pcm') = Len(q) - n
        /\ \A i \in 1..Len(q) - n : pcm'[i] = q[n + i]
    <3>1. n + 1 \in Int /\ Len(q) \in Int /\ \A i \in n + 1..Len(q) : q[i] \in Nat
      BY <1>1, <1>2
    <3> DEFINE m == n + 1
               p == SubSeq(q, m, Len(q))
    <3>2. /\ p \in Seq(Nat) /\ Len(p) = IF m <= Len(q) THEN Len(q) - m + 1 ELSE 0
          /\ \A i \in 1..Len(q) - m + 1 : p[i] = q[m + i - 1]
      <4> HIDE DEF m
      <4> QED
        BY <3>1, SubSeqProperties DEF m
    <3> HIDE DEF p
    <3>3. Len(q) - m + 1 = Len(q) - n /\ \A i \in Int : m + i - 1 = n + i
      BY <1>1, <1>2
    <3>4. Len(p) = Len(q) - n
      <4>1. CASE m <= Len(q)
        BY <4>1, <3>2, <3>3
      <4>2. CASE ~(m <= Len(q))
        <5>1. Len(q) - n = 0
          BY <4>2, <1>1, <1>2
        <5> QED
          BY <4>2, <5>1, <3>2
      <4> QED
        BY <4>1, <4>2
    <3>5. \A i \in 1..Len(q) - n : p[i] = q[n + i]
      <4> SUFFICES ASSUME NEW i \in 1..Len(q) - n PROVE p[i] = q[n + i]
        OBVIOUS
      <4>1. i \in 1..Len(q) - m + 1 /\ m + i - 1 = n + i
        BY <3>3
      <4>2. p[i] = q[m + i - 1]
        BY <3>2, <4>1
      <4> QED
        BY <4>1, <4>2
    <3> QED
      BY <3>2, <3>4, <3>5, <1>3, <1>5 DEF p
  <2>2. EndsBefore(pcm', a)
    <3> SUFFICES ASSUME NEW i \in 1..Len(q) - n
                 PROVE  pcm'[i] = a - (Len(q) - n) + i - 1
      BY <2>1 DEF EndsBefore
    <3>1. n + i \in 1..Len(q)
      BY <1>1, <1>2
    <3>2. q[n + i] = a - Len(q) + (n + i) - 1
      BY <3>1 DEF EndsBefore
    <3> QED
      BY <2>1, <3>2, <1>1, <1>2
  <2>3. /\ a - Len(q) - count \in Nat /\ origin = SamplesToMediaTime(a - Len(q) - count)
        /\ sum = origin + SamplesToMediaTime(count)
    BY DEF TimesAt
  <2>4. count + n \in Nat /\ n \in Nat /\ SamplesToMediaTime(count + n) \in Nat
    <3>1. count + n \in Nat /\ n \in Nat
      BY <1>1, <1>2
    <3> QED
      BY <3>1, TimeIs
  <2>5. TimesAt(origin, total', startTime', a - Len(pcm'))
    <3>1. a - Len(pcm') - total' = a - Len(q) - count
      BY <2>1, <1>1, <1>2, <1>3, <1>5
    <3> QED
      BY <2>3, <3>1, <1>3, <1>5 DEF TimesAt
  <2>6. q[1] = a - Len(q)
    <3>1. 1 \in 1..Len(q)
      BY <1>1, <1>2, <1>5
    <3> QED
      BY <3>1, <1>1 DEF EndsBefore
  <2>7. out'.first = q[1] /\ out'.at = sum
    BY <1>3, <1>5
  <2>8. SamplesToMediaTime(q[1]) - sum \in {0, 1}
    <3>1. q[1] = (a - Len(q) - count) + count
      BY <2>3, <2>6, <1>1
    <3> HIDE DEF TimesAt
    <3> DEFINE b == a - Len(q) - count
    <3>2. b \in Nat
      BY <2>3
    <3> HIDE DEF b
    <3>3. SamplesToMediaTime(b + count) - (SamplesToMediaTime(b) + SamplesToMediaTime(count)) \in {0, 1}
      BY <3>2, TimeIs
    <3> QED
      BY <2>3, <3>1, <3>3 DEF b
  <2> QED
    BY <2>1, <2>2, <2>4, <2>5, <2>7, <2>8, <1>3, <1>5, SMTT(30)
<1> QED
  BY <1>4, <1>5

(* A buffer is filled from what is there.                                  *)
LEMMA OutputContinues ==
  ASSUME VbInv, VbProcessOutput
  PROVE  /\ VbTypes' /\ VbPlaces'
         /\ out' = out \/ failed \/ SamplesToMediaTime(out'.first) - out'.at \in {0, 1}
<1> DEFINE f      == Head(samples)
           q      == pcm \o Decoded(f)
           begins == decodeStart < 0
           arrival   == SamplesToMediaTime(f.at)
           origin  == IF begins THEN arrival ELSE decodeStart
           count  == IF begins THEN 0 ELSE total
           sum    == IF begins THEN arrival ELSE startTime
           a      == f.at + f.n
<1>1. /\ samples # <<>> /\ ~f.bad /\ Fill(q, origin, count, sum) /\ decodeStart' = origin
      /\ samples' = Tail(samples)
      /\ inChannels' = inChannels /\ post' = post /\ next' = next /\ failed' = failed
  BY DEF VbProcessOutput, vbFormat
<1>2. /\ f = samples[1] /\ f \in VbSample /\ f.at \in Nat /\ f.n \in Nat
      /\ q \in Seq(Nat) /\ Len(pcm) \in Nat /\ Len(q) = Len(pcm) + f.n
      /\ ~failed => EndsBefore(q, a)
  BY <1>1, DecodedContinue
<1>3. /\ origin \in Nat /\ count \in Nat /\ sum \in Nat /\ a \in Nat
  <2>1. arrival \in Nat
    BY <1>2, TimeIs
  <2> QED
    BY <2>1, <1>2 DEF VbInv, VbTypes
<1>4. ASSUME ~failed PROVE TimesAt(origin, count, sum, a - Len(q))
  <2>1. a - Len(q) = f.at - Len(pcm)
    BY <1>2
  <2>2. QueueAt(samples, next) = f.at
    BY <1>1, <1>2 DEF QueueAt
  <2>3. CASE begins
    <3>1. pcm = <<>> /\ Len(pcm) = 0
      BY <1>4, <2>3 DEF VbInv, VbPlaces
    <3>2. arrival \in Nat
      BY <1>2, TimeIs
    <3>3. SamplesToMediaTime(0) = 0
      BY TimeIs
    <3>4. arrival + SamplesToMediaTime(0) = arrival
      BY <3>2, <3>3
    <3> QED
      BY <2>1, <2>3, <3>1, <3>4, <1>2 DEF TimesAt
  <2>4. CASE ~begins
    <3>1. decodeStart >= 0
      BY <2>4 DEF VbInv, VbTypes
    <3>2. TimesAt(decodeStart, total, startTime, f.at - Len(pcm))
      BY <3>1, <1>4, <2>2 DEF VbInv, VbPlaces
    <3> QED
      BY <2>1, <2>4, <3>2
  <2> QED
    BY <2>3, <2>4
<1>5. samples \in Seq(VbSample)
  BY DEF VbInv, VbTypes
<1>6. /\ samples' \in Seq(VbSample) /\ Len(samples) \in Nat /\ Len(samples) >= 1
      /\ Len(samples') = Len(samples) - 1
      /\ \A i \in 1..Len(samples) - 1 : samples'[i] = samples[i + 1]
      /\ Len(samples) = 1 => samples' = <<>>
      /\ Len(samples) > 1 => samples' # <<>>
  BY <1>1, <1>5, TailIs
<1> HIDE DEF q, origin, count, sum, a, f, begins, arrival
<1>7. /\ pcm' \in Seq(Nat) /\ total' \in Nat /\ startTime' \in Nat
  <2>1. CASE failed
    <3> DEFINE n == IF Len(q) < Capacity THEN Len(q) ELSE Capacity
    <3>1. n \in Nat
      BY <1>2, RateAssumption
    <3>2. \/ pcm' = <<>> /\ total' = count /\ startTime' = sum
          \/ /\ pcm' = SubSeq(q, n + 1, Len(q)) /\ total' = count + n
             /\ startTime' = origin + SamplesToMediaTime(count + n)
      BY <1>1 DEF Fill
    <3> HIDE DEF n
    <3>3. SubSeq(q, n + 1, Len(q)) \in Seq(Nat)
      <4>1. \A i \in n + 1..Len(q) : q[i] \in Nat
        BY <3>1, <1>2, SMTT(30)
      <4> QED
        BY <4>1, <3>1, <1>2, SubSeqProperties
    <3>4. count + n \in Nat
      BY <3>1, <1>3
    <3>5. SamplesToMediaTime(count + n) \in Nat
      BY <3>4, TimeIs
    <3>6. <<>> \in Seq(Nat)
      OBVIOUS
    <3>7. origin + SamplesToMediaTime(count + n) \in Nat
      BY <3>5, <1>3
    <3> QED
      BY <3>2, <3>3, <3>4, <3>6, <3>7, <1>3
  <2>2. CASE ~failed
    BY <2>2, <1>1, <1>2, <1>3, <1>4, FillContinues
  <2> QED
    BY <2>1, <2>2
<1>8. VbTypes'
  BY <1>1, <1>3, <1>6, <1>7 DEF VbInv, VbTypes
<1>9. ASSUME ~failed
      PROVE  /\ EndsBefore(pcm', a) /\ TimesAt(origin, total', startTime', a - Len(pcm'))
             /\ out' = out \/ SamplesToMediaTime(out'.first) - out'.at \in {0, 1}
  BY <1>1, <1>2, <1>3, <1>4, <1>9, FillContinues
<1>10. ASSUME ~failed PROVE QueueAt(samples', next') = a /\ Adjacent(samples', next')
  <2>1. Adjacent(samples, next)
    BY <1>10 DEF VbInv, VbPlaces
  <2>2. a = (IF 1 = Len(samples) THEN next ELSE samples[2].at)
    <3>1. 1 \in 1..Len(samples) /\ ~samples[1].bad
      BY <1>1, <1>2, <1>6
    <3>2. samples[1].at + samples[1].n = (IF 1 = Len(samples) THEN next ELSE samples[1 + 1].at)
      BY <2>1, <3>1 DEF Adjacent
    <3> QED
      BY <3>2, <1>2 DEF a
  <2>3. QueueAt(samples', next') = a
    BY <2>2, <1>1, <1>6 DEF QueueAt
  <2>4. ASSUME NEW i \in 1..Len(samples'), ~samples'[i].bad
        PROVE  samples'[i].at + samples'[i].n
                 = (IF i = Len(samples') THEN next' ELSE samples'[i + 1].at)
    <3>1. i \in 1..Len(samples) - 1 /\ i + 1 \in 1..Len(samples) /\ samples'[i] = samples[i + 1]
      BY <1>6
    <3>2. samples[i + 1].at + samples[i + 1].n
            = (IF i + 1 = Len(samples) THEN next ELSE samples[(i + 1) + 1].at)
      BY <2>1, <2>4, <3>1 DEF Adjacent
    <3>3. i # Len(samples') => samples'[i + 1] = samples[(i + 1) + 1]
      <4>1. i # Len(samples') => i + 1 \in 1..Len(samples) - 1
        BY <3>1, <1>6
      <4> QED
        BY <4>1, <1>6
    <3>4. i = Len(samples') <=> i + 1 = Len(samples)
      BY <3>1, <1>6
    <3> QED
      BY <3>1, <3>2, <3>3, <3>4, <1>1
  <2> QED
    BY <2>3, <2>4 DEF Adjacent
<1>11. VbPlaces'
  <2>1. origin >= 0 /\ ~(origin < 0)
    BY <1>3
  <2> QED
    BY <2>1, <1>1, <1>9, <1>10 DEF VbPlaces
<1> QED
  BY <1>8, <1>9, <1>11

(* What the other operations do.                                           *)
LEMMA OtherwiseContinues ==
  ASSUME VbInv,
         \/ VbSetInputType \/ VbClearInputType \/ VbSetOutputType
         \/ VbDecodeFails \/ VbFlush \/ UNCHANGED vbVars
  PROVE  VbInv'
<1> USE DEF VbInv
<1>1. <<>> \in Seq(VbSample) /\ <<>> \in Seq(Nat) /\ Len(<<>>) = 0
  OBVIOUS
<1>2. \A n : Adjacent(<<>>, n) /\ EndsBefore(<<>>, n)
  BY <1>1 DEF Adjacent, EndsBefore
<1>3. \A c \in Channels : c \in Nat
  BY ChannelsAssumption
<1>4. CASE VbSetInputType \/ VbClearInputType
  <2>1. /\ inChannels' \in Nat /\ samples' = <<>> /\ pcm' = <<>> /\ decodeStart < 0
        /\ post' = post /\ decodeStart' = decodeStart /\ total' = total
        /\ startTime' = startTime /\ next' = next /\ out' = out /\ failed' = failed
    BY <1>3, <1>4 DEF VbSetInputType, VbClearInputType, vbTimes
  <2>2. VbTypes'
    BY <2>1, <1>1 DEF VbTypes
  <2>3. decodeStart = -1
    BY <2>1 DEF VbTypes
  <2> QED
    BY <2>1, <2>2, <2>3, <1>2 DEF VbPlaces, OutputTimes
<1>5. CASE VbSetOutputType
  <2>1. post' \in BOOLEAN
    BY <1>5 DEF VbSetOutputType
  <2> QED
    BY <2>1, <1>5 DEF VbSetOutputType, VbTypes, VbPlaces, OutputTimes, vbTimes
<1>6. CASE VbDecodeFails
  <2>1. samples # <<>> /\ pcm' = pcm \o Decoded(Head(samples)) /\ failed' = TRUE
    BY <1>6 DEF VbDecodeFails
  <2>2. pcm' \in Seq(Nat)
    BY <2>1, DecodedContinue
  <2> QED
    BY <2>1, <2>2, <1>6 DEF VbDecodeFails, VbTypes, VbPlaces, OutputTimes, vbFormat, vbTimes
<1>7. CASE VbFlush
  <2>1. next' \in Nat
    BY <1>7, VbBounds DEF VbFlush
  <2>2. VbTypes'
    BY <2>1, <1>1, <1>7 DEF VbFlush, VbTypes, vbFormat
  <2>3. VbPlaces'
    BY <1>2, <1>7 DEF VbFlush, VbPlaces
  <2> QED
    BY <2>2, <2>3, <1>7 DEF VbFlush, OutputTimes
<1>8. CASE UNCHANGED vbVars
  BY <1>8 DEF vbVars, vbFormat, vbTimes, VbTypes, VbPlaces, OutputTimes
<1> QED
  BY <1>4, <1>5, <1>6, <1>7, <1>8

LEMMA VbInvNext ==
  ASSUME VbInv, [VbNext]_vbVars PROVE VbInv'
<1>1. CASE VbProcessInput
  <2>1. out' = out /\ failed' = failed
    BY <1>1 DEF VbProcessInput
  <2> QED
    BY <2>1, <1>1, InputContinues DEF VbInv, OutputTimes
<1>2. CASE VbProcessOutput
  <2>1. failed' = failed
    BY <1>2 DEF VbProcessOutput
  <2> QED
    BY <2>1, <1>2, OutputContinues DEF VbInv, OutputTimes
<1> QED
  BY <1>1, <1>2, OtherwiseContinues DEF VbNext

(* However many buffers were filled, a buffer has the time its first block *)
(* has in the stream: for every rate, unit and size of the packets.        *)
THEOREM OutputOnTime == VbSpec => []OutputTimes
<1>1. VbInv => OutputTimes
  BY DEF VbInv
<1> QED
  BY <1>1, VbInvInit, VbInvNext, PTL DEF VbSpec

-----------------------------------------------------------------------------
(***************************************************************************)
(* Its channels.  The types fit each other, as long as the pipeline sets   *)
(* them once, and the blocks have the order of the channel mask.           *)
(***************************************************************************)
VbFormats ==
  /\ inChannels \in Channels \cup {0}
  /\ outFormat = <<>> \/
       /\ inChannels > 0 /\ outFormat \in OutputTypes(inChannels)
       /\ post <=> outFormat[1] # inChannels \/ ~outFormat[2]

LEMMA VbFormatsInit == VbInit => VbFormats /\ OwnSide
BY DEF VbInit, VbFormats, OwnSide

(* The order of the blocks is that of the speakers of the channel mask.    *)
LEMMA BlockIs ==
  \A c \in 1..8 : ReorderAndInterleaveBlock(c) = GetChannelMask(c)
<1> SUFFICES ASSUME NEW c \in 1..8 PROVE ReorderAndInterleaveBlock(c) = GetChannelMask(c)
  OBVIOUS
<1> DEFINE b == ReorderAndInterleaveBlock(c)
<1>1. CASE c = 1
  <2>1. b = [i \in 1..1 |-> <<"FC">>[i]]
    BY <1>1 DEF ReorderAndInterleaveBlock, VorbisOrder
  <2> QED
    BY <1>1, <2>1 DEF GetChannelMask
<1>2. CASE c = 2
  BY <1>2 DEF ReorderAndInterleaveBlock, VorbisOrder, GetChannelMask
<1>3. CASE c = 3
  BY <1>3 DEF ReorderAndInterleaveBlock, VorbisOrder, GetChannelMask
<1>4. CASE c = 4
  BY <1>4 DEF ReorderAndInterleaveBlock, VorbisOrder, GetChannelMask
<1>5. CASE c = 5
  BY <1>5 DEF ReorderAndInterleaveBlock, VorbisOrder, GetChannelMask
<1>6. CASE c = 6
  BY <1>6 DEF ReorderAndInterleaveBlock, VorbisOrder, GetChannelMask
<1>7. CASE c = 7
  BY <1>7 DEF ReorderAndInterleaveBlock, VorbisOrder, GetChannelMask
<1>8. CASE c = 8
  BY <1>8 DEF ReorderAndInterleaveBlock, VorbisOrder, GetChannelMask
<1> QED
  BY <1>1, <1>2, <1>3, <1>4, <1>5, <1>6, <1>7, <1>8

(* A mask has a speaker for each channel.                                  *)
LEMMA MaskIs ==
  \A c \in 1..8 : Len(GetChannelMask(c)) = c /\ DOMAIN GetChannelMask(c) = 1..c
<1> SUFFICES ASSUME NEW c \in 1..8
             PROVE  Len(GetChannelMask(c)) = c /\ DOMAIN GetChannelMask(c) = 1..c
  OBVIOUS
<1>1. CASE c = 1
  BY <1>1 DEF GetChannelMask
<1>2. CASE c = 2
  BY <1>2 DEF GetChannelMask
<1>3. CASE c = 3
  BY <1>3 DEF GetChannelMask
<1>4. CASE c = 4
  BY <1>4 DEF GetChannelMask
<1>5. CASE c = 5
  BY <1>5 DEF GetChannelMask
<1>6. CASE c = 6
  BY <1>6 DEF GetChannelMask
<1>7. CASE c = 7
  BY <1>7 DEF GetChannelMask
<1>8. CASE c = 8
  BY <1>8 DEF GetChannelMask
<1> QED
  BY <1>1, <1>2, <1>3, <1>4, <1>5, <1>6, <1>7, <1>8

(* The speakers of a buffer that got its blocks as they are, a mix of      *)
(* them to two channels, or the first six of eight.                        *)
LEMMA ChannelsFit ==
  ASSUME VbFormats, inChannels > 0, outFormat # <<>>, {4, 7} \cap Channels = {},
         NEW i \in DOMAIN ProcessLibVorbisOutput
  PROVE  LET speaker == GetChannelMask(Len(ProcessLibVorbisOutput))[i]
             from    == ProcessLibVorbisOutput[i]
         IN /\ from # {}
            /\ speaker \in Left  => from \cap Right = {}
            /\ speaker \in Right => from \cap Left = {}
<1> DEFINE c == inChannels
           w == outFormat[1]
           block == ReorderAndInterleaveBlock(c)
<1>1. c \in {1, 2, 3, 5, 6, 8}
  BY ChannelsAssumption DEF VbFormats
<1>2. block = GetChannelMask(c) /\ Len(block) = c /\ DOMAIN block = 1..c
  <2>1. block = GetChannelMask(c)
    BY <1>1, BlockIs
  <2>2. c \in 1..8
    BY <1>1
  <2>3. Len(GetChannelMask(c)) = c /\ DOMAIN GetChannelMask(c) = 1..c
    BY <2>2, MaskIs
  <2> HIDE DEF block
  <2> QED
    BY <2>1, <2>3
<1>3. /\ w = c \/ (w = 2 /\ c > 2) \/ (w = 6 /\ c > 6)
      /\ outFormat[2] \in BOOLEAN /\ (post <=> w # c \/ ~outFormat[2])
  BY DEF VbFormats, OutputTypes
<1>4. \A s : s \in Left => s \notin Right
  BY DEF Left, Right
<1>5. CASE w = c
  <2>1. ProcessLibVorbisOutput = [j \in 1..c |-> {block[j]}]
    <3>1. CASE post
      BY <3>1, <1>2, <1>3, <1>5 DEF ProcessLibVorbisOutput, PostProcessSamples
    <3>2. CASE ~post
      BY <3>2, <1>2 DEF ProcessLibVorbisOutput
    <3> QED
      BY <3>1, <3>2
  <2>2. Len(ProcessLibVorbisOutput) = c /\ DOMAIN ProcessLibVorbisOutput = 1..c
    BY <2>1, <1>1
  <2> QED
    BY <2>1, <2>2, <1>2, <1>4
<1>6. CASE w = 2 /\ c > 2
  <2>1. ProcessLibVorbisOutput = [k \in 1..2 |-> {block[j] : j \in StereoMix(c)[k]}]
    <3>1. post /\ outFormat[1] = 2 /\ 2 < Len(block)
      BY <1>1, <1>2, <1>3, <1>6
    <3>2. ProcessLibVorbisOutput = PostProcessSamples(block, 2, outFormat[2])
      BY <3>1 DEF ProcessLibVorbisOutput
    <3> HIDE DEF block
    <3>3. 2 < Len(block) /\ Len(block) # 2
      BY <3>1, <1>1, <1>2
    <3>4. PostProcessSamples(block, 2, outFormat[2])
            = [k \in 1..2 |-> {block[j] : j \in StereoMix(Len(block))[k]}]
      BY <3>3 DEF PostProcessSamples
    <3> QED
      BY <3>2, <3>4, <1>2
  <2>2. Len(ProcessLibVorbisOutput) = 2 /\ DOMAIN ProcessLibVorbisOutput = 1..2
    BY <2>1
  <2> HIDE DEF block, c
  <2>3. GetChannelMask(2)[1] = "FL" /\ GetChannelMask(2)[2] = "FR"
    BY DEF GetChannelMask
  <2>4. /\ StereoMix(c)[1] # {} /\ \A j \in StereoMix(c)[1] : block[j] \notin Right
        /\ StereoMix(c)[2] # {} /\ \A j \in StereoMix(c)[2] : block[j] \notin Left
    <3>1. CASE c = 3
      BY <3>1, <1>2 DEF StereoMix, GetChannelMask, Left, Right
    <3>2. CASE c = 5
      BY <3>2, <1>2 DEF StereoMix, GetChannelMask, Left, Right
    <3>3. CASE c = 6
      BY <3>3, <1>2 DEF StereoMix, GetChannelMask, Left, Right
    <3>4. CASE c = 8
      BY <3>4, <1>2 DEF StereoMix, GetChannelMask, Left, Right
    <3> QED
      BY <3>1, <3>2, <3>3, <3>4, <1>1, <1>6
  <2>5. "FL" \notin Right /\ "FR" \notin Left
    BY DEF Left, Right
  <2>6. CASE i = 1
    <3>1. ProcessLibVorbisOutput[i] = {block[j] : j \in StereoMix(c)[1]}
      BY <2>1, <2>6
    <3>2. GetChannelMask(Len(ProcessLibVorbisOutput))[i] = "FL"
      BY <2>2, <2>3, <2>6
    <3>3. {block[j] : j \in StereoMix(c)[1]} # {}
      BY <2>4
    <3>4. {block[j] : j \in StereoMix(c)[1]} \cap Right = {}
      BY <2>4
    <3> QED
      BY <2>5, <3>1, <3>2, <3>3, <3>4, <1>4
  <2>7. CASE i = 2
    <3>1. ProcessLibVorbisOutput[i] = {block[j] : j \in StereoMix(c)[2]}
      BY <2>1, <2>7
    <3>2. GetChannelMask(Len(ProcessLibVorbisOutput))[i] = "FR"
      BY <2>2, <2>3, <2>7
    <3>3. {block[j] : j \in StereoMix(c)[2]} # {}
      BY <2>4
    <3>4. {block[j] : j \in StereoMix(c)[2]} \cap Left = {}
      BY <2>4
    <3> QED
      BY <2>5, <3>1, <3>2, <3>3, <3>4, <1>4
  <2> QED
    BY <2>2, <2>6, <2>7
<1>7. CASE w = 6 /\ c > 6
  <2>1. c = 8
    BY <1>1, <1>7
  <2>2. ProcessLibVorbisOutput = [k \in 1..6 |-> {block[k]}]
    <3>1. post /\ outFormat[1] = 6 /\ 6 < Len(block)
      <4>1. Len(block) = 8
        BY <2>1, <1>2
      <4> HIDE DEF block
      <4> QED
        BY <2>1, <4>1, <1>3, <1>7
    <3>2. ProcessLibVorbisOutput = PostProcessSamples(block, 6, outFormat[2])
      BY <3>1 DEF ProcessLibVorbisOutput
    <3> HIDE DEF block
    <3>3. PostProcessSamples(block, 6, outFormat[2]) = [k \in 1..6 |-> {block[k]}]
      BY <3>1 DEF PostProcessSamples
    <3> QED
      BY <3>2, <3>3
  <2>3. Len(ProcessLibVorbisOutput) = 6 /\ DOMAIN ProcessLibVorbisOutput = 1..6
    BY <2>2
  <2> HIDE DEF block, c
  <2>4. \A k \in 1..6 : GetChannelMask(6)[k] = GetChannelMask(8)[k]
    BY DEF GetChannelMask
  <2> QED
    BY <2>1, <2>2, <2>3, <2>4, <1>2, <1>4
<1> QED
  BY <1>3, <1>5, <1>6, <1>7

LEMMA VbFormatsNext ==
  ASSUME ~Renegotiates, {4, 7} \cap Channels = {}, VbFormats /\ OwnSide, [VbNext]_vbVars
  PROVE  VbFormats' /\ OwnSide'
<1>1. CASE VbSetInputType
  <2>1. outFormat = <<>>
    BY <1>1 DEF VbSetInputType, VbFormats
  <2> QED
    BY <2>1, <1>1 DEF VbSetInputType, VbFormats, OwnSide
<1>2. CASE VbClearInputType
  BY <1>2 DEF VbClearInputType, VbFormats, OwnSide
<1>3. CASE VbSetOutputType
  BY <1>3 DEF VbSetOutputType, VbFormats, OwnSide
<1>4. CASE VbProcessOutput
  <2>1. VbFormats' /\ outFormat # <<>>
    BY <1>4 DEF VbProcessOutput, VbFormats, vbFormat
  <2>2. inChannels > 0
    BY <2>1 DEF VbFormats
  <2>3. out' = out \/ out'.channels = ProcessLibVorbisOutput
    BY <1>4 DEF VbProcessOutput, Fill
  <2> QED
    BY <2>1, <2>2, <2>3, ChannelsFit DEF OwnSide
<1>5. CASE VbFlush
  BY <1>5 DEF VbFlush, VbFormats, OwnSide, vbFormat
<1>6. CASE VbProcessInput \/ VbDecodeFails \/ UNCHANGED vbVars
  BY <1>6 DEF VbProcessInput, VbDecodeFails, VbFormats, OwnSide, vbFormat, vbVars
<1> QED
  BY <1>1, <1>2, <1>3, <1>4, <1>5, <1>6 DEF VbNext

(* What leaves the transform has the right time and the right channels:    *)
(* for every number of channels but four and seven, whose mixes do not     *)
(* fit, and a pipeline that sets the types once.                           *)
THEOREM OutputAlwaysSound ==
  ~Renegotiates /\ {4, 7} \cap Channels = {} => (VbSpec => []OutputSound)
<1> SUFFICES ASSUME ~Renegotiates, {4, 7} \cap Channels = {} PROVE VbSpec => []OutputSound
  OBVIOUS
<1>1. VbInit => VbFormats /\ OwnSide
  BY VbFormatsInit
<1>2. (VbFormats /\ OwnSide) /\ [VbNext]_vbVars => (VbFormats /\ OwnSide)'
  BY VbFormatsNext
<1>3. VbSpec => []OwnSide
  BY <1>1, <1>2, PTL DEF VbSpec
<1>4. OutputTimes /\ OwnSide => OutputSound
  BY DEF OutputSound
<1> QED
  BY <1>3, <1>4, OutputOnTime, PTL

=============================================================================
