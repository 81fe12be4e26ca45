---------------------------- MODULE MCTransforms ----------------------------
(* The two Media Foundation decoders and the VP8 encoder filter for TLC.   *)
(* They share nothing, so that a behaviour is of one of the three; before  *)
(* a decoder's, the settings of the encoder are of no account.             *)
EXTENDS MFVp8Decoder, MFVorbisDecoder, Vp8Encoder

TransformsInit == Vp8Init /\ VbInit /\ EncoderInit

EncoderUnused == EncoderInit /\ lagInFrames = 0 /\ interval = 0 /\ decimate = 1

TransformsNext ==
  \/ VbInit /\ EncoderUnused /\ Vp8Next /\ UNCHANGED <<vbVars, encVars>>
  \/ Vp8Init /\ EncoderUnused /\ VbNext /\ UNCHANGED <<vp8Vars, encVars>>
  \/ Vp8Init /\ VbInit /\ EncoderNext /\ UNCHANGED <<vp8Vars, vbVars>>

TransformsSpec ==
  TransformsInit /\ [][TransformsNext]_<<vp8Vars, vbVars, encVars>>

OneTwo    == {1, 2}
NoneThree == {0, 1, 3}
EvenSides == {1, 2, 3, 5, 6, 8}
Seven     == {7}
Sizes     == {1, 2}
Entries   == {0, 5}
FirstTimes == {-4000, 6000}
=============================================================================
