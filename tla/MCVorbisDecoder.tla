-------------------------- MODULE MCVorbisDecoder ---------------------------
(* The two DirectShow decoders for TLC, which share nothing: a behaviour   *)
(* is of one of them.                                                      *)
EXTENDS VorbisDecoder, VpxDecoder

VARIABLE which

SmallOrLarge == {0, 1, 5}

DecodersInit == which \in {"vorbis", "vpx"} /\ Init /\ VpxInit

DecodersNext ==
  \/ which = "vorbis" /\ Next /\ UNCHANGED <<vpxVars, which>>
  \/ which = "vpx" /\ VpxNext /\ UNCHANGED <<vars, which>>

DecodersSpec ==
  /\ DecodersInit /\ [][DecodersNext]_<<vars, vpxVars, which>>
  /\ VorbisFairness /\ VpxFairness
=============================================================================
