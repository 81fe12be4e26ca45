---------------------------- MODULE MCMuxFilter -----------------------------
(* Small instances of MuxFilter: the values its .cfg files choose from.    *)
EXTENDS MuxFilter

BothStreams == {{"video", "audio"}}
AnyStreams  == {{"video"}, {"audio"}, {"video", "audio"}}

MaybeVideo  == {{"audio"}, {"video", "audio"}}

NotLive   == {FALSE}
BothModes == BOOLEAN
NoOgg     == {FALSE}
MaybeOgg  == BOOLEAN

=============================================================================
