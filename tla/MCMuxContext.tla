---------------------------- MODULE MCMuxContext ----------------------------
(* Small instances of MuxContext: the values its .cfg files choose from.   *)
EXTENDS MuxContextRefinesFile

BothStreams == {{"video", "audio"}}
AnyStreams  == {{"video"}, {"audio"}, {"video", "audio"}}

NotLive   == {FALSE}
BothModes == BOOLEAN
NoOgg    == {FALSE}
MaybeOgg == BOOLEAN

=============================================================================
