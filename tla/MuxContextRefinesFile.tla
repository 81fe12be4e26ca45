----------------------- MODULE MuxContextRefinesFile ------------------------
(***************************************************************************)
(* The interleaver implements MuxFile: the accepted frames are those that  *)
(* arrived, the written ones are the frames the blocks of the file were    *)
(* made from.                                                              *)
(***************************************************************************)
EXTENDS MuxContext

TrackFrames(out, arrived) == [i \in 1..Len(out) |-> arrived[out[i].frame]]

FileStatus == IF open THEN "open" ELSE IF finals > 0 THEN "sealed" ELSE "closed"

File == INSTANCE MuxFile WITH
  Tracks   <- {"video", "audio"},
  Frames   <- [t : VideoTimes, key : BOOLEAN] \cup [t : AudioTimes],
  status   <- FileStatus,
  accepted <- [k \in {"video", "audio"} |-> IF k = "video" THEN video ELSE audio],
  written  <- [k \in {"video", "audio"} |->
                 IF k = "video" THEN TrackFrames(videoOut, video)
                                ELSE TrackFrames(audioOut, audio)]

(* Every step of the interleaver is a step of the promise, or leaves the   *)
(* promised file as it is.                                                 *)
ImplementsFile == File!Spec

=============================================================================
