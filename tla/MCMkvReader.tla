---------------------------- MODULE MCMkvReader -----------------------------
(* The two page caches for TLC, which share nothing: a behaviour is of one *)
(* of them.                                                                *)
EXTENDS MkvReader, AsyncReader

CONSTANTS v, a   \* the video and the audio stream

TwoStreams == {v, a}

(* Two-byte pages: video blocks on two pages each, audio blocks between    *)
(* them, on a page of the second, and at the end of the file, whose last   *)
(* page is not full.                                                       *)
VideoBlocks == {[start |-> 1, size |-> 3], [start |-> 7, size |-> 2]}
AudioBlocks == {[start |-> n, size |-> 1] : n \in {4, 9, 10}}

SomeBlocks == [s \in Streams |-> IF s = v THEN VideoBlocks ELSE AudioBlocks]

(* The video and the audio block lie on three pages at most.               *)
ASSUME FivePagesAreEnough == RoomForBlocks

(* Three clusters, the second one not at the start of a page, and the last *)
(* one without audio; an audio sample is two blocks, on two pages.         *)
At(n, m, c) == [start |-> n, size |-> m, cluster |-> c]

SomeTracks ==
  [t \in Tracks |-> IF t = v THEN <<At(1, 2, 0), At(6, 2, 5), At(8, 1, 8)>>
                    ELSE <<At(3, 1, 0), At(4, 1, 0), At(5, 1, 5)>>]

SampleSizes == [t \in Tracks |-> IF t = v THEN 1 ELSE 2]

(* What the parser asks for: headers, and the end of the file.             *)
SomePeeks == {[start |-> n, size |-> 1] : n \in {0, 5, 9, 10}}

VARIABLE which

ReadersInit == which \in {"split", "mf"} /\ Init /\ ReaderInit

ReadersNext ==
  \/ which = "split" /\ Next /\ UNCHANGED <<readerVars, which>>
  \/ which = "mf" /\ ReaderNext /\ UNCHANGED <<vars, which>>

ReadersSpec == ReadersInit /\ [][ReadersNext]_<<vars, readerVars, which>>
=============================================================================
