----------------------------- MODULE MCMFSource -----------------------------
(* Instances of MFSource for TLC: two tracks whose blocks interleave.      *)
EXTENDS MFSource

CONSTANTS v, a

Both      == {v, a}
Video     == {v}
Gapped    == << <<v, a, a>>, <<v>>, <<a>> >>
Together  == {{v, a}}
Anywhere  == {1, 3}
Either    == {{v, a}, {v}}
Faults    == {"load", "format", "play"}
=============================================================================
