------------------------------ MODULE MuxFile -------------------------------
(***************************************************************************)
(* What the muxer promises about its output file, whatever order frames,   *)
(* ends of stream, flushes and Stop come in: each track of the file is a   *)
(* prefix of the frames accepted for it, in the order they were accepted;  *)
(* only accepted frames are written; and the file is sealed once, with     *)
(* every accepted frame in it, after which nothing is written.             *)
(***************************************************************************)
EXTENDS Naturals, Sequences

CONSTANTS Tracks, Frames

VARIABLES
  status,    \* "closed" (no file), "open" or "sealed"
  accepted,  \* the frames accepted for each track in this session
  written    \* the frames in each track of the file

vars == <<status, accepted, written>>

Nothing == [k \in Tracks |-> <<>>]

Init == status = "closed" /\ accepted = Nothing /\ written = Nothing

Begin(s) ==
  /\ status # "open" /\ status' = s
  /\ accepted' = Nothing /\ written' = Nothing

Accept(k, f) ==
  /\ status = "open"
  /\ accepted' = [accepted EXCEPT ![k] = Append(@, f)]
  /\ UNCHANGED <<status, written>>

Write(k) ==
  /\ status = "open" /\ Len(written[k]) < Len(accepted[k])
  /\ written' = [written EXCEPT ![k] = Append(@, accepted[k][Len(written[k]) + 1])]
  /\ UNCHANGED <<status, accepted>>

Seal ==
  /\ status = "open" /\ written = accepted
  /\ status' = "sealed"
  /\ UNCHANGED <<accepted, written>>

Next ==
  \/ \E s \in {"closed", "open"} : Begin(s)
  \/ \E k \in Tracks, f \in Frames : Accept(k, f)
  \/ \E k \in Tracks : Write(k)
  \/ Seal

Spec == Init /\ [][Next]_vars

=============================================================================
