----------------------------- MODULE ByteStream -----------------------------
(***************************************************************************)
(* What a Runnel promises: a bounded byte stream.  Bytes come out in the   *)
(* order they went in, each once; the end is seen only behind the last.    *)
(***************************************************************************)
EXTENDS Naturals, Sequences

CONSTANTS Bytes, Capacity

VARIABLES in, out, finished, ended

vars == <<in, out, finished, ended>>

Init == in = <<>> /\ out = <<>> /\ finished = FALSE /\ ended = FALSE

Put ==
    /\ ~finished
    /\ \E n \in 1 .. Capacity :
          /\ Len(in) + n <= Len(Bytes) /\ Len(in) + n - Len(out) <= Capacity
          /\ in' = SubSeq(Bytes, 1, Len(in) + n)
    /\ UNCHANGED <<out, finished, ended>>

Take ==
    /\ \E n \in 1 .. Capacity : Len(out) + n <= Len(in) /\ out' = SubSeq(in, 1, Len(out) + n)
    /\ UNCHANGED <<in, finished, ended>>

Finish == finished' = TRUE /\ UNCHANGED <<in, out, ended>>

End == finished /\ out = in /\ ended' = TRUE /\ UNCHANGED <<in, out, finished>>

Next == Put \/ Take \/ Finish \/ End

Spec == Init /\ [][Next]_vars

=============================================================================
