----------------------------- MODULE XmTransfer -----------------------------
(***************************************************************************)
(* What an XMODEM transfer promises of the receiver's file: the blocks get *)
(* there in order, each once, and none after the end.                      *)
(***************************************************************************)
EXTENDS Naturals, Sequences

CONSTANT N               \* blocks of the image

VARIABLES file, ended

vars == <<file, ended>>

Init == file = <<>> /\ ended = FALSE

Deliver ==
    /\ ~ended /\ Len(file) < N
    /\ file' = Append(file, Len(file) + 1) /\ UNCHANGED ended

End ==
    /\ ~ended /\ ended' = TRUE /\ UNCHANGED file

\* The meter is reset, for another transfer or for none.
Forget == file' = <<>> /\ ended' = FALSE

Next == Deliver \/ End \/ Forget
Spec == Init /\ [][Next]_vars

=============================================================================
