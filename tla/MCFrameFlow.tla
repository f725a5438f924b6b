----------------------------- MODULE MCFrameFlow -----------------------------
(***************************************************************************)
(* Instances of FrameFlow for TLC.  The flags start set, so there is a     *)
(* first frame for every operation to fall into and a later one to show    *)
(* it; the bounds are guards of the specification itself.                  *)
(***************************************************************************)
EXTENDS FrameFlow
=============================================================================
