------------------------------ MODULE MCRenderer ------------------------------
(***************************************************************************)
(* Instances of Renderer for TLC.                                          *)
(***************************************************************************)
EXTENDS Renderer, TLC

\* Shared states and windows are interchangeable (safety runs only).
RendererSymmetry == Permutations(States) \cup Permutations(Windows)
=============================================================================
