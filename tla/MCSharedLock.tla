----------------------------- MODULE MCSharedLock -----------------------------
(***************************************************************************)
(* Instances of SharedLock for TLC.  The bounds are on socket pairs and on *)
(* access failures only; they are guards of the specification itself.      *)
(***************************************************************************)
EXTENDS SharedLock

=============================================================================
