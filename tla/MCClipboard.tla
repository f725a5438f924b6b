---------------------------- MODULE MCClipboard ----------------------------
(***************************************************************************)
(* Instances of Clipboard for TLC.  Two clients, so that requests wait     *)
(* together and a former owner can answer late; two connections, so that   *)
(* the activity can be restarted while the server keeps its cache.         *)
(***************************************************************************)
EXTENDS Clipboard, TLC

\* The clients differ in their names only.
ClientSymmetry == Permutations(Clients)
=============================================================================
