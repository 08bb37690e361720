---------------------------- MODULE MCMirrorSync ----------------------------
(* Instances of MirrorSync for TLC. *)
EXTENDS MirrorSync

CONSTANTS m1, m2
=============================================================================
