-------------------------- MODULE MCLoginThrottle --------------------------
(* Instances of LoginThrottle for TLC. *)
EXTENDS LoginThrottle

CONSTANTS l1, l2
=============================================================================
