------------------------------ MODULE MCOutbox ------------------------------
(* Instances of Outbox for TLC. *)
EXTENDS Outbox

CONSTANTS k1, k2, k3
=============================================================================
