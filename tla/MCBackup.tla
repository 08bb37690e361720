------------------------------ MODULE MCBackup ------------------------------
(* Instances of BackupLoop for TLC. *)
EXTENDS BackupLoop

CONSTANT r1
=============================================================================
