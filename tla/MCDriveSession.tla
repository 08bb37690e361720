--------------------------- MODULE MCDriveSession ---------------------------
(* Instances of DriveSession for TLC.                                        *)
EXTENDS DriveSession
=============================================================================
