--------------------------- MODULE MirrorContract ---------------------------
(***************************************************************************)
(* What the backup promises, whatever its loop, its lock and its timers    *)
(* do: the mirror is a state the data directory was in, it never goes back *)
(* to an older one, and no change stays out of it for ever.                *)
(* src/src/backup/mod.rs:1-14, src/README.md:178-182.                      *)
(***************************************************************************)
EXTENDS Naturals

VARIABLES
  version,   \* how many times the data directory has changed
  mirrored   \* the version the mirror holds

contract == <<version, mirrored>>

Init == version = 0 /\ mirrored = 0

Change == version' = version + 1 /\ UNCHANGED mirrored

CatchUp == mirrored' \in mirrored..version /\ UNCHANGED version

Next == Change \/ CatchUp

Spec == Init /\ [][Next]_contract

(***************************************************************************)
(* Every version of the data directory, or a later one, reaches the mirror.*)
(***************************************************************************)
Behind(v) == version >= v
Reached(v) == mirrored >= v

=============================================================================
