----------------------------- MODULE MirrorSync -----------------------------
(***************************************************************************)
(* What one run of the mirror does: sync::run (src/src/backup/sync.rs)     *)
(* over the table backup_files and the device folder on Proton Drive, next *)
(* to the handlers that change the data directory and a user who deletes   *)
(* files in the Drive UI.                                                  *)
(*                                                                         *)
(* Runs of a server exclude each other (BackupLoop, OneRunAtATime), so     *)
(* there is one run at a time here.  The Drive is modelled from how        *)
(* sync.rs uses its client: nodes, each a file with a name and what it     *)
(* holds.                                                                  *)
(***************************************************************************)
EXTENDS Naturals, FiniteSets

CONSTANTS
  Media,        \* upload ids, random and so never issued twice
  Database,     \* the key "diary.db"
  Prune,        \* WORKSPACE_BACKUP_PRUNE
  MaxVersion,   \* bound: edits of documents
  MaxLosses,    \* bound: runs cut short, lookups and deletions that fail
  MaxDiscards   \* bound: files deleted in the Drive UI

ASSUME ConstantsAssumption ==
  /\ IsFiniteSet(Media) /\ Database \notin Media
  /\ Prune \in BOOLEAN
  /\ MaxVersion \in Nat /\ MaxLosses \in Nat /\ MaxDiscards \in Nat

Keys == Media \cup {Database}

VARIABLES
  version,    \* edits so far
  media,      \* the table media, each row with its file
  listed,     \* the ids that have had a row
  edition,    \* flips whenever the row of diary.db in backup_files is written
  tracked,    \* backup_files: key -> node and hash of what it was given
  drive,      \* the nodes on the Drive: node -> key and what it holds
  created,    \* how many nodes were ever created
  pc,         \* the statement the run executes next
  item,       \* the file the run is at, as a set of one, or none
  todo,       \* the rows of media the run has read and not come to yet
  orphans,    \* what it is about to prune
  finished,   \* whether the last run went to its end
  losses,
  discarded   \* the keys of the files deleted in the Drive UI

vars == <<version, media, listed, edition, tracked, drive, created,
          pc, item, todo, orphans, finished, losses, discarded>>
data == <<version, media, listed>>
run == <<pc, item, todo, orphans, finished>>

\* What VACUUM INTO copies.  backup_files is part of the database, and so is
\* its row about the copy before this one.
Snapshot == [version |-> version, media |-> media, edition |-> edition]
Snapshots == [version : 0..MaxVersion, media : SUBSET Media, edition : {0, 1}]

Hashes == Snapshots \cup Media

\* A client.get_node that finds the node tracked for k.
There(k) == k \in DOMAIN tracked /\ tracked[k].node \in DOMAIN drive

\* A slip: any record will do, as it does for the immutable uploads.
CurrentOnceTracked(k, hash) == k \in DOMAIN tracked

\* is_current: it goes by the table alone.
Current(k, hash) == k \in DOMAIN tracked /\ tracked[k].hash = hash

Init ==
  /\ version = 0 /\ media = {} /\ listed = {}
  /\ edition = 0
  /\ tracked = [k \in {} |-> 0]
  /\ drive = [n \in {} |-> 0]
  /\ created = 0
  /\ pc = "idle" /\ item = {} /\ todo = {} /\ orphans = {}
  /\ finished = FALSE
  /\ losses = 0 /\ discarded = {}

-----------------------------------------------------------------------------
(* The world around a run *)

Edit ==
  /\ version < MaxVersion
  /\ version' = version + 1
  /\ UNCHANGED <<media, listed, edition, tracked, drive, created, run, losses, discarded>>

Upload(m) ==
  /\ m \notin listed
  /\ media' = media \cup {m} /\ listed' = listed \cup {m}
  /\ UNCHANGED <<version, edition, tracked, drive, created, run, losses, discarded>>

Delete(m) ==
  /\ m \in media
  /\ media' = media \ {m}
  /\ UNCHANGED <<version, listed, edition, tracked, drive, created, run, losses, discarded>>

Without(f, S) == [x \in (DOMAIN f) \ S |-> f[x]]

\* The owner deletes a file in the Drive UI.
Discard(n) ==
  /\ n \in DOMAIN drive
  /\ Cardinality(discarded) < MaxDiscards
  /\ drive' = Without(drive, {n})
  /\ discarded' = discarded \cup {drive[n].key}
  /\ UNCHANGED <<data, edition, tracked, created, run, losses>>

-----------------------------------------------------------------------------
(* A run *)

Begin ==
  /\ pc = "idle"
  /\ pc' = "database" /\ finished' = FALSE
  /\ UNCHANGED <<data, edition, tracked, drive, created, item, todo, orphans,
                 losses, discarded>>

\* Mirror::database: the snapshot, its hash, and whether it is up there.
TakeSnapshot ==
  /\ pc = "database"
  /\ pc' = IF Current(Database, Snapshot) THEN "media" ELSE "upload"
  /\ item' = IF Current(Database, Snapshot) THEN {}
             ELSE {[key |-> Database, hash |-> Snapshot, node |-> 0]}
  /\ UNCHANGED <<data, edition, tracked, drive, created, todo, orphans, finished,
                 losses, discarded>>

\* Mirror::upload, up to the answer of the Drive.  A lookup that fails is read
\* as a node that is gone.
NewRevision ==
  /\ pc = "upload"
  /\ \E i \in item :
       /\ There(i.key)
       /\ drive' = [drive EXCEPT ![tracked[i.key].node].holds = i.hash]
       /\ item' = {[i EXCEPT !.node = tracked[i.key].node]}
  /\ pc' = "record"
  /\ UNCHANGED <<data, edition, tracked, created, todo, orphans, finished,
                 losses, discarded>>

NewFile ==
  /\ pc = "upload"
  /\ created' = created + 1
  /\ \E i \in item :
       /\ losses' = IF There(i.key) THEN losses + 1 ELSE losses
       /\ drive' = [n \in DOMAIN drive \cup {created'} |->
                      IF n = created' THEN [key |-> i.key, holds |-> i.hash]
                      ELSE drive[n]]
       /\ item' = {[i EXCEPT !.node = created']}
  /\ losses' <= MaxLosses
  /\ pc' = "record"
  /\ UNCHANGED <<data, edition, tracked, todo, orphans, finished, discarded>>

\* A slip: a row that is there already is left as it is.
RecordFirstOnly ==
  /\ pc = "record"
  /\ \E i \in item :
       /\ tracked' = [k \in DOMAIN tracked \cup {i.key} |->
                        IF k \notin DOMAIN tracked
                        THEN [node |-> i.node, hash |-> i.hash] ELSE tracked[k]]
       /\ edition' = IF i.key = Database THEN 1 - edition ELSE edition
       /\ pc' = IF i.key = Database THEN "media" ELSE "files"
  /\ item' = {}
  /\ UNCHANGED <<data, drive, created, todo, orphans, finished, losses, discarded>>

\* Mirror::record.
Record ==
  /\ pc = "record"
  /\ \E i \in item :
       /\ tracked' = [k \in DOMAIN tracked \cup {i.key} |->
                        IF k = i.key THEN [node |-> i.node, hash |-> i.hash]
                        ELSE tracked[k]]
       /\ edition' = IF i.key = Database THEN 1 - edition ELSE edition
       /\ pc' = IF i.key = Database THEN "media" ELSE "files"
  /\ item' = {}
  /\ UNCHANGED <<data, drive, created, todo, orphans, finished, losses, discarded>>

\* Mirror::media: the rows, read once.
ListMedia ==
  /\ pc = "media"
  /\ todo' = media
  /\ pc' = "files"
  /\ UNCHANGED <<data, edition, tracked, drive, created, item, orphans, finished,
                 losses, discarded>>

\* A slip: the record before the upload.
RecordAhead(m) ==
  /\ pc = "files" /\ m \in todo
  /\ m \notin DOMAIN tracked
  /\ todo' = todo \ {m}
  /\ tracked' = [k \in DOMAIN tracked \cup {m} |->
                   IF k = m THEN [node |-> created + 1, hash |-> m] ELSE tracked[k]]
  /\ pc' = "upload" /\ item' = {[key |-> m, hash |-> m, node |-> 0]}
  /\ UNCHANGED <<data, edition, drive, created, orphans, finished, losses, discarded>>

UploadMedia(m) ==
  /\ pc = "files" /\ m \in todo
  /\ m \notin DOMAIN tracked
  /\ todo' = todo \ {m}
  /\ pc' = "upload" /\ item' = {[key |-> m, hash |-> m, node |-> 0]}
  /\ UNCHANGED <<data, edition, tracked, drive, created, orphans, finished,
                 losses, discarded>>

\* A slip: a file that cannot be read or sent is passed over.
SkipFailing(m) ==
  /\ pc = "files" /\ m \in todo
  /\ todo' = todo \ {m}
  /\ losses' = IF m \in media \ DOMAIN tracked THEN losses + 1 ELSE losses
  /\ losses' <= MaxLosses
  /\ UNCHANGED <<data, edition, tracked, drive, created, pc, item, orphans,
                 finished, discarded>>

\* Already recorded, or deleted since the rows were read.  Of a row deleted
\* just now the file may still be there, and then it is uploaded.
SkipMedia(m) ==
  /\ pc = "files" /\ m \in todo
  /\ m \in DOMAIN tracked \/ m \notin media
  /\ todo' = todo \ {m}
  /\ UNCHANGED <<data, edition, tracked, drive, created, pc, item, orphans,
                 finished, losses, discarded>>

MediaDone ==
  /\ pc = "files" /\ todo = {}
  /\ pc' = IF Prune THEN "prune" ELSE "idle"
  /\ finished' = ~Prune
  /\ UNCHANGED <<data, edition, tracked, drive, created, item, todo, orphans,
                 losses, discarded>>

\* A slip: whatever has no row in media, the copy of the database with it.
FindAllOrphans ==
  /\ pc = "prune"
  /\ orphans' = {k \in DOMAIN tracked : k \notin media}
  /\ pc' = IF orphans' = {} THEN "idle" ELSE "trash"
  /\ finished' = (orphans' = {})
  /\ UNCHANGED <<data, edition, tracked, drive, created, item, todo, losses, discarded>>

\* Mirror::prune: what is recorded and has no row any more.
FindOrphans ==
  /\ pc = "prune"
  /\ orphans' = {m \in Media \cap DOMAIN tracked : m \notin media}
  /\ pc' = IF orphans' = {} THEN "idle" ELSE "trash"
  /\ finished' = (orphans' = {})
  /\ UNCHANGED <<data, edition, tracked, drive, created, item, todo, losses, discarded>>

\* The Drive may refuse some of them, which is logged and no more.
Trash ==
  /\ pc = "trash"
  /\ \E refused \in SUBSET orphans :
       /\ losses' = losses + Cardinality(refused)
       /\ drive' = Without(drive, {tracked[m].node : m \in orphans \ refused})
  /\ losses' <= MaxLosses
  /\ pc' = "forget"
  /\ UNCHANGED <<data, edition, tracked, created, item, todo, orphans, finished, discarded>>

Forget(m) ==
  /\ pc = "forget" /\ m \in orphans
  /\ tracked' = Without(tracked, {m})
  /\ orphans' = orphans \ {m}
  /\ pc' = IF orphans' = {} THEN "idle" ELSE "forget"
  /\ finished' = (orphans' = {})
  /\ UNCHANGED <<data, edition, drive, created, item, todo, losses, discarded>>

\* An error on the way, the server stops, or the request is dropped.
Break ==
  /\ pc # "idle"
  /\ losses < MaxLosses
  /\ losses' = losses + 1
  /\ pc' = "idle" /\ item' = {} /\ todo' = {} /\ orphans' = {}
  /\ UNCHANGED <<data, edition, tracked, drive, created, finished, discarded>>

Proceed ==
  \/ TakeSnapshot \/ NewRevision \/ NewFile \/ Record
  \/ ListMedia \/ MediaDone \/ FindOrphans \/ Trash
  \/ \E m \in Media : UploadMedia(m) \/ SkipMedia(m) \/ Forget(m)

Next ==
  \/ Edit
  \/ \E m \in Media : Upload(m) \/ Delete(m)
  \/ \E n \in DOMAIN drive : Discard(n)
  \/ Begin \/ Proceed \/ Break

Spec == Init /\ [][Next]_vars

\* The timer starts a run again and again (BackupLoop), and a run goes on.
FairSpec == Spec /\ WF_vars(Begin) /\ WF_vars(Proceed)

-----------------------------------------------------------------------------
(* Properties *)

Items == [key : Keys, hash : Hashes, node : Nat]

TypeOK ==
  /\ version \in 0..MaxVersion
  /\ media \subseteq listed /\ listed \subseteq Media
  /\ edition \in {0, 1}
  /\ DOMAIN tracked \subseteq Keys
  /\ tracked \in [DOMAIN tracked -> [node : 1..created, hash : Hashes]]
  /\ DOMAIN drive \subseteq 1..created
  /\ drive \in [DOMAIN drive -> [key : Keys, holds : Hashes]]
  /\ created \in Nat
  /\ pc \in {"idle", "database", "upload", "record", "media", "files",
             "prune", "trash", "forget"}
  /\ item \subseteq Items
  /\ todo \subseteq listed
  /\ orphans \subseteq Media \cap DOMAIN tracked
  /\ finished \in BOOLEAN
  /\ losses \in 0..MaxLosses
  /\ discarded \subseteq Keys

(***************************************************************************)
(* What the table says is up there is up there: media() skips a file on    *)
(* the word of its record alone.  A record is never ahead of its upload,   *)
(* and prune never takes a file away from a record that counts, wherever   *)
(* runs are cut short.  Only a file deleted in the Drive UI is missing.    *)
(***************************************************************************)
RecordsTrue ==
  \A k \in DOMAIN tracked :
     k \in media \cup {Database} =>
        \/ There(k) /\ drive[tracked[k].node].key = k
        \/ k \in discarded

Copies(k) == {n \in DOMAIN drive : drive[n].key = k}

(***************************************************************************)
(* After a run that went to its end, the copy can be restored: every row   *)
(* of the database up there that has not been deleted since has its file   *)
(* up there, although the snapshot is taken before the files are listed.   *)
(***************************************************************************)
RestoreComplete ==
  finished =>
     \A n \in Copies(Database) :
        n = tracked[Database].node =>
           \A m \in (drive[n].holds.media \cap media) \ discarded : Copies(m) # {}

(***************************************************************************)
(* One copy of a file, and one more for each run cut short, lookup or      *)
(* deletion that failed: the revisions of a file stay in one node.         *)
(***************************************************************************)
CopiesExplained == \A k \in Keys : Cardinality(Copies(k)) <= 1 + losses

(***************************************************************************)
(* Pruning never touches a file that the workspace still has.              *)
(***************************************************************************)
PruneSpares ==
  [][Trash => \A n \in DOMAIN drive \ DOMAIN drive' : drive[n].key \notin media]_vars

\* The newest edit the Drive holds.
Reaches(v) == \E n \in Copies(Database) : drive[n].holds.version >= v

(***************************************************************************)
(* The Drive never goes back to an older state: an edit that reached it is *)
(* overwritten by a later snapshot only, in whatever node the lookup finds *)
(* or makes, and no deletion but the owner's takes it away.                *)
(***************************************************************************)
CopyNeverOlder ==
  [][\/ \E n \in DOMAIN drive : Discard(n)
     \/ \A v \in 0..MaxVersion : Reaches(v) => Reaches(v)']_vars

(***************************************************************************)
(* Everything gets there in the end, once runs stop failing: every edit,   *)
(* and every file that stays and was not deleted in the Drive UI.          *)
(***************************************************************************)
CopyCatchesUp ==
  /\ \A v \in 1..MaxVersion : version >= v ~> Reaches(v)
  /\ \A m \in Media : m \in media ~> m \notin media \/ m \in discarded \/ Copies(m) # {}

(***************************************************************************)
(* "A tracked node that has been deleted in the Drive UI is not an error:  *)
(* the mirror notices the node is gone and re-creates the file"            *)
(* (backup/sync.rs:236).  True of diary.db and false of an upload: its     *)
(* record alone makes SkipMedia pass it by.  No run checks it.             *)
(***************************************************************************)
DeletedComesBack ==
  \A k \in Keys : k \in discarded ~> k \in Media \ media \/ Copies(k) # {}

=============================================================================
