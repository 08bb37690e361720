-------------------------- MODULE MirrorSyncProofs --------------------------
(***************************************************************************)
(* That the records of the mirror are true, that pruning spares what the   *)
(* workspace still has, that a finished copy can be restored and that      *)
(* copies are not multiplied, for every set of uploads and any number of   *)
(* losses.                                                                 *)
(***************************************************************************)
EXTENDS MirrorSync, TLAPS, FiniteSetTheorems

\* A recorded node, while it exists, is a copy of the file it is recorded for.
RecordedNodes ==
  \A k \in DOMAIN tracked :
     tracked[k].node \in DOMAIN drive => drive[tracked[k].node].key = k

RecordsKept ==
  \A k \in DOMAIN tracked :
     k \in media \cup {Database} => tracked[k].node \in DOMAIN drive \/ k \in discarded

\* The file in hand is one the workspace has had; once sent it has a node,
\* which only the owner may have deleted again.
InHand ==
  \A i \in item :
     /\ i.key \in listed \cup {Database}
     /\ pc = "record" =>
          /\ i.node \in 1..created
          /\ i.node \in DOMAIN drive => drive[i.node].key = i.key
          /\ i.node \in DOMAIN drive \/ i.key \in discarded

\* No row comes back, so an orphan stays one.
OrphansStay ==
  /\ DOMAIN tracked \subseteq listed \cup {Database}
  /\ orphans \cap media = {}

IInv == TypeOK /\ RecordedNodes /\ RecordsKept /\ InHand /\ OrphansStay

-----------------------------------------------------------------------------
LEMMA InitTrue == Init => IInv
<1> SUFFICES ASSUME Init PROVE IInv
  OBVIOUS
<1>1. DOMAIN tracked = {} /\ DOMAIN drive = {}
  BY DEF Init
<1>2. tracked = [k \in DOMAIN tracked |-> tracked[k]] /\ drive = [n \in DOMAIN drive |-> drive[n]]
  BY DEF Init
<1>3. /\ tracked \in [DOMAIN tracked -> [node : 1..created, hash : Hashes]]
      /\ drive \in [DOMAIN drive -> [key : Keys, holds : Hashes]]
  BY <1>1, <1>2
<1>4. TypeOK
  <2>1. /\ version \in 0..MaxVersion /\ losses \in 0..MaxLosses
        /\ edition \in {0, 1} /\ created \in Nat
    BY ConstantsAssumption DEF ConstantsAssumption, Init
  <2>2. /\ pc \in {"idle", "database", "upload", "record", "media", "files",
                   "prune", "trash", "forget"}
        /\ finished \in BOOLEAN
    BY DEF Init
  <2>3. /\ media \subseteq listed /\ listed \subseteq Media /\ item \subseteq Items
        /\ todo \subseteq listed /\ orphans \subseteq Media \cap DOMAIN tracked
        /\ discarded \subseteq Keys
    BY DEF Init
  <2> QED BY <1>1, <1>3, <2>1, <2>2, <2>3 DEF TypeOK
<1>5. RecordedNodes /\ RecordsKept
  BY <1>1 DEF RecordedNodes, RecordsKept
<1>6. InHand /\ OrphansStay
  <2>1. item = {} /\ orphans = {}
    BY DEF Init
  <2> QED BY <1>1, <2>1 DEF InHand, OrphansStay
<1> QED BY <1>4, <1>5, <1>6 DEF IInv

LEMMA SnapshotTyped == TypeOK => Snapshot \in Snapshots
  BY DEF TypeOK, Snapshot, Snapshots

\* Everything but the rows of media and the version is left alone.
LEMMA EditKeeps == IInv /\ Edit => IInv'
  BY ConstantsAssumption
  DEF ConstantsAssumption, IInv, TypeOK, RecordedNodes, RecordsKept, InHand,
      OrphansStay, Edit, run

LEMMA UploadKeeps == ASSUME NEW m \in Media, IInv, Upload(m) PROVE IInv'
  BY ConstantsAssumption
  DEF ConstantsAssumption, IInv, TypeOK, RecordedNodes, RecordsKept, InHand,
      OrphansStay, Upload, run

LEMMA DeleteKeeps == ASSUME NEW m \in Media, IInv, Delete(m) PROVE IInv'
  BY DEF IInv, TypeOK, RecordedNodes, RecordsKept, InHand, OrphansStay, Delete, run

\* Deleting a node excuses exactly the key it was a copy of.
LEMMA DiscardKeeps == ASSUME NEW n \in DOMAIN drive, IInv, Discard(n) PROVE IInv'
<1> USE DEF IInv, Discard, Without, data, run
<1>1. DOMAIN drive' = (DOMAIN drive) \ {n}
  OBVIOUS
<1>2. \A x \in DOMAIN drive' : drive'[x] = drive[x]
  OBVIOUS
<1>3. TypeOK'
  <2>1. drive[n].key \in Keys
    BY DEF TypeOK
  <2>2. drive' \in [DOMAIN drive' -> [key : Keys, holds : Hashes]]
    BY <1>1, <1>2 DEF TypeOK
  <2> QED BY <1>1, <2>1, <2>2 DEF TypeOK
<1>4. RecordedNodes'
  BY <1>1, <1>2 DEF RecordedNodes
<1>5. RecordsKept'
  BY <1>1, <1>2 DEF RecordsKept, RecordedNodes
<1>6. InHand'
  BY <1>1, <1>2 DEF InHand
<1>7. OrphansStay'
  BY DEF OrphansStay
<1> QED BY <1>3, <1>4, <1>5, <1>6, <1>7

LEMMA BeginKeeps == IInv /\ Begin => IInv'
  BY DEF IInv, TypeOK, RecordedNodes, RecordsKept, InHand, OrphansStay, Begin, data

LEMMA TakeSnapshotKeeps == IInv /\ TakeSnapshot => IInv'
<1> SUFFICES ASSUME IInv, TakeSnapshot PROVE IInv'
  OBVIOUS
<1> USE DEF IInv, TakeSnapshot, data
<1>1. item' \subseteq Items
  BY SnapshotTyped DEF Items, Hashes, Keys
<1>2. TypeOK'
  BY <1>1 DEF TypeOK
<1>3. InHand'
  BY DEF InHand
<1> QED BY <1>2, <1>3 DEF RecordedNodes, RecordsKept, OrphansStay

LEMMA NewRevisionKeeps == IInv /\ NewRevision => IInv'
<1> SUFFICES ASSUME IInv, NewRevision PROVE IInv'
  OBVIOUS
<1> USE DEF IInv, NewRevision, data
<1>1. PICK i \in item :
        /\ There(i.key)
        /\ drive' = [drive EXCEPT ![tracked[i.key].node].holds = i.hash]
        /\ item' = {[i EXCEPT !.node = tracked[i.key].node]}
  OBVIOUS
<1>2. /\ i \in Items
      /\ i.key \in DOMAIN tracked
      /\ tracked[i.key].node \in DOMAIN drive
      /\ tracked[i.key].node \in 1..created
  BY <1>1 DEF TypeOK, There
<1>3. DOMAIN drive' = DOMAIN drive
  BY <1>1
<1>4. \A x \in DOMAIN drive : drive'[x].key = drive[x].key /\ drive'[x].holds \in Hashes
  BY <1>1, <1>2 DEF TypeOK, Items
<1>5. \A x \in DOMAIN drive : drive'[x] \in [key : Keys, holds : Hashes]
  BY <1>1, <1>2 DEF TypeOK, Items
<1>6. \E j \in item' :
         /\ item' = {j}
         /\ j \in Items /\ j.key = i.key /\ j.node = tracked[i.key].node
  BY <1>1, <1>2 DEF Items
<1>7. TypeOK'
  <2>1. drive' \in [DOMAIN drive' -> [key : Keys, holds : Hashes]]
    BY <1>1, <1>3, <1>5
  <2> QED BY <1>2, <1>3, <1>6, <2>1 DEF TypeOK
<1>8. RecordedNodes'
  BY <1>3, <1>4 DEF RecordedNodes
<1>9. InHand'
  BY <1>2, <1>3, <1>4, <1>6 DEF InHand, RecordedNodes
<1> QED BY <1>3, <1>7, <1>8, <1>9 DEF RecordsKept, OrphansStay

\* A node that is made now is the node of no record yet.
LEMMA NewFileKeeps == IInv /\ NewFile => IInv'
<1> SUFFICES ASSUME IInv, NewFile PROVE IInv'
  OBVIOUS
<1> USE DEF IInv, NewFile, data
<1>1. PICK i \in item :
        /\ losses' = IF There(i.key) THEN losses + 1 ELSE losses
        /\ drive' = [n \in DOMAIN drive \cup {created'} |->
                       IF n = created' THEN [key |-> i.key, holds |-> i.hash]
                       ELSE drive[n]]
        /\ item' = {[i EXCEPT !.node = created']}
  OBVIOUS
<1>2. i \in Items /\ created \in Nat /\ created' = created + 1 /\ created' \notin DOMAIN drive
  BY <1>1 DEF TypeOK
<1>3. DOMAIN drive' = DOMAIN drive \cup {created'}
  BY <1>1
<1>4. /\ \A x \in DOMAIN drive : drive'[x] = drive[x]
      /\ drive'[created'] = [key |-> i.key, holds |-> i.hash]
  BY <1>1, <1>2
<1>5. \E j \in item' :
         item' = {j} /\ j \in Items /\ j.key = i.key /\ j.node = created'
  BY <1>1, <1>2 DEF Items
<1>6. \A k \in DOMAIN tracked : tracked[k].node \in 1..created /\ tracked[k].node # created'
  BY <1>2 DEF TypeOK
<1>7. TypeOK'
  <2>1. drive' \in [DOMAIN drive' -> [key : Keys, holds : Hashes]]
    BY <1>1, <1>2, <1>3, <1>4 DEF TypeOK, Items
  <2>2. tracked' \in [DOMAIN tracked' -> [node : 1..created', hash : Hashes]]
    BY <1>2 DEF TypeOK
  <2>3. losses' \in 0..MaxLosses
    BY <1>1, ConstantsAssumption DEF TypeOK, ConstantsAssumption
  <2>4. DOMAIN drive' \subseteq 1..created' /\ created' \in Nat
    BY <1>2, <1>3 DEF TypeOK
  <2> QED BY <1>5, <2>1, <2>2, <2>3, <2>4 DEF TypeOK
<1>8. RecordedNodes'
  BY <1>3, <1>4, <1>6 DEF RecordedNodes
<1>9. RecordsKept'
  BY <1>3 DEF RecordsKept
<1>10. InHand'
  BY <1>2, <1>3, <1>4, <1>5 DEF InHand
<1> QED BY <1>7, <1>8, <1>9, <1>10 DEF OrphansStay

LEMMA RecordKeeps == IInv /\ Record => IInv'
<1> SUFFICES ASSUME IInv, Record PROVE IInv'
  OBVIOUS
<1> USE DEF IInv, Record, data
<1>1. PICK i \in item :
        /\ tracked' = [k \in DOMAIN tracked \cup {i.key} |->
                         IF k = i.key THEN [node |-> i.node, hash |-> i.hash]
                         ELSE tracked[k]]
        /\ edition' = IF i.key = Database THEN 1 - edition ELSE edition
        /\ pc' = IF i.key = Database THEN "media" ELSE "files"
  OBVIOUS
<1>2. DOMAIN tracked' = DOMAIN tracked \cup {i.key}
  BY <1>1
<1>3. /\ tracked'[i.key] = [node |-> i.node, hash |-> i.hash]
      /\ \A k \in DOMAIN tracked : k # i.key => tracked'[k] = tracked[k]
  BY <1>1
<1>4. /\ i \in Items /\ i.node \in 1..created /\ i.key \in listed \cup {Database}
      /\ i.node \in DOMAIN drive => drive[i.node].key = i.key
      /\ i.node \in DOMAIN drive \/ i.key \in discarded
  BY <1>1 DEF TypeOK, InHand
<1>5. TypeOK'
  <2>1. tracked' \in [DOMAIN tracked' -> [node : 1..created, hash : Hashes]]
    BY <1>1, <1>2, <1>3, <1>4 DEF TypeOK, Items
  <2>2. edition' \in {0, 1}
    BY <1>1 DEF TypeOK
  <2>3. DOMAIN tracked' \subseteq Keys
    BY <1>2, <1>4 DEF TypeOK, Items
  <2> QED BY <1>1, <1>2, <2>1, <2>2, <2>3 DEF TypeOK
<1>6. RecordedNodes'
  BY <1>2, <1>3, <1>4 DEF RecordedNodes
<1>7. RecordsKept'
  BY <1>2, <1>3, <1>4 DEF RecordsKept
<1>8. InHand'
  BY DEF InHand
<1> QED BY <1>2, <1>4, <1>5, <1>6, <1>7, <1>8 DEF OrphansStay

LEMMA ListMediaKeeps == IInv /\ ListMedia => IInv'
  BY DEF IInv, TypeOK, RecordedNodes, RecordsKept, InHand, OrphansStay, ListMedia, data

LEMMA UploadMediaKeeps == ASSUME NEW m \in Media, IInv, UploadMedia(m) PROVE IInv'
<1> USE DEF IInv, UploadMedia, data
<1>1. item' \subseteq Items
  BY DEF Items, Keys, Hashes
<1>2. TypeOK'
  BY <1>1 DEF TypeOK
<1>3. InHand'
  BY DEF InHand, TypeOK
<1> QED BY <1>2, <1>3 DEF RecordedNodes, RecordsKept, OrphansStay

LEMMA SkipMediaKeeps == ASSUME NEW m \in Media, IInv, SkipMedia(m) PROVE IInv'
  BY DEF IInv, TypeOK, RecordedNodes, RecordsKept, InHand, OrphansStay, SkipMedia, data

LEMMA MediaDoneKeeps == IInv /\ MediaDone => IInv'
  BY ConstantsAssumption
  DEF ConstantsAssumption, IInv, TypeOK, RecordedNodes, RecordsKept, InHand,
      OrphansStay, MediaDone, data

LEMMA FindOrphansKeeps == IInv /\ FindOrphans => IInv'
  BY DEF IInv, TypeOK, RecordedNodes, RecordsKept, InHand, OrphansStay, FindOrphans, data

\* The nodes pruned are nodes of files that have no row.
LEMMA TrashSpares ==
  ASSUME IInv, Trash
  PROVE  \A n \in DOMAIN drive \ DOMAIN drive' : drive[n].key \notin media \cup {Database}
<1>1. PICK refused \in SUBSET orphans :
        drive' = Without(drive, {tracked[m].node : m \in orphans \ refused})
  BY DEF Trash
<1>2. SUFFICES ASSUME NEW n \in DOMAIN drive \ DOMAIN drive'
               PROVE  drive[n].key \notin media \cup {Database}
  OBVIOUS
<1>3. PICK m \in orphans : n = tracked[m].node
  BY <1>1, <1>2 DEF Without
<1>4. m \in DOMAIN tracked /\ m \in Media /\ m \notin media
  BY <1>3 DEF IInv, TypeOK, OrphansStay
<1>5. drive[n].key = m
  BY <1>2, <1>3, <1>4 DEF IInv, RecordedNodes
<1> QED BY <1>4, <1>5, ConstantsAssumption DEF ConstantsAssumption

LEMMA TrashKeeps == IInv /\ Trash => IInv'
<1> SUFFICES ASSUME IInv, Trash PROVE IInv'
  OBVIOUS
<1>1. PICK refused \in SUBSET orphans :
        /\ losses' = losses + Cardinality(refused)
        /\ drive' = Without(drive, {tracked[m].node : m \in orphans \ refused})
  BY DEF Trash
<1>2. DOMAIN drive' \subseteq DOMAIN drive /\ \A x \in DOMAIN drive' : drive'[x] = drive[x]
  BY <1>1 DEF Without
<1>3. losses' \in 0..MaxLosses
  <2>1. IsFiniteSet(refused)
    BY <1>1, FS_Subset, ConstantsAssumption DEF ConstantsAssumption, IInv, TypeOK
  <2>2. Cardinality(refused) \in Nat
    BY <2>1, FS_CardinalityType
  <2> QED BY <1>1, <2>2, ConstantsAssumption
          DEF ConstantsAssumption, IInv, TypeOK, Trash
<1>4. TypeOK'
  <2>1. drive' \in [DOMAIN drive' -> [key : Keys, holds : Hashes]]
    BY <1>1, <1>2 DEF IInv, TypeOK, Without
  <2> QED BY <1>2, <1>3, <2>1 DEF IInv, TypeOK, Trash, data
<1>5. RecordedNodes'
  BY <1>2 DEF IInv, RecordedNodes, Trash
<1>6. RecordsKept'
  BY TrashSpares DEF IInv, RecordsKept, RecordedNodes, Trash, data
<1>7. InHand'
  BY DEF IInv, InHand, Trash, data
<1> QED BY <1>4, <1>5, <1>6, <1>7 DEF IInv, OrphansStay, Trash, data

LEMMA ForgetKeeps == ASSUME NEW m \in Media, IInv, Forget(m) PROVE IInv'
<1> USE DEF IInv, Forget, Without, data
<1>1. DOMAIN tracked' = (DOMAIN tracked) \ {m}
  OBVIOUS
<1>2. \A k \in DOMAIN tracked' : tracked'[k] = tracked[k]
  OBVIOUS
<1>3. TypeOK'
  <2>1. tracked' \in [DOMAIN tracked' -> [node : 1..created, hash : Hashes]]
    BY <1>1, <1>2 DEF TypeOK
  <2> QED BY <1>1, <2>1 DEF TypeOK
<1>4. RecordedNodes' /\ RecordsKept'
  BY <1>1, <1>2 DEF RecordedNodes, RecordsKept
<1>5. InHand'
  BY DEF InHand
<1>6. OrphansStay'
  BY <1>1 DEF OrphansStay
<1> QED BY <1>3, <1>4, <1>5, <1>6

LEMMA BreakKeeps == IInv /\ Break => IInv'
  BY ConstantsAssumption
  DEF ConstantsAssumption, IInv, TypeOK, RecordedNodes, RecordsKept, InHand,
      OrphansStay, Break, data

LEMMA NextKeeps == IInv /\ [Next]_vars => IInv'
<1> SUFFICES ASSUME IInv, [Next]_vars PROVE IInv'
  OBVIOUS
<1>1. CASE UNCHANGED vars
  BY <1>1 DEF vars, IInv, TypeOK, RecordedNodes, RecordsKept, InHand, OrphansStay
<1>2. CASE Edit \/ Begin \/ Break
  BY <1>2, EditKeeps, BeginKeeps, BreakKeeps
<1>3. CASE \E m \in Media : Upload(m) \/ Delete(m)
  BY <1>3, UploadKeeps, DeleteKeeps
<1>4. CASE \E n \in DOMAIN drive : Discard(n)
  BY <1>4, DiscardKeeps
<1>5. CASE Proceed
  <2>1. CASE \E m \in Media : UploadMedia(m) \/ SkipMedia(m) \/ Forget(m)
    BY <2>1, UploadMediaKeeps, SkipMediaKeeps, ForgetKeeps
  <2>2. CASE TakeSnapshot \/ NewRevision \/ NewFile \/ Record
    BY <2>2, TakeSnapshotKeeps, NewRevisionKeeps, NewFileKeeps, RecordKeeps
  <2>3. CASE ListMedia \/ MediaDone \/ FindOrphans \/ Trash
    BY <2>3, ListMediaKeeps, MediaDoneKeeps, FindOrphansKeeps, TrashKeeps
  <2> QED BY <1>5, <2>1, <2>2, <2>3 DEF Proceed
<1> QED BY <1>1, <1>2, <1>3, <1>4, <1>5 DEF Next

LEMMA Inductive == Spec => []IInv
<1>1. Init => IInv
  BY InitTrue
<1>2. IInv /\ [Next]_vars => IInv'
  BY NextKeeps
<1> QED BY <1>1, <1>2, PTL DEF Spec

-----------------------------------------------------------------------------
\* Every variable of the mirror keeps its type.
THEOREM TypeCorrect == Spec => []TypeOK
<1>1. IInv => TypeOK
  BY DEF IInv
<1> QED BY <1>1, Inductive, PTL

\* What backup_files says is up there is up there, wherever runs are cut
\* short, unless its owner deleted it in the Drive UI.
THEOREM RecordsAreTrue == Spec => []RecordsTrue
<1>1. IInv => RecordsTrue
  BY DEF IInv, RecordsTrue, RecordedNodes, RecordsKept, There
<1> QED BY <1>1, Inductive, PTL

\* Pruning removes no file the workspace still has.
THEOREM PruningSpares == Spec => PruneSpares
<1>1. IInv /\ [Next]_vars =>
        [Trash => \A n \in DOMAIN drive \ DOMAIN drive' : drive[n].key \notin media]_vars
  BY TrashSpares
<1> QED BY <1>1, Inductive, PTL DEF Spec, PruneSpares

-----------------------------------------------------------------------------
(***************************************************************************)
(* How far the run is: what it holds at which statement.                   *)
(***************************************************************************)
RowsRead ==
  \/ pc \in {"files", "prune", "trash", "forget"}
  \/ finished
  \/ \E i \in item : i.key \in Media

Staged ==
  /\ pc # "idle" => ~finished
  /\ pc \notin {"upload", "record"} => item = {}
  /\ \A i, j \in item : i = j
  /\ pc \in {"prune", "trash", "forget"} \/ finished => todo = {}
  /\ pc = "media" \/ RowsRead => Database \in DOMAIN tracked

\* A snapshot names only files that have been listed.
SnapshotsKnown ==
  /\ \A n \in Copies(Database) : drive[n].holds.media \subseteq listed
  /\ \A i \in item : i.key = Database => i.hash.media \subseteq listed

\* Of what the copy of the database names and the workspace still has, the run
\* that lists the files after the snapshot has sent or will send each one.
Covered ==
  RowsRead =>
    \A n \in Copies(Database) :
       n = tracked[Database].node =>
          \A m \in drive[n].holds.media \cap media :
             m \in DOMAIN tracked \cup todo \/ \E i \in item : i.key = m

\* The node a file is kept in: the one just written, or the one recorded.
Home(k) ==
  IF \E i \in item : pc = "record" /\ i.key = k
  THEN {i.node : i \in item}
  ELSE {tracked[j].node : j \in {k} \cap DOMAIN tracked}

\* Every other copy was left behind by a loss of its own.
StraysCounted ==
  /\ \A k \in Keys : Cardinality(Copies(k) \ Home(k)) <= losses
  /\ pc = "forget" => \A m \in orphans : Cardinality(Copies(m)) <= losses

RunInv == IInv /\ Staged /\ SnapshotsKnown /\ Covered

\* Nodes keep the file they were made for; the deletions only take nodes away.
LEMMA RevisionShape ==
  ASSUME IInv, Staged, NewRevision
  PROVE  \E i \in item, j \in item' :
           /\ item = {i} /\ item' = {j} /\ i \in Items
           /\ j.key = i.key /\ j.hash = i.hash /\ j.node = tracked[i.key].node
           /\ There(i.key)
           /\ DOMAIN drive' = DOMAIN drive
           /\ \A x \in DOMAIN drive :
                /\ drive'[x].key = drive[x].key
                /\ x # tracked[i.key].node => drive'[x] = drive[x]
           /\ drive'[tracked[i.key].node].holds = i.hash
<1>1. PICK i \in item :
        /\ There(i.key)
        /\ drive' = [drive EXCEPT ![tracked[i.key].node].holds = i.hash]
        /\ item' = {[i EXCEPT !.node = tracked[i.key].node]}
  BY DEF NewRevision
<1>2. item = {i} /\ i \in Items
  BY <1>1 DEF Staged, IInv, TypeOK
<1>3. drive \in [DOMAIN drive -> [key : Keys, holds : Hashes]]
  BY DEF IInv, TypeOK
<1>4. PICK j \in item' :
        item' = {j} /\ j.key = i.key /\ j.hash = i.hash /\ j.node = tracked[i.key].node
  BY <1>1, <1>2 DEF Items
<1>5. DOMAIN drive' = DOMAIN drive /\ tracked[i.key].node \in DOMAIN drive
  BY <1>1 DEF There
<1>6. \A x \in DOMAIN drive :
         /\ drive'[x].key = drive[x].key
         /\ x # tracked[i.key].node => drive'[x] = drive[x]
  BY <1>1, <1>3
<1>7. drive'[tracked[i.key].node].holds = i.hash
  BY <1>1, <1>3, <1>5
<1> QED BY <1>1, <1>2, <1>4, <1>5, <1>6, <1>7

LEMMA NewFileShape ==
  ASSUME IInv, Staged, NewFile
  PROVE  \E i \in item, j \in item' :
           /\ item = {i} /\ item' = {j} /\ i \in Items
           /\ j.key = i.key /\ j.hash = i.hash /\ j.node = created'
           /\ created' \notin DOMAIN drive
           /\ \A k \in DOMAIN tracked : tracked[k].node # created'
           /\ DOMAIN drive' = DOMAIN drive \cup {created'}
           /\ \A x \in DOMAIN drive : drive'[x] = drive[x]
           /\ drive'[created'].key = i.key /\ drive'[created'].holds = i.hash
           /\ losses' = IF There(i.key) THEN losses + 1 ELSE losses
<1>1. PICK i \in item :
        /\ losses' = IF There(i.key) THEN losses + 1 ELSE losses
        /\ drive' = [n \in DOMAIN drive \cup {created'} |->
                       IF n = created' THEN [key |-> i.key, holds |-> i.hash]
                       ELSE drive[n]]
        /\ item' = {[i EXCEPT !.node = created']}
  BY DEF NewFile
<1>2. item = {i} /\ i \in Items
  BY <1>1 DEF Staged, IInv, TypeOK
<1>3. /\ created \in Nat /\ created' = created + 1
      /\ DOMAIN drive \subseteq 1..created
      /\ \A k \in DOMAIN tracked : tracked[k].node \in 1..created
  BY DEF IInv, TypeOK, NewFile
<1>4. PICK j \in item' : item' = {j} /\ j.key = i.key /\ j.hash = i.hash /\ j.node = created'
  BY <1>1, <1>2 DEF Items
<1>5. created' \notin DOMAIN drive /\ \A k \in DOMAIN tracked : tracked[k].node # created'
  BY <1>3
<1>6. /\ DOMAIN drive' = DOMAIN drive \cup {created'}
      /\ \A x \in DOMAIN drive : drive'[x] = drive[x]
      /\ drive'[created'].key = i.key /\ drive'[created'].holds = i.hash
  BY <1>1, <1>5
<1> QED BY <1>1, <1>2, <1>4, <1>5, <1>6

LEMMA RecordShape ==
  ASSUME IInv, Staged, Record
  PROVE  \E i \in item :
           /\ item = {i} /\ item' = {} /\ i \in Items
           /\ DOMAIN tracked' = DOMAIN tracked \cup {i.key}
           /\ tracked'[i.key].node = i.node
           /\ \A k \in DOMAIN tracked : k # i.key => tracked'[k] = tracked[k]
           /\ pc' = IF i.key = Database THEN "media" ELSE "files"
<1>1. PICK i \in item :
        /\ tracked' = [k \in DOMAIN tracked \cup {i.key} |->
                         IF k = i.key THEN [node |-> i.node, hash |-> i.hash]
                         ELSE tracked[k]]
        /\ pc' = IF i.key = Database THEN "media" ELSE "files"
  BY DEF Record
<1>2. item = {i} /\ i \in Items /\ item' = {}
  BY <1>1 DEF Staged, IInv, TypeOK, Record
<1> QED BY <1>1, <1>2

\* Trash and Discard take nodes away.
LEMMA Shrinks ==
  ASSUME Trash \/ \E n \in DOMAIN drive : Discard(n)
  PROVE  DOMAIN drive' \subseteq DOMAIN drive /\ \A x \in DOMAIN drive' : drive'[x] = drive[x]
  BY DEF Trash, Discard, Without

LEMMA StagedStep == IInv /\ Staged /\ [Next]_vars => Staged'
<1> SUFFICES ASSUME IInv, Staged, [Next]_vars PROVE Staged'
  OBVIOUS
<1> USE ConstantsAssumption DEF ConstantsAssumption, Staged, RowsRead, data, run
<1>1. CASE UNCHANGED vars \/ Edit \/ Begin \/ Break \/ ListMedia \/ MediaDone \/ FindOrphans
  <2>1. CASE UNCHANGED vars \/ Edit
    BY <2>1 DEF vars, Edit
  <2>2. CASE Begin
    BY <2>2 DEF Begin
  <2>3. CASE Break
    BY <2>3 DEF Break
  <2>4. CASE ListMedia
    BY <2>4 DEF ListMedia
  <2>5. CASE MediaDone \/ FindOrphans
    BY <2>5 DEF MediaDone, FindOrphans
  <2> QED BY <1>1, <2>1, <2>2, <2>3, <2>4, <2>5
<1>2. CASE TakeSnapshot
  BY <1>2 DEF TakeSnapshot, Current
<1>3. CASE NewRevision
  <2>1. PICK i \in item, j \in item' : item = {i} /\ item' = {j} /\ j.key = i.key
    BY <1>3, RevisionShape
  <2> QED BY <1>3, <2>1 DEF NewRevision
<1>4. CASE NewFile
  <2>1. PICK i \in item, j \in item' : item = {i} /\ item' = {j} /\ j.key = i.key
    BY <1>4, NewFileShape
  <2> QED BY <1>4, <2>1 DEF NewFile
<1>5. CASE Record
  <2>1. PICK i \in item : /\ item = {i} /\ item' = {} /\ i \in Items
                          /\ DOMAIN tracked' = DOMAIN tracked \cup {i.key}
                          /\ pc' = IF i.key = Database THEN "media" ELSE "files"
    BY <1>5, RecordShape
  <2>2. i.key \in Media \/ i.key = Database
    BY <2>1 DEF Items, Keys
  <2> QED BY <1>5, <2>1, <2>2 DEF Record
<1>6. CASE Trash
  BY <1>6 DEF Trash
<1>7. ASSUME NEW m \in Media, Upload(m) \/ Delete(m) \/ SkipMedia(m) PROVE Staged'
  BY <1>7 DEF Upload, Delete, SkipMedia
<1>8. ASSUME NEW n \in DOMAIN drive, Discard(n) PROVE Staged'
  BY <1>8 DEF Discard
<1>9. ASSUME NEW m \in Media, UploadMedia(m) PROVE Staged'
  BY <1>9 DEF UploadMedia
<1>10. ASSUME NEW m \in Media, Forget(m) PROVE Staged'
  BY <1>10 DEF Forget, Without
<1> QED BY <1>1, <1>2, <1>3, <1>4, <1>5, <1>6, <1>7, <1>8, <1>9, <1>10 DEF Next, Proceed

LEMMA SnapshotsStep == IInv /\ Staged /\ SnapshotsKnown /\ [Next]_vars => SnapshotsKnown'
<1> SUFFICES ASSUME IInv, Staged, SnapshotsKnown, [Next]_vars PROVE SnapshotsKnown'
  OBVIOUS
<1> USE DEF SnapshotsKnown, Copies, data, run
<1>1. CASE \/ UNCHANGED vars \/ Edit \/ Begin \/ Break \/ ListMedia \/ MediaDone \/ FindOrphans
           \/ \E m \in Media : Upload(m) \/ Delete(m) \/ SkipMedia(m) \/ Forget(m)
  BY <1>1 DEF vars, Edit, Begin, Break, ListMedia, MediaDone, FindOrphans, Upload, Delete,
              SkipMedia, Forget
<1>2. CASE TakeSnapshot
  BY <1>2 DEF TakeSnapshot, Snapshot, IInv, TypeOK
<1>3. CASE NewRevision
  <2>1. PICK i \in item, j \in item' :
          /\ item' = {j} /\ j.key = i.key /\ j.hash = i.hash
          /\ There(i.key)
          /\ DOMAIN drive' = DOMAIN drive
          /\ \A x \in DOMAIN drive :
                /\ drive'[x].key = drive[x].key
                /\ x # tracked[i.key].node => drive'[x] = drive[x]
          /\ drive'[tracked[i.key].node].holds = i.hash
    BY <1>3, RevisionShape
  <2>2. drive[tracked[i.key].node].key = i.key
    BY <2>1 DEF There, IInv, RecordedNodes
  <2>3. listed' = listed
    BY <1>3 DEF NewRevision
  <2>4. ASSUME NEW n \in Copies(Database)' PROVE drive'[n].holds.media \subseteq listed
    <3>1. n \in Copies(Database)
      BY <2>1, <2>4
    <3>2. CASE n = tracked[i.key].node
      BY <2>1, <2>2, <3>1, <3>2
    <3>3. CASE n # tracked[i.key].node
      BY <2>1, <3>1, <3>3
    <3> QED BY <3>2, <3>3
  <2> QED BY <2>1, <2>3, <2>4
<1>4. CASE NewFile
  <2>1. PICK i \in item, j \in item' :
          /\ item' = {j} /\ j.key = i.key /\ j.hash = i.hash
          /\ DOMAIN drive' = DOMAIN drive \cup {created'}
          /\ \A x \in DOMAIN drive : drive'[x] = drive[x]
          /\ drive'[created'].key = i.key /\ drive'[created'].holds = i.hash
    BY <1>4, NewFileShape
  <2> QED BY <1>4, <2>1 DEF NewFile
<1>5. CASE Record
  BY <1>5 DEF Record
<1>6. CASE Trash \/ \E n \in DOMAIN drive : Discard(n)
  <2>1. UNCHANGED <<item, listed>>
    BY <1>6 DEF Trash, Discard
  <2> QED BY <1>6, <2>1, Shrinks
<1>7. ASSUME NEW m \in Media, UploadMedia(m) PROVE SnapshotsKnown'
  BY <1>7, ConstantsAssumption DEF UploadMedia, ConstantsAssumption
<1> QED BY <1>1, <1>2, <1>3, <1>4, <1>5, <1>6, <1>7 DEF Next, Proceed

LEMMA CoveredStep == RunInv /\ [Next]_vars => Covered'
<1> SUFFICES ASSUME RunInv, [Next]_vars, RowsRead',
                    NEW n \in Copies(Database)', n = tracked'[Database].node,
                    NEW m \in drive'[n].holds.media \cap media'
             PROVE  m \in DOMAIN tracked' \cup todo' \/ \E i \in item' : i.key = m
  BY DEF Covered
<1> DEFINE Held == m \in DOMAIN tracked \cup todo \/ \E i \in item : i.key = m
<1> USE DEF data, run
\* What the copy named before, and the run had listed, it had at hand.
<1>1. ASSUME RowsRead, n \in Copies(Database), n = tracked[Database].node,
             m \in drive[n].holds.media, m \in media
      PROVE  Held
  BY <1>1 DEF RunInv, Covered
<1>2. CASE UNCHANGED vars \/ Edit \/ MediaDone \/ FindOrphans \/ \E x \in Media : Delete(x)
  <2>1. UNCHANGED <<drive, tracked, item>> /\ media' \subseteq media /\ RowsRead
    BY <1>2 DEF vars, Edit, MediaDone, FindOrphans, Delete, RowsRead, RunInv, Staged
  <2>2. Held
    BY <1>1, <2>1 DEF Copies
  <2>3. todo' = todo
    BY <1>2 DEF vars, Edit, MediaDone, FindOrphans, Delete
  <2> QED BY <2>1, <2>2, <2>3
<1>3. CASE Begin \/ Break \/ TakeSnapshot
  BY <1>3, ConstantsAssumption
  DEF Begin, Break, TakeSnapshot, RowsRead, RunInv, Staged, ConstantsAssumption
<1>4. CASE ListMedia
  BY <1>4 DEF ListMedia
<1>5. ASSUME NEW x \in Media, Upload(x) PROVE m \in DOMAIN tracked' \cup todo' \/ \E i \in item' : i.key = m
  <2>1. UNCHANGED <<drive, tracked, item, todo>> /\ RowsRead
    BY <1>5 DEF Upload, RowsRead
  <2>2. m \in listed
    BY <2>1 DEF RunInv, SnapshotsKnown, Copies
  <2>3. m \in media
    BY <1>5, <2>2 DEF Upload
  <2> QED BY <1>1, <2>1, <2>3 DEF Copies
<1>6. ASSUME NEW x \in Media, UploadMedia(x) \/ SkipMedia(x)
      PROVE  m \in DOMAIN tracked' \cup todo' \/ \E i \in item' : i.key = m
  <2>1. /\ UNCHANGED <<drive, tracked, media>> /\ RowsRead /\ item = {}
        /\ todo' = todo \ {x}
    BY <1>6 DEF UploadMedia, SkipMedia, RowsRead, RunInv, Staged
  <2>2. m \in DOMAIN tracked \cup todo
    BY <1>1, <2>1 DEF Copies
  <2>3. CASE UploadMedia(x)
    BY <2>1, <2>2, <2>3 DEF UploadMedia
  <2>4. CASE SkipMedia(x)
    BY <2>1, <2>2, <2>4 DEF SkipMedia
  <2> QED BY <1>6, <2>3, <2>4
<1>7. CASE NewRevision
  <2>1. PICK i \in item, j \in item' :
          /\ item = {i} /\ item' = {j} /\ j.key = i.key
          /\ There(i.key)
          /\ DOMAIN drive' = DOMAIN drive
          /\ \A x \in DOMAIN drive :
                /\ drive'[x].key = drive[x].key
                /\ x # tracked[i.key].node => drive'[x] = drive[x]
    BY <1>7, RevisionShape DEF RunInv
  <2>2. UNCHANGED <<tracked, todo, media>> /\ pc = "upload" /\ pc' = "record" /\ finished' = finished
    BY <1>7 DEF NewRevision
  <2>3. i.key \in Media
    BY <2>1, <2>2 DEF RowsRead, RunInv, Staged
  <2>4. n \in Copies(Database)
    BY <2>1 DEF Copies
  <2>5. n # tracked[i.key].node
    BY <2>1, <2>3, <2>4, ConstantsAssumption
    DEF There, Copies, RunInv, IInv, RecordedNodes, ConstantsAssumption
  <2>6. drive'[n] = drive[n] /\ RowsRead
    BY <2>1, <2>3, <2>4, <2>5 DEF Copies, RowsRead
  <2> QED BY <1>1, <2>1, <2>2, <2>4, <2>6
<1>8. CASE NewFile
  <2>1. PICK i \in item, j \in item' :
          /\ item = {i} /\ item' = {j} /\ j.key = i.key
          /\ \A k \in DOMAIN tracked : tracked[k].node # created'
          /\ DOMAIN drive' = DOMAIN drive \cup {created'}
          /\ \A x \in DOMAIN drive : drive'[x] = drive[x]
    BY <1>8, NewFileShape DEF RunInv
  <2>2. UNCHANGED <<tracked, todo, media>> /\ pc = "upload" /\ pc' = "record" /\ finished' = finished
    BY <1>8 DEF NewFile
  <2>3. i.key \in Media
    BY <2>1, <2>2 DEF RowsRead, RunInv, Staged
  <2>4. RowsRead /\ Database \in DOMAIN tracked
    BY <2>1, <2>3 DEF RowsRead, RunInv, Staged
  <2>5. n # created'
    BY <2>1, <2>2, <2>4
  <2>6. n \in Copies(Database) /\ drive'[n] = drive[n]
    BY <2>1, <2>5 DEF Copies
  <2> QED BY <1>1, <2>1, <2>2, <2>4, <2>6
<1>9. CASE Record
  <2>1. PICK i \in item :
           /\ item = {i} /\ item' = {} /\ i \in Items
           /\ DOMAIN tracked' = DOMAIN tracked \cup {i.key}
           /\ \A k \in DOMAIN tracked : k # i.key => tracked'[k] = tracked[k]
           /\ pc' = IF i.key = Database THEN "media" ELSE "files"
    BY <1>9, RecordShape DEF RunInv
  <2>2. UNCHANGED <<drive, todo, media>> /\ pc = "record" /\ finished' = finished
    BY <1>9 DEF Record
  <2>3. i.key # Database
    BY <2>1, <2>2 DEF RowsRead, RunInv, Staged
  <2>4. RowsRead /\ Database \in DOMAIN tracked
    BY <2>1, <2>3 DEF RowsRead, RunInv, Staged, Items, Keys
  <2>5. Held
    BY <1>1, <2>1, <2>2, <2>3, <2>4 DEF Copies
  <2> QED BY <2>1, <2>2, <2>5
<1>10. CASE Trash \/ \E x \in DOMAIN drive : Discard(x)
  <2>1. UNCHANGED <<tracked, todo, media, item>> /\ RowsRead
    BY <1>10 DEF Trash, Discard, RowsRead
  <2>2. n \in Copies(Database) /\ drive'[n] = drive[n]
    BY <1>10, Shrinks DEF Copies
  <2> QED BY <1>1, <2>1, <2>2
<1>11. ASSUME NEW x \in Media, Forget(x) PROVE m \in DOMAIN tracked' \cup todo' \/ \E i \in item' : i.key = m
  <2>1. /\ UNCHANGED <<drive, todo, media, item>> /\ RowsRead
        /\ DOMAIN tracked' = (DOMAIN tracked) \ {x}
        /\ \A k \in DOMAIN tracked' : tracked'[k] = tracked[k]
        /\ x \notin media
    BY <1>11 DEF Forget, Without, RowsRead, RunInv, IInv, OrphansStay
  <2>2. tracked'[Database] = tracked[Database]
    BY <2>1, ConstantsAssumption DEF ConstantsAssumption, RunInv, Staged
  <2>3. Held
    BY <1>1, <2>1, <2>2 DEF Copies
  <2> QED BY <2>1, <2>3
<1> QED
  BY <1>2, <1>3, <1>4, <1>5, <1>6, <1>7, <1>8, <1>9, <1>10, <1>11 DEF Next, Proceed

LEMMA RunInductive == Spec => []RunInv
<1>1. Init => RunInv
  BY InitTrue DEF RunInv, Staged, SnapshotsKnown, Covered, RowsRead, Copies, Init
<1>2. RunInv /\ [Next]_vars => RunInv'
  BY NextKeeps, StagedStep, SnapshotsStep, CoveredStep DEF RunInv
<1> QED BY <1>1, <1>2, PTL DEF Spec

\* After a run that went to its end the copy can be restored, although the
\* snapshot of the database was taken before the files were listed.
THEOREM CopyCanBeRestored == Spec => []RestoreComplete
<1>1. RunInv => RestoreComplete
  <2> SUFFICES ASSUME RunInv, finished,
                      NEW n \in Copies(Database), n = tracked[Database].node,
                      NEW m \in (drive[n].holds.media \cap media) \ discarded
               PROVE  Copies(m) # {}
    BY DEF RestoreComplete
  <2>1. todo = {} /\ item = {}
    BY DEF RunInv, Staged
  <2>2. m \in DOMAIN tracked
    BY <2>1 DEF RunInv, Covered, RowsRead
  <2>3. tracked[m].node \in DOMAIN drive /\ drive[tracked[m].node].key = m
    BY <2>2 DEF RunInv, IInv, RecordsKept, RecordedNodes
  <2> QED BY <2>3 DEF Copies
<1> QED BY <1>1, RunInductive, PTL

-----------------------------------------------------------------------------
(***************************************************************************)
(* Copies.  The revisions of a file stay in the node recorded for it; each *)
(* node beside it was left there by a loss.                                *)
(***************************************************************************)
\* Cardinalities are those of finite sets of nodes.
LEMMA NodesFinite ==
  ASSUME TypeOK, NEW S \in SUBSET DOMAIN drive
  PROVE  IsFiniteSet(S) /\ Cardinality(S) \in Nat
<1>1. IsFiniteSet(1..created)
  <2>1. created \in Int /\ 1 \in Int
    BY DEF TypeOK
  <2> QED BY <2>1, FS_Interval
<1>2. IsFiniteSet(S)
  BY <1>1, FS_Subset DEF TypeOK
<1> QED BY <1>2, FS_CardinalityType

LEMMA FewerNodes ==
  ASSUME NEW T, IsFiniteSet(T), NEW S \in SUBSET T, NEW l \in Nat, Cardinality(T) <= l
  PROVE  Cardinality(S) <= l
<1>1. Cardinality(S) <= Cardinality(T) /\ Cardinality(T) \in Nat /\ Cardinality(S) \in Nat
  BY FS_Subset, FS_CardinalityType
<1> QED BY <1>1

LEMMA OneMoreNode ==
  ASSUME NEW T, IsFiniteSet(T), NEW x, NEW S \in SUBSET (T \cup {x}),
         NEW l \in Nat, Cardinality(T) <= l
  PROVE  Cardinality(S) <= l + 1
<1>1. IsFiniteSet(T \cup {x}) /\ Cardinality(T \cup {x}) <= Cardinality(T) + 1
  <2>1. Cardinality(T) \in Nat
    BY FS_CardinalityType
  <2>2. CASE x \in T
    <3>1. T \cup {x} = T
      BY <2>2
    <3> QED BY <2>1, <3>1
  <2>3. CASE x \notin T
    BY <2>1, <2>3, FS_AddElement
  <2> QED BY <2>2, <2>3
<1>2. Cardinality(T \cup {x}) <= l + 1
  BY <1>1, FS_CardinalityType
<1> QED BY <1>1, <1>2, FewerNodes

Strays(k) == Copies(k) \ Home(k)

\* Where the nodes stay and so does the home of the file, nothing is left behind.
LEMMA StraysStay ==
  ASSUME IInv, StraysCounted, NEW k \in Keys,
         Copies(k)' \subseteq Copies(k), Home(k)' = Home(k), losses' \in Nat, losses <= losses'
  PROVE  Cardinality(Strays(k)') <= losses'
<1>1. IsFiniteSet(Strays(k)) /\ Cardinality(Strays(k)) <= losses'
  BY NodesFinite DEF IInv, TypeOK, StraysCounted, Strays, Copies
<1> QED BY <1>1, FewerNodes DEF Strays

LEMMA StraysStep ==
  ASSUME IInv, Staged, StraysCounted, [Next]_vars, NEW k \in Keys
  PROVE  Cardinality(Copies(k)' \ Home(k)') <= losses'
<1> USE DEF data, run
<1>1. losses \in Nat /\ losses' \in Nat
  BY NextKeeps, ConstantsAssumption DEF IInv, TypeOK, ConstantsAssumption
<1>2. IsFiniteSet(Strays(k)) /\ Cardinality(Strays(k)) <= losses
  BY NodesFinite DEF IInv, StraysCounted, Strays, Copies
<1>3. CASE \/ UNCHANGED vars \/ Edit \/ Begin \/ TakeSnapshot \/ ListMedia \/ MediaDone \/ FindOrphans
           \/ \E m \in Media : Upload(m) \/ Delete(m) \/ UploadMedia(m) \/ SkipMedia(m)
  <2>1. UNCHANGED <<drive, tracked, losses>>
    BY <1>3 DEF vars, Edit, Begin, TakeSnapshot, ListMedia, MediaDone, FindOrphans, Upload,
                Delete, UploadMedia, SkipMedia
  <2>2. \/ UNCHANGED <<pc, item>>
        \/ pc # "record" /\ pc' # "record"
    BY <1>3 DEF vars, Edit, Begin, TakeSnapshot, ListMedia, MediaDone, FindOrphans, Upload,
                Delete, UploadMedia, SkipMedia
  <2>3. Home(k)' = Home(k) /\ Copies(k)' = Copies(k)
    BY <2>1, <2>2 DEF Home, Copies
  <2> QED BY <1>1, <2>1, <2>3, StraysStay DEF Strays
<1>4. CASE Trash \/ \E x \in DOMAIN drive : Discard(x)
  <2>1. UNCHANGED <<tracked, item>> /\ losses' >= losses
    <3>1. CASE Trash
      <4>1. PICK refused \in SUBSET orphans : losses' = losses + Cardinality(refused)
        BY <3>1 DEF Trash
      <4>2. Cardinality(refused) \in Nat
        BY FS_Subset, FS_CardinalityType, ConstantsAssumption
        DEF IInv, TypeOK, ConstantsAssumption
      <4> QED BY <1>1, <3>1, <4>1, <4>2 DEF Trash
    <3>2. CASE \E x \in DOMAIN drive : Discard(x)
      BY <1>1, <3>2 DEF Discard
    <3> QED BY <1>4, <3>1, <3>2
  <2>2. pc' = pc \/ (pc # "record" /\ pc' # "record")
    BY <1>4 DEF Trash, Discard
  <2>3. Home(k)' = Home(k) /\ Copies(k)' \subseteq Copies(k)
    BY <1>4, <2>1, <2>2, Shrinks DEF Home, Copies
  <2> QED BY <1>1, <2>1, <2>3, StraysStay DEF Strays
<1>5. CASE NewRevision
  <2>1. PICK i \in item, j \in item' :
           /\ item = {i} /\ item' = {j}
           /\ j.key = i.key /\ j.node = tracked[i.key].node
           /\ There(i.key)
           /\ DOMAIN drive' = DOMAIN drive
           /\ \A x \in DOMAIN drive : drive'[x].key = drive[x].key
    BY <1>5, RevisionShape
  <2>2. UNCHANGED <<tracked, losses>> /\ pc = "upload" /\ pc' = "record"
    BY <1>5 DEF NewRevision
  <2>3. Copies(k)' = Copies(k)
    BY <2>1 DEF Copies
  <2>4. Home(k)' = Home(k)
    BY <2>1, <2>2 DEF Home, There
  <2> QED BY <1>1, <2>2, <2>3, <2>4, StraysStay DEF Strays
<1>6. CASE NewFile
  <2>1. PICK i \in item, j \in item' :
           /\ item = {i} /\ item' = {j} /\ i \in Items
           /\ j.key = i.key /\ j.node = created'
           /\ DOMAIN drive' = DOMAIN drive \cup {created'}
           /\ \A x \in DOMAIN drive : drive'[x] = drive[x]
           /\ drive'[created'].key = i.key
           /\ losses' = IF There(i.key) THEN losses + 1 ELSE losses
    BY <1>6, NewFileShape
  <2>2. UNCHANGED tracked /\ pc = "upload" /\ pc' = "record"
    BY <1>6 DEF NewFile
  <2>3. CASE k # i.key
    <3>1. Copies(k)' \subseteq Copies(k) /\ Home(k)' = Home(k)
      BY <2>1, <2>2, <2>3 DEF Copies, Home
    <3> QED BY <1>1, <2>1, <3>1, StraysStay DEF Strays
  <2>4. CASE k = i.key
    <3>1. Copies(k)' \ Home(k)' \subseteq Copies(k)
      BY <2>1, <2>2, <2>4 DEF Copies, Home
    <3>2. CASE There(k)
      <4>1. Home(k) = {tracked[k].node}
        BY <2>2, <3>2 DEF Home, There
      <4>2. Copies(k)' \ Home(k)' \subseteq Strays(k) \cup {tracked[k].node}
        BY <3>1, <4>1 DEF Strays
      <4>3. Cardinality(Copies(k)' \ Home(k)') <= losses + 1
        BY <1>1, <1>2, <4>2, OneMoreNode
      <4> QED BY <2>1, <2>4, <3>2, <4>3
    <3>3. CASE ~There(k)
      <4>1. Home(k) \cap DOMAIN drive = {}
        BY <2>2, <3>3 DEF Home, There
      <4>2. Copies(k)' \ Home(k)' \subseteq Strays(k)
        BY <3>1, <4>1 DEF Strays, Copies
      <4>3. Cardinality(Copies(k)' \ Home(k)') <= losses
        BY <1>1, <1>2, <4>2, FewerNodes
      <4> QED BY <2>1, <2>4, <3>3, <4>3
    <3> QED BY <3>2, <3>3
  <2> QED BY <2>3, <2>4
<1>7. CASE Record
  <2>1. PICK i \in item :
           /\ item = {i} /\ item' = {}
           /\ DOMAIN tracked' = DOMAIN tracked \cup {i.key}
           /\ tracked'[i.key].node = i.node
           /\ \A x \in DOMAIN tracked : x # i.key => tracked'[x] = tracked[x]
    BY <1>7, RecordShape
  <2>2. UNCHANGED <<drive, losses>> /\ pc = "record"
    BY <1>7 DEF Record
  <2>3. Home(k)' = Home(k)
    BY <2>1, <2>2 DEF Home
  <2> QED BY <1>1, <2>2, <2>3, StraysStay DEF Strays, Copies
\* What was sent and not recorded is left behind, and the loss counts it.
<1>8. CASE Break
  <2>1. UNCHANGED <<drive, tracked>> /\ losses' = losses + 1 /\ item' = {}
    BY <1>8 DEF Break
  <2>2. \E x : Copies(k)' \ Home(k)' \subseteq Strays(k) \cup {x}
    <3>1. CASE \E i \in item : pc = "record" /\ i.key = k
      <4>1. PICK i \in item : item = {i} /\ Home(k) = {i.node}
        BY <3>1 DEF Home, Staged
      <4> QED BY <2>1, <4>1 DEF Strays, Copies
    <3>2. CASE ~(\E i \in item : pc = "record" /\ i.key = k)
      BY <2>1, <3>2 DEF Strays, Copies, Home
    <3> QED BY <3>1, <3>2
  <2> QED BY <1>1, <1>2, <2>1, <2>2, OneMoreNode
<1>9. ASSUME NEW m \in Media, Forget(m) PROVE Cardinality(Copies(k)' \ Home(k)') <= losses'
  <2>1. /\ UNCHANGED <<drive, losses, item>> /\ item = {} /\ pc = "forget" /\ m \in orphans
        /\ DOMAIN tracked' = (DOMAIN tracked) \ {m}
        /\ \A x \in DOMAIN tracked' : tracked'[x] = tracked[x]
    BY <1>9 DEF Forget, Without, Staged
  <2>2. CASE k = m
    <3>1. Cardinality(Copies(k)) <= losses /\ IsFiniteSet(Copies(k))
      BY <2>1, <2>2, NodesFinite DEF StraysCounted, IInv, Copies
    <3>2. Copies(k)' = Copies(k)
      BY <2>1 DEF Copies
    <3> QED BY <1>1, <2>1, <3>1, <3>2, FewerNodes
  <2>3. CASE k # m
    <3>1. Home(k)' = Home(k) /\ Copies(k)' = Copies(k)
      BY <2>1, <2>3 DEF Home, Copies
    <3> QED BY <1>1, <2>1, <3>1, StraysStay DEF Strays
  <2> QED BY <2>2, <2>3
<1> QED
  BY <1>3, <1>4, <1>5, <1>6, <1>7, <1>8, <1>9 DEF Next, Proceed

\* A file forgotten after the Drive refused to trash it is left behind too.
LEMMA ForgottenCounted ==
  ASSUME IInv, Staged, StraysCounted, [Next]_vars, pc' = "forget", NEW m \in orphans'
  PROVE  Cardinality(Copies(m)') <= losses'
<1> USE DEF data, run
<1>1. losses \in Nat /\ losses' \in Nat /\ item' = {}
  BY NextKeeps, StagedStep, ConstantsAssumption DEF IInv, TypeOK, ConstantsAssumption, Staged
<1>2. m \in orphans /\ m \in Keys /\ m \in DOMAIN tracked /\ m \in Media
  BY DEF Next, Proceed, vars, IInv, TypeOK, Keys, Edit, Upload, Delete, Discard, Begin, Break,
         TakeSnapshot, NewRevision, NewFile, Record, ListMedia, MediaDone, FindOrphans, Trash,
         UploadMedia, SkipMedia, Forget
<1>3. CASE pc = "forget"
  <2>1. IsFiniteSet(Copies(m)) /\ Cardinality(Copies(m)) <= losses
    BY <1>2, <1>3, NodesFinite DEF IInv, StraysCounted, Copies
  <2>2. Copies(m)' \subseteq Copies(m) /\ losses' = losses
    <3>1. CASE UNCHANGED vars \/ Edit \/ \E x \in Media : Upload(x) \/ Delete(x) \/ Forget(x)
      <4>1. UNCHANGED <<drive, losses>>
        BY <3>1 DEF vars, Edit, Upload, Delete, Forget
      <4> QED BY <4>1 DEF Copies
    <3>2. CASE \E x \in DOMAIN drive : Discard(x)
      <4>1. losses' = losses
        BY <3>2 DEF Discard
      <4>2. Copies(m)' \subseteq Copies(m)
        BY <3>2, Shrinks DEF Copies
      <4> QED BY <4>1, <4>2
    <3> QED BY <1>3, <3>1, <3>2
            DEF Next, Proceed, Begin, Break, TakeSnapshot, NewRevision, NewFile, Record,
                ListMedia, MediaDone, FindOrphans, Trash, UploadMedia, SkipMedia
  <2>3. Cardinality(Copies(m)) <= losses'
    BY <1>1, <2>1, <2>2, FS_CardinalityType
  <2> QED BY <1>1, <2>1, <2>2, <2>3, FewerNodes
<1>4. CASE pc # "forget"
  <2>1. Trash
    BY <1>4 DEF Next, Proceed, vars, Edit, Upload, Delete, Discard, Begin, Break,
         TakeSnapshot, NewRevision, NewFile, Record, ListMedia, MediaDone, FindOrphans,
         UploadMedia, SkipMedia, Forget
  <2>2. PICK refused \in SUBSET orphans :
          /\ losses' = losses + Cardinality(refused)
          /\ drive' = Without(drive, {tracked[x].node : x \in orphans \ refused})
    BY <2>1 DEF Trash
  <2>3. /\ IsFiniteSet(Strays(m)) /\ Cardinality(Strays(m)) <= losses
        /\ Home(m) = {tracked[m].node}
    BY <1>2, <2>1, NodesFinite DEF IInv, StraysCounted, Strays, Copies, Home, Trash
  <2>4. IsFiniteSet(refused) /\ Cardinality(refused) \in Nat
    BY FS_Subset, FS_CardinalityType, ConstantsAssumption DEF IInv, TypeOK, ConstantsAssumption
  <2>5. CASE m \in refused
    <3>1. Cardinality(refused) # 0
      BY <2>4, <2>5, FS_EmptySet
    <3>2. Copies(m)' \subseteq Strays(m) \cup {tracked[m].node}
      BY <2>1, <2>3, Shrinks DEF Strays, Copies
    <3>3. Cardinality(Copies(m)') <= losses + 1
      BY <1>1, <2>3, <3>2, OneMoreNode
    <3>4. Cardinality(Copies(m)') \in Nat
      <4>1. IsFiniteSet(Copies(m)')
        <5>1. IsFiniteSet(Strays(m) \cup {tracked[m].node})
          BY <2>3, FS_AddElement
        <5> QED BY <3>2, <5>1, FS_Subset
      <4> QED BY <4>1, FS_CardinalityType
    <3> QED BY <1>1, <2>2, <2>4, <3>1, <3>3, <3>4
  <2>6. CASE m \notin refused
    <3>1. tracked[m].node \notin DOMAIN drive'
      BY <1>2, <2>2, <2>6 DEF Without
    <3>2. Copies(m)' \subseteq Strays(m)
      BY <2>1, <2>3, <3>1, Shrinks DEF Strays, Copies
    <3>3. Cardinality(Strays(m)) <= losses'
      BY <1>1, <2>2, <2>3, <2>4, FS_CardinalityType
    <3> QED BY <1>1, <2>3, <3>2, <3>3, FewerNodes
  <2> QED BY <2>5, <2>6
<1> QED BY <1>3, <1>4

LEMMA StraysInductive == Spec => [](IInv /\ Staged /\ StraysCounted)
<1>1. Init => IInv /\ Staged /\ StraysCounted
  <2> SUFFICES ASSUME Init PROVE IInv /\ Staged /\ StraysCounted
    OBVIOUS
  <2>1. IInv /\ Staged
    BY InitTrue DEF Staged, RowsRead, Init
  <2>2. \A k \in Keys : Copies(k) \ Home(k) = {}
    BY DEF Copies, Init
  <2>3. losses = 0 /\ pc = "idle"
    BY DEF Init
  <2> QED BY <2>1, <2>2, <2>3, FS_EmptySet DEF StraysCounted
<1>2. IInv /\ Staged /\ StraysCounted /\ [Next]_vars => (IInv /\ Staged /\ StraysCounted)'
  <2> SUFFICES ASSUME IInv, Staged, StraysCounted, [Next]_vars PROVE StraysCounted'
    BY NextKeeps, StagedStep
  <2>1. \A k \in Keys : Cardinality(Copies(k)' \ Home(k)') <= losses'
    BY StraysStep
  <2>2. pc' = "forget" => \A m \in orphans' : Cardinality(Copies(m)') <= losses'
    BY ForgottenCounted
  <2> QED BY <2>1, <2>2 DEF StraysCounted
<1> QED BY <1>1, <1>2, PTL DEF Spec

\* One node for each file, and no more than one beside it for each run cut
\* short, lookup that failed or deletion that was refused.
THEOREM CopiesCounted == Spec => []CopiesExplained
<1>1. IInv /\ Staged /\ StraysCounted => CopiesExplained
  <2> SUFFICES ASSUME IInv, Staged, StraysCounted, NEW k \in Keys
               PROVE  Cardinality(Copies(k)) <= 1 + losses
    BY DEF CopiesExplained
  <2>1. IsFiniteSet(Strays(k)) /\ Cardinality(Strays(k)) <= losses /\ losses \in Nat
    <3>1. losses \in Nat
      BY ConstantsAssumption DEF IInv, TypeOK, ConstantsAssumption
    <3>2. IsFiniteSet(Strays(k))
      BY NodesFinite DEF IInv, Strays, Copies
    <3> QED BY <3>1, <3>2 DEF StraysCounted, Strays
  <2>2. \E x : Copies(k) \subseteq Strays(k) \cup {x}
    <3>1. CASE \E i \in item : pc = "record" /\ i.key = k
      <4>1. PICK i \in item : item = {i} /\ Home(k) = {i.node}
        BY <3>1 DEF Home, Staged
      <4> QED BY <4>1 DEF Strays
    <3>2. CASE ~(\E i \in item : pc = "record" /\ i.key = k)
      BY <3>2 DEF Strays, Home
    <3> QED BY <3>1, <3>2
  <2>3. Cardinality(Copies(k)) <= losses + 1
    BY <2>1, <2>2, OneMoreNode
  <2>4. losses + 1 = 1 + losses
    BY <2>1
  <2> QED BY <2>3, <2>4
<1> QED BY <1>1, StraysInductive, PTL

-----------------------------------------------------------------------------
(***************************************************************************)
(* Versions.  A snapshot on its way up is no older than any copy: one run  *)
(* at a time takes it, and nothing else writes to the Drive.               *)
(***************************************************************************)
Ordered ==
  /\ \A n \in Copies(Database) : drive[n].holds.version \in 0..version
  /\ \A i \in item :
       i.key = Database =>
         /\ i.hash.version \in 0..version
         /\ pc = "upload" =>
              \A n \in Copies(Database) : drive[n].holds.version <= i.hash.version

LEMMA OrderedStep ==
  ASSUME IInv, Staged, Ordered, [Next]_vars
  PROVE  Ordered'
<1> USE DEF data, run
<1>1. version \in Nat
  BY ConstantsAssumption DEF ConstantsAssumption, IInv, TypeOK
<1>2. CASE \/ UNCHANGED vars \/ Begin \/ ListMedia \/ MediaDone \/ FindOrphans \/ Break
           \/ \E m \in Media : Upload(m) \/ Delete(m) \/ UploadMedia(m) \/ SkipMedia(m) \/ Forget(m)
  <2>1. UNCHANGED <<drive, version>>
    BY <1>2 DEF vars, Begin, ListMedia, MediaDone, FindOrphans, Break, Upload, Delete,
                UploadMedia, SkipMedia, Forget
  <2>2. \/ UNCHANGED <<pc, item>>
        \/ \A i \in item' : i.key # Database
    <3>1. CASE UNCHANGED vars \/ \E m \in Media : Upload(m) \/ Delete(m)
      BY <3>1 DEF vars, Upload, Delete
    <3>2. CASE Begin \/ ListMedia \/ MediaDone \/ FindOrphans \/ \E m \in Media : SkipMedia(m) \/ Forget(m)
      <4>1. item = {}
        BY <3>2 DEF Begin, ListMedia, MediaDone, FindOrphans, SkipMedia, Forget, Staged
      <4>2. item' = item
        BY <3>2 DEF Begin, ListMedia, MediaDone, FindOrphans, SkipMedia, Forget
      <4> QED BY <4>1, <4>2
    <3>3. CASE Break
      BY <3>3 DEF Break
    <3>4. ASSUME NEW m \in Media, UploadMedia(m) PROVE \A i \in item' : i.key # Database
      BY <3>4, ConstantsAssumption DEF ConstantsAssumption, UploadMedia
    <3> QED BY <1>2, <3>1, <3>2, <3>3, <3>4
  <2> QED BY <2>1, <2>2 DEF Ordered, Copies
<1>3. CASE Edit
  BY <1>1, <1>3 DEF Edit, Ordered, Copies
<1>4. CASE TakeSnapshot
  <2>1. UNCHANGED <<drive, version>>
    BY <1>4 DEF TakeSnapshot
  <2>2. \A i \in item' : i.hash.version = version
    BY <1>4 DEF TakeSnapshot, Snapshot
  <2> QED BY <1>1, <2>1, <2>2 DEF Ordered, Copies
<1>5. CASE Trash \/ \E x \in DOMAIN drive : Discard(x)
  <2>1. UNCHANGED <<version, item>> /\ (pc' = "upload" => pc = "upload")
    BY <1>5 DEF Trash, Discard
  <2>2. Copies(Database)' \subseteq Copies(Database) /\ \A x \in DOMAIN drive' : drive'[x] = drive[x]
    BY <1>5, Shrinks DEF Copies
  <2> QED BY <2>1, <2>2 DEF Ordered, Copies
<1>6. CASE NewRevision
  <2>1. PICK i \in item, j \in item' :
           /\ item = {i} /\ item' = {j}
           /\ j.key = i.key /\ j.hash = i.hash /\ j.node = tracked[i.key].node
           /\ There(i.key)
           /\ DOMAIN drive' = DOMAIN drive
           /\ \A x \in DOMAIN drive :
                /\ drive'[x].key = drive[x].key
                /\ x # tracked[i.key].node => drive'[x] = drive[x]
           /\ drive'[tracked[i.key].node].holds = i.hash
    BY <1>6, RevisionShape
  <2>2. UNCHANGED version /\ pc' = "record"
    BY <1>6 DEF NewRevision
  <2>3. drive[tracked[i.key].node].key = i.key
    BY <2>1 DEF IInv, RecordedNodes, There
  <2> QED BY <2>1, <2>2, <2>3 DEF Ordered, Copies
<1>7. CASE NewFile
  <2>1. PICK i \in item, j \in item' :
           /\ item = {i} /\ item' = {j}
           /\ j.key = i.key /\ j.hash = i.hash
           /\ DOMAIN drive' = DOMAIN drive \cup {created'}
           /\ \A x \in DOMAIN drive : drive'[x] = drive[x]
           /\ drive'[created'].key = i.key /\ drive'[created'].holds = i.hash
    BY <1>7, NewFileShape
  <2>2. UNCHANGED version /\ pc' = "record"
    BY <1>7 DEF NewFile
  <2> QED BY <2>1, <2>2 DEF Ordered, Copies
<1>8. CASE Record
  BY <1>8 DEF Record, Ordered, Copies
<1> QED
  BY <1>2, <1>3, <1>4, <1>5, <1>6, <1>7, <1>8 DEF Next, Proceed

LEMMA OrderedInductive == Spec => [](IInv /\ Staged /\ Ordered)
<1>1. Init => IInv /\ Staged /\ Ordered
  BY InitTrue DEF Staged, RowsRead, Ordered, Copies, Init
<1>2. IInv /\ Staged /\ Ordered /\ [Next]_vars => (IInv /\ Staged /\ Ordered)'
  BY NextKeeps, StagedStep, OrderedStep
<1> QED BY <1>1, <1>2, PTL DEF Spec

\* The newest edit on the Drive stays there or gives way to a newer one,
\* unless the owner deletes the file.
THEOREM DriveNeverGoesBack == Spec => CopyNeverOlder
<1>1. ASSUME IInv, Staged, Ordered, Next, ~\E n \in DOMAIN drive : Discard(n),
             NEW v \in 0..MaxVersion, Reaches(v)
      PROVE  Reaches(v)'
  <2> USE DEF data, run
  <2>1. PICK n \in Copies(Database) : drive[n].holds.version >= v
    BY <1>1 DEF Reaches
  <2>2. drive[n].holds.version \in Nat
    BY <1>1, <2>1 DEF Ordered
  <2>3. CASE Trash
    <3>1. n \in DOMAIN drive'
      BY <1>1, <2>1, <2>3, TrashSpares DEF Copies
    <3> QED BY <2>1, <2>3, <3>1, Shrinks DEF Reaches, Copies
  <2>4. CASE NewRevision
    <3>1. PICK i \in item :
           /\ There(i.key)
           /\ DOMAIN drive' = DOMAIN drive
           /\ \A x \in DOMAIN drive :
                /\ drive'[x].key = drive[x].key
                /\ x # tracked[i.key].node => drive'[x] = drive[x]
           /\ drive'[tracked[i.key].node].holds = i.hash
      BY <1>1, <2>4, RevisionShape
    <3>2. n \in Copies(Database)'
      BY <2>1, <3>1 DEF Copies
    <3>3. drive'[n].holds.version >= v
      <4>1. CASE n # tracked[i.key].node
        BY <2>1, <3>1, <4>1 DEF Copies
      <4>2. CASE n = tracked[i.key].node
        <5>1. i.key = Database
          BY <1>1, <2>1, <3>1, <4>2 DEF Copies, IInv, RecordedNodes, There
        <5>2. pc = "upload"
          BY <2>4 DEF NewRevision
        <5>3. i.hash.version \in Nat /\ drive[n].holds.version <= i.hash.version
          BY <1>1, <2>1, <3>1, <5>1, <5>2 DEF Ordered
        <5> QED BY <2>1, <2>2, <3>1, <4>2, <5>3
      <4> QED BY <4>1, <4>2
    <3> QED BY <3>2, <3>3 DEF Reaches
  <2>5. CASE NewFile
    <3>1. /\ DOMAIN drive \subseteq DOMAIN drive'
          /\ \A x \in DOMAIN drive : drive'[x] = drive[x]
      BY <1>1, <2>5, NewFileShape
    <3> QED BY <2>1, <3>1 DEF Reaches, Copies
  <2>6. CASE UNCHANGED drive
    BY <2>1, <2>6 DEF Reaches, Copies
  <2> QED
    BY <1>1, <2>3, <2>4, <2>5, <2>6
    DEF Next, Proceed, Edit, Upload, Delete, Begin, Break, TakeSnapshot, Record, ListMedia,
        MediaDone, FindOrphans, UploadMedia, SkipMedia, Forget
<1>2. IInv /\ Staged /\ Ordered /\ [Next]_vars =>
        [\/ \E n \in DOMAIN drive : Discard(n)
         \/ \A v \in 0..MaxVersion : Reaches(v) => Reaches(v)']_vars
  BY <1>1
<1> QED BY <1>2, OrderedInductive, PTL DEF Spec, CopyNeverOlder

=============================================================================
