---------------------------- MODULE DriveSession ----------------------------
(***************************************************************************)
(* How a backup run gets at Proton Drive: the stored session, which is     *)
(* resumed by every run and rewritten whenever its tokens are rotated      *)
(* (src/src/backup/session.rs, proton.rs), and device_folders of           *)
(* src/src/backup/mod.rs, which finds or makes the folders the mirror      *)
(* writes into and remembers them in the table backup_state.               *)
(*                                                                         *)
(* The runs are those of one server, one at a time.  proton-login and      *)
(* proton-logout are processes of their own and may come at any moment.    *)
(* The account (its sessions, devices and folders) is external.            *)
(***************************************************************************)
EXTENDS Naturals, Sequences

CONSTANTS
  DeviceNames,    \* what WORKSPACE_PROTON_DEVICE may be set to
  FirstName,
  MaxLogins,      \* bound: logins
  MaxRotations,   \* bound: times a session's tokens are rotated
  MaxNodes,       \* bound: devices and folders ever made
  MaxChanges      \* bound: renamings of the device and deletions

ASSUME NamesAssumption ==
  /\ FirstName \in DeviceNames
  /\ DeviceNames \cap {"data", "uploads"} = {}
  /\ MaxLogins \in Nat /\ MaxNodes \in Nat
  /\ MaxRotations \in Nat \ {0}
  /\ MaxChanges \in Nat

None == 0

Keys == {"root", "data", "uploads"}

VARIABLES
  file,      \* the session on disk: a set of at most one [login, token]
  current,   \* each login's refresh token that Proton would take: login -> n
  client,    \* the session a run holds in memory
  unsaved,   \* whether the refresh hook has tokens to save
  lost,      \* logins of which a rotation never reached the disk
  device,    \* the configured device name
  state,     \* backup_state: device_root, device_data, device_uploads
  known,     \* backup_state: device_name
  drive,     \* every device root and folder ever made: id -> [under, label]
  there,     \* those of them that are still there
  pc,        \* what the run does next
  fresh,     \* device_folders' local: whether remembered folders are stale
  found,     \* the folders this run has found
  used,      \* what the last run that got that far found: a set of at most one
  torn,      \* whether a run stopped between a new device and its folders
  changes    \* renamings and deletions so far

session == <<file, current, client, unsaved, lost>>
account == <<drive, there>>
run == <<pc, fresh, found>>
vars == <<session, device, state, known, account, run, used, torn, changes>>

Nowhere == [k \in Keys |-> None]

Init ==
  /\ file = {} /\ current = <<>> /\ client = {} /\ unsaved = FALSE /\ lost = {}
  /\ device = FirstName /\ known = "" /\ state = Nowhere
  /\ drive = <<>> /\ there = {}
  /\ pc = "idle" /\ fresh = FALSE /\ found = Nowhere /\ used = {} /\ torn = FALSE /\ changes = 0

-----------------------------------------------------------------------------
(* The session *)

\* proton-login: a new session, written over what was stored.
Login ==
  /\ Len(current) < MaxLogins
  /\ current' = Append(current, 1)
  /\ file' = {[login |-> Len(current) + 1, token |-> 1]}
  /\ UNCHANGED <<client, unsaved, lost, device, state, known, account, run, used, torn, changes>>

\* proton-logout: SessionStore::clear.
Logout ==
  /\ file' = {}
  /\ UNCHANGED <<current, client, unsaved, lost, device, state, known, account,
                 run, used, torn, changes>>

\* proton::resume: the session as it is on disk now.  Without one there is no run.
Resume ==
  /\ pc = "idle" /\ file # {}
  /\ client' = file
  /\ pc' = "root"
  /\ UNCHANGED <<file, current, unsaved, lost, device, state, known, account,
                 fresh, found, used, torn, changes>>

\* Any request may find the access token expired.  A refresh token is good once.
Rotate ==
  /\ pc # "idle" /\ ~unsaved
  /\ \E s \in client :
       /\ s.token = current[s.login] /\ s.token < MaxRotations
       /\ current' = [current EXCEPT ![s.login] = @ + 1]
       /\ client' = {[s EXCEPT !.token = @ + 1]}
  /\ unsaved' = TRUE
  /\ UNCHANGED <<file, lost, device, state, known, account, run, used, torn, changes>>

\* A slip: the fields of the session that was resumed win over the new tokens.
PersistOld ==
  /\ unsaved /\ unsaved' = FALSE
  /\ UNCHANGED <<file, current, client, lost, device, state, known, account, run,
                 used, torn, changes>>

\* The refresh hook: it writes over whatever is stored by now, in one rename.
Persist ==
  /\ unsaved /\ unsaved' = FALSE
  /\ file' = client
  /\ lost' = lost \ {s.login : s \in client}
  /\ UNCHANGED <<current, client, device, state, known, account, run, used, torn, changes>>

\* "could not persist refreshed Proton tokens": logged, and the run goes on.
PersistFails ==
  /\ unsaved /\ unsaved' = FALSE
  /\ lost' = lost \cup {s.login : s \in client}
  /\ UNCHANGED <<file, current, client, device, state, known, account, run, used, torn, changes>>

-----------------------------------------------------------------------------
(* The folders *)

At(label) == pc = label /\ ~unsaved

Named(under, label) ==
  {n \in there : drive[n].under = under /\ drive[n].label = label}

\* A slip: registering a device without looking for it first.
FindOrMakeAnew(under, label, key) ==
  /\ Len(drive) < MaxNodes
  /\ drive' = Append(drive, [under |-> under, label |-> label])
  /\ there' = there \cup {Len(drive) + 1}
  /\ found' = [found EXCEPT ![key] = Len(drive) + 1]

\* ensure_device and create_folder_path: the one of that name, or a new one.
FindOrMake(under, label, key) ==
  \/ /\ \E n \in Named(under, label) : found' = [found EXCEPT ![key] = n]
     /\ UNCHANGED account
  \/ /\ Named(under, label) = {} /\ Len(drive) < MaxNodes
     /\ drive' = Append(drive, [under |-> under, label |-> label])
     /\ there' = there \cup {Len(drive) + 1}
     /\ found' = [found EXCEPT ![key] = Len(drive) + 1]

\* cached_node: a remembered folder, confirmed with one request.
Remembered(key, stale) == ~stale /\ state[key] \in there

\* A slip: trusting what is remembered without asking under which name.
RootOfAnyName ==
  /\ At("root")
  /\ fresh' = (known = "")
  /\ IF Remembered("root", fresh')
     THEN pc' = "data" /\ found' = [found EXCEPT !["root"] = state["root"]]
     ELSE pc' = "device" /\ UNCHANGED found
  /\ UNCHANGED <<session, device, state, known, account, used, torn, changes>>

Root ==
  /\ At("root")
  /\ fresh' = (known # device)
  /\ IF Remembered("root", fresh')
     THEN pc' = "data" /\ found' = [found EXCEPT !["root"] = state["root"]]
     ELSE pc' = "device" /\ UNCHANGED found
  /\ UNCHANGED <<session, device, state, known, account, used, torn, changes>>

EnsureDevice ==
  /\ At("device")
  /\ FindOrMake(None, device, "root")
  /\ pc' = "setName"
  /\ UNCHANGED <<session, device, state, known, fresh, used, torn, changes>>

SetName ==
  /\ At("setName")
  /\ known' = device
  /\ pc' = "setRoot"
  /\ UNCHANGED <<session, device, state, account, fresh, found, used, torn, changes>>

\* Folders remembered inside the old root mean nothing in a new one.
SetRoot ==
  /\ At("setRoot")
  /\ state' = [state EXCEPT !["root"] = found["root"]]
  /\ fresh' = TRUE
  /\ pc' = "data"
  /\ UNCHANGED <<session, device, known, account, found, used, torn, changes>>

Folder(key, under, set, next) ==
  /\ At(key)
  /\ \/ /\ Remembered(key, fresh)
        /\ found' = [found EXCEPT ![key] = state[key]]
        /\ pc' = next
        /\ UNCHANGED account
     \/ /\ ~Remembered(key, fresh) /\ found[under] \in there
        /\ FindOrMake(found[under], key, key)
        /\ pc' = set
  /\ UNCHANGED <<session, device, state, known, fresh, used, torn, changes>>

SetFolder(key, set, next) ==
  /\ At(set)
  /\ state' = [state EXCEPT ![key] = found[key]]
  /\ pc' = next
  /\ UNCHANGED <<session, device, known, account, fresh, found, used, torn, changes>>

\* The mirror writes into what was found; the client is dropped at its end.
Mirror ==
  /\ At("mirror")
  /\ torn' = (torn /\ ~fresh)
  /\ used' = {[name |-> device, folders |-> found, torn |-> torn']}
  /\ pc' = "idle" /\ client' = {} /\ fresh' = FALSE /\ found' = Nowhere
  /\ UNCHANGED <<file, current, unsaved, lost, device, state, known, account, changes>>

\* A request or a statement fails, or the server stops.
Fail ==
  /\ pc # "idle"
  /\ pc' = "idle" /\ client' = {} /\ unsaved' = FALSE
  /\ lost' = IF unsaved THEN lost \cup {s.login : s \in client} ELSE lost
  /\ torn' = (torn \/ pc = "setRoot"
                   \/ (fresh /\ pc \in {"data", "setData", "uploads", "setUploads"}))
  /\ fresh' = FALSE /\ found' = Nowhere
  /\ UNCHANGED <<file, current, device, state, known, account, used, changes>>

\* The server comes back with another name for its device.
Reconfigure ==
  /\ pc = "idle"
  /\ changes < MaxChanges /\ changes' = changes + 1
  /\ device' \in DeviceNames \ {device}
  /\ UNCHANGED <<session, state, known, account, run, used, torn>>

\* Someone deletes a device or a folder in the Drive UI, with all it holds.
DeletedInDrive ==
  /\ changes < MaxChanges /\ changes' = changes + 1
  /\ \E n \in there :
       there' = {m \in there : /\ m # n /\ drive[m].under # n
                               /\ drive[m].under # None => drive[drive[m].under].under # n}
  /\ UNCHANGED <<session, device, state, known, drive, run, used, torn>>

Next ==
  \/ Login \/ Logout \/ Resume \/ Rotate \/ Persist \/ PersistFails
  \/ Root \/ EnsureDevice \/ SetName \/ SetRoot
  \/ Folder("data", "root", "setData", "uploads")
  \/ SetFolder("data", "setData", "uploads")
  \/ Folder("uploads", "data", "setUploads", "mirror")
  \/ SetFolder("uploads", "setUploads", "mirror")
  \/ Mirror \/ Fail \/ Reconfigure \/ DeletedInDrive

Spec == Init /\ [][Next]_vars

-----------------------------------------------------------------------------
(* Properties *)

Session == [login : 1..Len(current), token : 1..MaxRotations]
Node == [under : Nat, label : DeviceNames \cup {"data", "uploads"}]
Places == {"idle", "root", "device", "setName", "setRoot", "data", "setData",
           "uploads", "setUploads", "mirror"}

\* The stored sessions name logins there were, the ids nodes that were made.
TypeOK ==
  /\ current \in Seq(1..MaxRotations)
  /\ file \subseteq Session /\ client \subseteq Session
  /\ lost \subseteq 1..Len(current)
  /\ unsaved \in BOOLEAN /\ fresh \in BOOLEAN /\ torn \in BOOLEAN
  /\ changes \in 0..MaxChanges
  /\ device \in DeviceNames
  /\ drive \in Seq(Node)
  /\ there \subseteq DOMAIN drive
  /\ state \in [Keys -> DOMAIN drive \cup {None}]
  /\ found \in [Keys -> DOMAIN drive \cup {None}]
  /\ pc \in Places

(***************************************************************************)
(* "A rotation that is not written back leaves a dead token on disk and    *)
(* the next resume fails" (backup/session.rs:16): what is stored is what   *)
(* Proton would take, unless a rotation was lost or is being written, and  *)
(* whoever logs in or out while a run rotates and saves.                   *)
(***************************************************************************)
StoredSessionLives ==
  \A s \in file :
     \/ s.token = current[s.login]
     \/ s.login \in lost
     \/ unsaved /\ \E c \in client : c.login = s.login

(***************************************************************************)
(* No second device and no second folder of a name, however often a run    *)
(* is interrupted after Proton made one and before it was remembered       *)
(* (backup/mod.rs:240: a network error must not be answered by making a    *)
(* second one).                                                            *)
(***************************************************************************)
NoTwins ==
  \A n, m \in there : drive[n] = drive[m] => n = m

\* uploads lies in data, data in the root of the device of that name.
Nested(u) ==
  LET f == u.folders
  IN  /\ drive[f["root"]].label = u.name
      /\ drive[f["data"]].under = f["root"]
      /\ drive[f["uploads"]].under = f["data"]

(***************************************************************************)
(* What a run writes into is a chain: the device of the configured name,   *)
(* data on it, uploads in that, after any renaming of the device and any   *)
(* deletion in the Drive UI, provided no run stopped half way through      *)
(* moving to another device.                                               *)
(***************************************************************************)
FoldersNested == \A u \in used : ~u.torn => Nested(u)

(***************************************************************************)
(* The same without that proviso: "Folders remembered inside the old root  *)
(* mean nothing in a new one, whichever of them still resolves"            *)
(* (backup/mod.rs:194).                                                    *)
(***************************************************************************)
FoldersOfDevice == \A u \in used : Nested(u)
=============================================================================
