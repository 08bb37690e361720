------------------------- MODULE DriveSessionProofs -------------------------
(***************************************************************************)
(* Proofs about DriveSession: that what is stored of a session stays good, *)
(* and that a run that is not torn writes into one chain of folders.       *)
(***************************************************************************)
EXTENDS DriveSession, TLAPS

\* Devices are roots, data lies on a device, uploads in a data folder.
TreeShape ==
  \A n \in DOMAIN drive :
     /\ drive[n].under = None <=> drive[n].label \in DeviceNames
     /\ drive[n].label = "data" =>
          /\ drive[n].under \in DOMAIN drive
          /\ drive[drive[n].under].label \in DeviceNames
     /\ drive[n].label = "uploads" =>
          /\ drive[n].under \in DOMAIN drive
          /\ drive[drive[n].under].label = "data"

\* Who is there, its folder is there.
Closed == \A n \in there : drive[n].under # None => drive[n].under \in there

\* What is remembered was once the like of what it is remembered as.
StateKind ==
  /\ state["root"] # None => drive[state["root"]].label \in DeviceNames
  /\ state["data"] # None => drive[state["data"]].label = "data"
  /\ state["uploads"] # None => drive[state["uploads"]].label = "uploads"

RootFound == {"setName", "setRoot", "data", "setData", "uploads", "setUploads", "mirror"}
RootSet == {"data", "setData", "uploads", "setUploads", "mirror"}
DataFound == {"setData", "uploads", "setUploads", "mirror"}
DataSet == {"uploads", "setUploads", "mirror"}
UploadsFound == {"setUploads", "mirror"}

FoundKind ==
  /\ pc \in RootFound => /\ found["root"] # None
                         /\ drive[found["root"]].label \in DeviceNames
  /\ pc \in DataFound => found["data"] # None /\ drive[found["data"]].label = "data"
  /\ pc \in UploadsFound => found["uploads"] # None /\ drive[found["uploads"]].label = "uploads"

\* A run that is past a step has remembered what that step found.
FoundSet ==
  /\ pc \in {"setRoot"} \cup RootSet => known = device
  /\ pc \in RootSet => state["root"] = found["root"]
  /\ pc \in DataSet => state["data"] = found["data"]
  /\ pc = "mirror" => state["uploads"] = found["uploads"]

\* What it found is a chain.
FoundFit ==
  /\ pc \in {"setName", "setRoot"} => drive[found["root"]].label = device
  /\ fresh \/ ~torn =>
       /\ pc \in RootSet => drive[found["root"]].label = device
       /\ pc \in DataFound => drive[found["data"]].under = found["root"]
       /\ pc \in UploadsFound => drive[found["uploads"]].under = found["data"]

Moving == pc = "setRoot" \/ (fresh /\ pc \in {"data", "setData", "uploads", "setUploads"})

\* What is remembered is a chain, as far as it is still there.
StateFit ==
  ~torn /\ ~Moving =>
    /\ state["root"] # None => drive[state["root"]].label = known
    /\ state["data"] \in there => drive[state["data"]].under = state["root"]
    /\ state["uploads"] \in there => drive[state["uploads"]].under = state["data"]

\* A folder is made anew only when the one that was remembered is gone.
Replaced == pc = "setData" /\ ~fresh => state["data"] \notin there

\* The folders of the last run were made once.
UsedMade == \A u \in used : \A k \in Keys : u.folders[k] \in DOMAIN drive

TreeInv == TreeShape /\ Closed
KindInv == StateKind /\ FoundKind
FitInv == FoundSet /\ FoundFit /\ StateFit /\ Replaced
UsedInv == UsedMade /\ FoldersNested
ChainInv == TreeInv /\ KindInv /\ FitInv /\ UsedInv

\* What the hook is about to save is what Proton would take.
TokenInv ==
  /\ StoredSessionLives
  /\ unsaved => pc # "idle" /\ \A c \in client : c.token = current[c.login]

-----------------------------------------------------------------------------
(* Helpers *)

\* What is found or made is of the kind asked for, and nothing else changes.
FoundAt(under, label, key, m) ==
  /\ found' = [found EXCEPT ![key] = m]
  /\ m \in DOMAIN drive' /\ drive'[m] = [under |-> under, label |-> label]
  /\ there' = there \cup {m}
  /\ m \in there \/ m \notin DOMAIN drive
  /\ drive' \in Seq(Node) /\ DOMAIN drive \subseteq DOMAIN drive'
  /\ DOMAIN drive' \subseteq DOMAIN drive \cup {m}
  /\ \A n \in DOMAIN drive : drive'[n] = drive[n]

LEMMA Finding ==
  ASSUME TypeOK, NEW under \in Nat, NEW key \in Keys,
         NEW label \in DeviceNames \cup {"data", "uploads"},
         FindOrMake(under, label, key)
  PROVE  \E m : FoundAt(under, label, key, m)
<1>1. CASE UNCHANGED account
  <2>1. PICK m \in Named(under, label) : found' = [found EXCEPT ![key] = m]
    BY <1>1 DEF FindOrMake, account
  <2>2. m \in there /\ m \in DOMAIN drive /\ drive[m] \in Node
    BY <2>1 DEF Named, TypeOK
  <2>3. drive[m] = [under |-> under, label |-> label]
    BY <2>1, <2>2 DEF Named, Node
  <2>4. FoundAt(under, label, key, m)
    BY <1>1, <2>1, <2>2, <2>3 DEF account, TypeOK, FoundAt
  <2>5. QED
    BY <2>4
<1>2. CASE /\ drive' = Append(drive, [under |-> under, label |-> label])
           /\ there' = there \cup {Len(drive) + 1}
           /\ found' = [found EXCEPT ![key] = Len(drive) + 1]
  <2> DEFINE m == Len(drive) + 1
             new == [under |-> under, label |-> label]
  <2>1. drive \in Seq(Node) /\ new \in Node /\ Len(drive) \in Nat
    BY DEF TypeOK, Node
  <2>2. /\ Append(drive, new) \in Seq(Node)
        /\ DOMAIN Append(drive, new) = 1..m
        /\ DOMAIN drive = 1..Len(drive)
        /\ Append(drive, new)[m] = new
        /\ \A n \in 1..Len(drive) : Append(drive, new)[n] = drive[n]
    BY <2>1
  <2>3. /\ m \notin DOMAIN drive /\ m \in 1..m
        /\ DOMAIN drive \subseteq 1..m /\ 1..m \subseteq DOMAIN drive \cup {m}
    BY <2>1, <2>2
  <2>4. FoundAt(under, label, key, m)
    BY <1>2, <2>2, <2>3 DEF FoundAt
  <2>5. QED
    BY <2>4
<1>3. QED
  BY <1>1, <1>2 DEF FindOrMake

-----------------------------------------------------------------------------
(* Types *)

LEMMA Nothing ==
  ASSUME NEW S
  PROVE  <<>> \in Seq(S) /\ Len(<<>>) = 0 /\ DOMAIN <<>> = {}
OBVIOUS

LEMMA InitType == Init => TypeOK
<1> SUFFICES ASSUME Init
             PROVE  TypeOK
  OBVIOUS
<1>1. current \in Seq(1..MaxRotations) /\ Len(current) = 0
  BY Nothing, Zenon DEF Init
<1>2. drive \in Seq(Node)
  BY Nothing, Zenon DEF Init
<1>3. Nowhere \in [Keys -> DOMAIN drive \cup {None}]
  BY DEF Nowhere
<1>4. 0 \in 0..MaxChanges
  BY NamesAssumption DEF NamesAssumption
<1>5. device \in DeviceNames
  BY NamesAssumption DEF Init, NamesAssumption
<1>6. QED
  BY <1>1, <1>2, <1>3, <1>4, <1>5 DEF Init, TypeOK, Places

\* A new login is a session of the longer list of logins.
LEMMA LoginType ==
  ASSUME TypeOK, Login
  PROVE  TypeOK'
<1> DEFINE n == Len(current) + 1
<1>1. /\ current' \in Seq(1..MaxRotations)
      /\ Len(current') = n /\ Len(current) \in Nat
  BY NamesAssumption DEF Login, TypeOK, NamesAssumption
<1>2. 1..Len(current) \subseteq 1..n /\ n \in 1..n
  BY <1>1
<1>3. Session \subseteq Session' /\ [login |-> n, token |-> 1] \in Session'
  BY <1>1, <1>2, NamesAssumption DEF Session, NamesAssumption
<1>4. file' \subseteq Session' /\ client' \subseteq Session' /\ lost' \subseteq 1..Len(current')
  BY <1>1, <1>2, <1>3 DEF Login, TypeOK
<1>5. QED
  BY <1>1, <1>4 DEF Login, TypeOK, account, run

\* A rotation changes one token of one login.
LEMMA RotateType ==
  ASSUME TypeOK, Rotate
  PROVE  TypeOK'
<1>1. PICK s \in client :
        /\ s.token < MaxRotations
        /\ current' = [current EXCEPT ![s.login] = @ + 1]
        /\ client' = {[s EXCEPT !.token = @ + 1]}
        /\ s.token = current[s.login]
  BY DEF Rotate
<1>2. s \in Session /\ MaxRotations \in Nat
  BY NamesAssumption DEF TypeOK, NamesAssumption
<1>3. s.login \in 1..Len(current) /\ s.token + 1 \in 1..MaxRotations
  BY <1>1, <1>2 DEF Session
<1>4. current' \in Seq(1..MaxRotations) /\ Len(current') = Len(current)
  BY <1>1, <1>3 DEF TypeOK
<1>5. [s EXCEPT !.token = @ + 1] \in Session
  BY <1>2, <1>3 DEF Session
<1>6. Session' = Session
  BY <1>4 DEF Session
<1>7. QED
  BY <1>1, <1>4, <1>5, <1>6 DEF Rotate, TypeOK, account, run

\* The other steps of the session.
LEMMA SessionType ==
  ASSUME TypeOK, Logout \/ Resume \/ Persist \/ PersistFails
  PROVE  TypeOK'
<1>1. UNCHANGED current /\ Session' = Session
  BY DEF Logout, Resume, Persist, PersistFails, Session
<1>2. {s.login : s \in client} \subseteq 1..Len(current)
  BY DEF TypeOK, Session
<1>3. QED
  BY <1>1, <1>2 DEF TypeOK, Places, Logout, Resume, Persist, PersistFails, account, run

\* A step that finds or makes a folder.
LEMMA FindingType ==
  ASSUME TypeOK, NEW under \in Nat, NEW key \in Keys,
         NEW label \in DeviceNames \cup {"data", "uploads"},
         FindOrMake(under, label, key), pc' \in Places,
         UNCHANGED <<session, device, state, fresh, torn, changes>>
  PROVE  TypeOK'
<1>1. PICK m : FoundAt(under, label, key, m)
  BY Finding
<1>2. Session' = Session
  BY DEF Session, session
<1>3. /\ drive' \in Seq(Node) /\ there' \subseteq DOMAIN drive'
      /\ found' \in [Keys -> DOMAIN drive' \cup {None}]
      /\ state \in [Keys -> DOMAIN drive' \cup {None}]
  BY <1>1 DEF FoundAt, TypeOK
<1>4. QED
  BY <1>2, <1>3 DEF TypeOK, session

\* The steps of device_folders and the end of a run.
LEMMA FolderType ==
  ASSUME TypeOK,
         \/ Root \/ EnsureDevice \/ SetName \/ SetRoot
         \/ Folder("data", "root", "setData", "uploads")
         \/ SetFolder("data", "setData", "uploads")
         \/ Folder("uploads", "data", "setUploads", "mirror")
         \/ SetFolder("uploads", "setUploads", "mirror")
         \/ Mirror \/ Fail \/ Reconfigure \/ DeletedInDrive
  PROVE  TypeOK'
<1>1. CASE EnsureDevice
  BY <1>1, FindingType, SMT DEF EnsureDevice, Places, Keys, None, TypeOK
<1>2. ASSUME NEW key \in {"data", "uploads"}, NEW under \in Keys, NEW set \in Places,
             NEW next \in Places, Folder(key, under, set, next)
      PROVE  TypeOK'
  <2>1. CASE UNCHANGED account
    <3>1. key \in Keys /\ Session' = Session
      BY <1>2 DEF Keys, Folder, session, Session
    <3>2. found' = [found EXCEPT ![key] = state[key]] => found' \in [Keys -> DOMAIN drive \cup {None}]
      BY <3>1 DEF TypeOK
    <3>3. CASE found' = [found EXCEPT ![key] = state[key]] /\ pc' = next
      BY <1>2, <2>1, <3>1, <3>2, <3>3 DEF TypeOK, Folder, session, account
    <3>4. CASE FindOrMake(found[under], key, key) /\ pc' = set /\ found[under] \in there
      <4>1. found[under] \in Nat
        BY <3>4 DEF TypeOK
      <4>2. QED
        BY <1>2, <3>1, <3>4, <4>1, FindingType DEF Folder
    <3>5. QED
      BY <1>2, <3>3, <3>4 DEF Folder
  <2>2. CASE FindOrMake(found[under], key, key) /\ pc' = set /\ found[under] \in there
    <3>1. found[under] \in Nat /\ key \in Keys
      BY <2>2 DEF TypeOK, Keys
    <3>2. QED
      BY <1>2, <2>2, <3>1, FindingType DEF Folder
  <2>3. QED
    BY <1>2, <2>1, <2>2 DEF Folder
<1>3. CASE Folder("data", "root", "setData", "uploads")
  BY <1>2, <1>3 DEF Places, Keys
<1>4. CASE Folder("uploads", "data", "setUploads", "mirror")
  BY <1>2, <1>4 DEF Places, Keys
<1>5. CASE Root
  BY <1>5 DEF Root, TypeOK, Session, session, account, Keys, Places
<1>6. CASE SetName
  BY <1>6 DEF SetName, TypeOK, Session, session, account, Places
<1>7. CASE SetRoot
  BY <1>7 DEF SetRoot, TypeOK, Session, session, account, Keys, Places
<1>8. ASSUME NEW key \in Keys, NEW set \in Places, NEW next \in Places,
             SetFolder(key, set, next)
      PROVE  TypeOK'
  BY <1>8 DEF SetFolder, TypeOK, Session, session, account
<1>9. CASE \/ SetFolder("data", "setData", "uploads")
           \/ SetFolder("uploads", "setUploads", "mirror")
  BY <1>8, <1>9 DEF Places, Keys
<1>10. CASE Mirror
  BY <1>10 DEF Mirror, TypeOK, Session, account, Places, Nowhere, None
<1>11. CASE Fail
  <2>1. {s.login : s \in client} \subseteq 1..Len(current)
    BY DEF TypeOK, Session
  <2>2. QED
    BY <1>11, <2>1 DEF Fail, TypeOK, Session, account, Places, Nowhere, None
<1>12. CASE Reconfigure
  BY <1>12, NamesAssumption
     DEF Reconfigure, TypeOK, Session, session, account, run, NamesAssumption
<1>13. CASE DeletedInDrive
  BY <1>13, NamesAssumption
     DEF DeletedInDrive, TypeOK, Session, session, run, NamesAssumption
<1>14. QED
  BY <1>1, <1>3, <1>4, <1>5, <1>6, <1>7, <1>9, <1>10, <1>11, <1>12, <1>13

LEMMA NextType ==
  ASSUME TypeOK, [Next]_vars
  PROVE  TypeOK'
<1>1. CASE UNCHANGED vars
  BY <1>1 DEF vars, session, account, run, TypeOK, Session
<1>2. CASE Next
  BY <1>2, LoginType, RotateType, SessionType, FolderType DEF Next
<1>3. QED
  BY <1>1, <1>2

(***************************************************************************)
(* The stored session and the remembered folders are what their columns    *)
(* and fields allow.                                                       *)
(***************************************************************************)
THEOREM TypeCorrect == Spec => []TypeOK
BY InitType, NextType, PTL DEF Spec

-----------------------------------------------------------------------------
(* The stored session *)

\* A login comes with a token of its own and leaves the others' alone.
LEMMA LoginToken ==
  ASSUME TypeOK, TokenInv, Login
  PROVE  TokenInv'
<1> DEFINE n == Len(current) + 1
<1>1. /\ current'[n] = 1
      /\ \A i \in 1..Len(current) : current'[i] = current[i]
  BY NamesAssumption DEF Login, TypeOK, NamesAssumption
<1>2. file' = {[login |-> n, token |-> 1]} /\ UNCHANGED <<client, unsaved, pc>>
  BY DEF Login, run
<1>3. \A c \in client : c.login \in 1..Len(current)
  BY DEF TypeOK, Session
<1>4. StoredSessionLives'
  BY <1>1, <1>2 DEF StoredSessionLives
<1>5. QED
  BY <1>1, <1>2, <1>3, <1>4 DEF TokenInv

\* While the new token is not written, the client is known to hold it.
LEMMA RotateToken ==
  ASSUME TypeOK, TokenInv, Rotate
  PROVE  TokenInv'
<1>1. PICK s \in client :
        /\ current' = [current EXCEPT ![s.login] = @ + 1]
        /\ client' = {[s EXCEPT !.token = @ + 1]}
        /\ s.token = current[s.login]
  BY DEF Rotate
<1>2. s \in Session /\ s.login \in DOMAIN current
  BY DEF TypeOK, Session
<1>3. /\ current'[s.login] = s.token + 1
      /\ \A i \in DOMAIN current : i # s.login => current'[i] = current[i]
  BY <1>1, <1>2
<1>4. /\ [s EXCEPT !.token = @ + 1].login = s.login
      /\ [s EXCEPT !.token = @ + 1].token = s.token + 1
  BY <1>2 DEF Session
<1>5. ~unsaved /\ unsaved' /\ pc' = pc /\ pc # "idle" /\ file' = file /\ lost' = lost
  BY DEF Rotate, run
<1>6. \A f \in file : f.login \in DOMAIN current
  BY DEF TypeOK, Session
<1>7. ASSUME NEW f \in file
      PROVE  \/ f.token = current'[f.login]
             \/ f.login \in lost
             \/ \E c \in client' : c.login = f.login
  <2>1. CASE f.login = s.login
    BY <1>1, <1>4, <2>1
  <2>2. CASE f.login # s.login
    BY <1>3, <1>5, <1>6, <2>2 DEF TokenInv, StoredSessionLives
  <2>3. QED
    BY <2>1, <2>2
<1>8. StoredSessionLives'
  BY <1>5, <1>7 DEF StoredSessionLives
<1>9. QED
  BY <1>1, <1>3, <1>4, <1>5, <1>8 DEF TokenInv

LEMMA NextToken ==
  ASSUME TypeOK, TokenInv, [Next]_vars
  PROVE  TokenInv'
<1>1. CASE Logout \/ Resume
  BY <1>1 DEF Logout, Resume, TokenInv, StoredSessionLives, run
<1>2. CASE Persist \/ PersistFails
  BY <1>2 DEF Persist, PersistFails, TokenInv, StoredSessionLives
<1>3. CASE Mirror \/ Fail
  BY <1>3 DEF Mirror, Fail, At, TokenInv, StoredSessionLives
<1>4. CASE UNCHANGED session /\ (pc' = pc \/ ~unsaved)
  BY <1>4 DEF session, TokenInv, StoredSessionLives
<1>5. CASE UNCHANGED vars
  BY <1>4, <1>5 DEF vars, run
<1>6. CASE \/ Root \/ EnsureDevice \/ SetName \/ SetRoot
           \/ Folder("data", "root", "setData", "uploads")
           \/ SetFolder("data", "setData", "uploads")
           \/ Folder("uploads", "data", "setUploads", "mirror")
           \/ SetFolder("uploads", "setUploads", "mirror")
  BY <1>4, <1>6 DEF Root, EnsureDevice, SetName, SetRoot, Folder, SetFolder, At
<1>7. CASE Reconfigure \/ DeletedInDrive
  BY <1>4, <1>7 DEF Reconfigure, DeletedInDrive, run
<1>8. QED
  BY <1>1, <1>2, <1>3, <1>5, <1>6, <1>7, LoginToken, RotateToken DEF Next

(***************************************************************************)
(* What is stored can be resumed unless a rotation was lost: the hook only *)
(* ever writes the token Proton gave last, and it may write over the login *)
(* of somebody else, never over it with a token that is spent.             *)
(***************************************************************************)
THEOREM StoredSessionStaysGood == Spec => []StoredSessionLives
<1>1. Init => TokenInv
  BY DEF Init, TokenInv, StoredSessionLives
<1>2. TypeOK /\ TokenInv /\ [Next]_vars => TokenInv'
  BY NextToken
<1>3. TokenInv => StoredSessionLives
  BY DEF TokenInv
<1>4. QED
  BY <1>1, <1>2, <1>3, TypeCorrect, PTL DEF Spec

-----------------------------------------------------------------------------
(* Names *)

\* A folder is made only where none of that name is there.
LEMMA FindingTwins ==
  ASSUME TypeOK, NoTwins, NEW under \in Nat, NEW key,
         NEW label \in DeviceNames \cup {"data", "uploads"},
         FindOrMake(under, label, key)
  PROVE  NoTwins'
<1>1. CASE UNCHANGED account
  BY <1>1 DEF account, NoTwins
<1>2. CASE /\ Named(under, label) = {}
           /\ drive' = Append(drive, [under |-> under, label |-> label])
           /\ there' = there \cup {Len(drive) + 1}
  <2> DEFINE new == [under |-> under, label |-> label]
             m == Len(drive) + 1
  <2>1. drive \in Seq(Node) /\ new \in Node /\ there \subseteq 1..Len(drive)
    BY DEF TypeOK, Node
  <2>2. drive'[m] = new /\ \A n \in there : drive'[n] = drive[n]
    BY <1>2, <2>1
  <2>3. \A n \in there : drive[n] # new
    BY <1>2 DEF Named
  <2>4. there' = there \cup {m}
    BY <1>2
  <2> HIDE DEF m, new
  <2>5. SUFFICES ASSUME NEW a \in there \cup {m}, NEW b \in there \cup {m},
                        drive'[a] = drive'[b]
                 PROVE  a = b
    BY <2>4 DEF NoTwins
  <2>6. CASE a \in there /\ b \in there
    BY <2>2, <2>5, <2>6 DEF NoTwins
  <2>7. CASE a = m \/ b = m
    BY <2>2, <2>3, <2>5, <2>7
  <2>8. QED
    BY <2>6, <2>7
<1>3. QED
  BY <1>1, <1>2 DEF FindOrMake

LEMMA NextTwins ==
  ASSUME TypeOK, NoTwins, [Next]_vars
  PROVE  NoTwins'
<1>1. CASE UNCHANGED account
  BY <1>1 DEF account, NoTwins
<1>2. CASE EnsureDevice
  BY <1>2, FindingTwins DEF EnsureDevice, None, TypeOK
<1>3. ASSUME NEW key \in {"data", "uploads"}, NEW under \in Keys, NEW set, NEW next,
             Folder(key, under, set, next)
      PROVE  NoTwins'
  <2>1. found[under] \in Nat
    BY DEF TypeOK, None
  <2>2. QED
    BY <1>1, <1>3, <2>1, FindingTwins DEF Folder
<1>4. CASE \/ Folder("data", "root", "setData", "uploads")
           \/ Folder("uploads", "data", "setUploads", "mirror")
  BY <1>3, <1>4 DEF Keys
<1>5. CASE DeletedInDrive
  BY <1>5 DEF DeletedInDrive, NoTwins
<1>6. CASE UNCHANGED vars
  BY <1>1, <1>6 DEF vars
<1>7. CASE \/ Login \/ Logout \/ Resume \/ Rotate \/ Persist \/ PersistFails
           \/ Root \/ SetName \/ SetRoot \/ Mirror \/ Fail \/ Reconfigure
           \/ SetFolder("data", "setData", "uploads")
           \/ SetFolder("uploads", "setUploads", "mirror")
  BY <1>1, <1>7 DEF Login, Logout, Resume, Rotate, Persist, PersistFails,
                    Root, SetName, SetRoot, Mirror, Fail, Reconfigure, SetFolder
<1>8. QED
  BY <1>2, <1>4, <1>5, <1>6, <1>7 DEF Next

(***************************************************************************)
(* However often a run is interrupted between making a folder and          *)
(* remembering it, there is never a second one of its name.                *)
(***************************************************************************)
THEOREM NamesUnique == Spec => []NoTwins
<1>1. Init => NoTwins
  BY DEF Init, NoTwins
<1>2. TypeOK /\ NoTwins /\ [Next]_vars => NoTwins'
  BY NextTwins
<1>3. QED
  BY <1>1, <1>2, TypeCorrect, PTL DEF Spec

-----------------------------------------------------------------------------
(* The chain of folders *)

\* No id is None, and the labels of devices and of folders differ.
LEMMA Ids ==
  ASSUME TypeOK
  PROVE  /\ None \notin DOMAIN drive
         /\ \A n \in there : n \in DOMAIN drive /\ n # None
         /\ \A k \in Keys : state[k] # None => state[k] \in DOMAIN drive
         /\ \A k \in Keys : found[k] # None => found[k] \in DOMAIN drive
         /\ \A n \in DOMAIN drive : drive[n] \in Node
         /\ "data" \notin DeviceNames /\ "uploads" \notin DeviceNames
BY NamesAssumption DEF TypeOK, None, NamesAssumption

\* What was remembered and found before a folder was made is as it was.
LEMMA Grown ==
  ASSUME TypeOK, NEW under, NEW label, NEW key \in Keys, NEW m,
         FoundAt(under, label, key, m)
  PROVE  /\ m # None
         /\ found'[key] = m /\ \A k \in Keys : k # key => found'[k] = found[k]
         /\ \A k \in Keys : state[k] \in there' => state[k] \in there
         /\ \A k \in Keys : state[k] # None => drive'[state[k]] = drive[state[k]]
         /\ \A k \in Keys : found[k] # None => drive'[found[k]] = drive[found[k]]
<1>1. None \notin DOMAIN drive' /\ m \in DOMAIN drive'
  BY DEF FoundAt, None
<1>2. found \in [Keys -> DOMAIN drive \cup {None}] /\ found' = [found EXCEPT ![key] = m]
  BY DEF FoundAt, TypeOK
<1>3. state \in [Keys -> DOMAIN drive \cup {None}]
  BY DEF TypeOK
<1>4. ASSUME NEW k \in Keys, state[k] \in there'
      PROVE  state[k] \in there
  BY <1>1, <1>3, <1>4 DEF FoundAt
<1>5. QED
  BY <1>1, <1>2, <1>3, <1>4, Ids DEF FoundAt

LEMMA GrownTree ==
  ASSUME TypeOK, TreeInv, NEW under, NEW label, NEW key \in Keys, NEW m,
         FoundAt(under, label, key, m),
         under = None <=> label \in DeviceNames,
         under # None => under \in there,
         label = "data" => drive[under].label \in DeviceNames,
         label = "uploads" => drive[under].label = "data"
  PROVE  TreeInv'
<1>1. /\ drive'[m].under = under /\ drive'[m].label = label
      /\ there \subseteq DOMAIN drive
      /\ \A n \in DOMAIN drive' : n = m \/ n \in DOMAIN drive
  BY DEF FoundAt, TypeOK
<1>2. TreeShape'
  <2> SUFFICES ASSUME NEW n \in DOMAIN drive'
               PROVE  /\ drive'[n].under = None <=> drive'[n].label \in DeviceNames
                      /\ drive'[n].label = "data" =>
                           /\ drive'[n].under \in DOMAIN drive'
                           /\ drive'[drive'[n].under].label \in DeviceNames
                      /\ drive'[n].label = "uploads" =>
                           /\ drive'[n].under \in DOMAIN drive'
                           /\ drive'[drive'[n].under].label = "data"
    BY DEF TreeShape
  <2>1. CASE n \in DOMAIN drive
    BY <2>1 DEF TreeInv, TreeShape, FoundAt
  <2>2. CASE n = m
    BY <1>1, <2>2, Ids DEF FoundAt
  <2>3. QED
    BY <1>1, <2>1, <2>2
<1>3. Closed'
  BY <1>1 DEF TreeInv, Closed, FoundAt
<1>4. QED
  BY <1>2, <1>3 DEF TreeInv

LEMMA GrownUsed ==
  ASSUME TypeOK, UsedInv, NEW under, NEW label, NEW key, NEW m,
         FoundAt(under, label, key, m), UNCHANGED used
  PROVE  UsedInv'
<1>1. UsedMade'
  BY DEF UsedInv, UsedMade, FoundAt
<1>2. ASSUME NEW u \in used
      PROVE  \A k \in Keys : drive'[u.folders[k]] = drive[u.folders[k]]
  BY <1>2 DEF UsedInv, UsedMade, FoundAt
<1>3. FoldersNested'
  BY <1>2 DEF UsedInv, FoldersNested, Nested, Keys
<1>4. QED
  BY <1>1, <1>3 DEF UsedInv

\* A device made or found is remembered by nobody yet.
LEMMA EnsureDeviceChain ==
  ASSUME TypeOK, ChainInv, EnsureDevice
  PROVE  ChainInv'
<1>1. device \in DeviceNames /\ None \in Nat /\ "root" \in Keys
  BY DEF TypeOK, None, Keys
<1>2. PICK m : FoundAt(None, device, "root", m)
  BY <1>1, Finding DEF EnsureDevice
<1>3. /\ pc = "device" /\ pc' = "setName"
      /\ UNCHANGED <<device, state, known, fresh, used, torn>>
  BY DEF EnsureDevice, At
<1>4. TreeInv'
  BY <1>1, <1>2, GrownTree, Ids DEF ChainInv
<1>5. UsedInv'
  BY <1>2, <1>3, GrownUsed DEF ChainInv
<1>6. drive'[m].label = device
  BY <1>2 DEF FoundAt
<1>7. KindInv'
  BY <1>1, <1>2, <1>3, <1>6, Grown DEF ChainInv, KindInv, StateKind, FoundKind, Keys,
       RootFound, DataFound, UploadsFound
<1>8. StateFit'
  BY <1>2, <1>3, Grown, Ids DEF ChainInv, FitInv, StateFit, Moving, Keys
<1>9. FoundSet' /\ FoundFit' /\ Replaced'
  <2>1. found'["root"] = m
    BY <1>1, <1>2, Grown
  <2>2. QED
    BY <1>3, <1>6, <2>1 DEF FoundSet, FoundFit, Replaced,
                            RootSet, DataSet, DataFound, UploadsFound
<1>10. QED
  BY <1>4, <1>5, <1>7, <1>8, <1>9 DEF ChainInv, FitInv

\* A folder that is remembered is one of the chain.
LEMMA RememberedChain ==
  ASSUME TypeOK, ChainInv,
         NEW key \in {"data", "uploads"}, NEW next,
         pc = key, pc' = next,
         key = "data" => next = "uploads", key = "uploads" => next = "mirror",
         Remembered(key, fresh), found' = [found EXCEPT ![key] = state[key]],
         UNCHANGED <<device, state, known, account, fresh, used, torn>>
  PROVE  ChainInv'
<1>1. TreeInv' /\ UsedInv' /\ StateKind'
  BY DEF ChainInv, TreeInv, TreeShape, Closed, UsedInv, UsedMade, FoldersNested, Nested,
         KindInv, StateKind, account
<1>2. /\ ~fresh /\ state[key] \in there /\ state[key] # None
      /\ found'[key] = state[key] /\ key \in Keys
      /\ \A k \in Keys : k # key => found'[k] = found[k]
  BY Ids DEF Remembered, TypeOK, Keys
<1>3. FoundKind'
  BY <1>2 DEF ChainInv, KindInv, StateKind, FoundKind, account, Keys,
              RootFound, DataFound, UploadsFound
<1>4. FoundSet'
  BY <1>2 DEF ChainInv, FitInv, FoundSet, Keys, RootSet, DataSet
<1>5. ~Moving /\ ~Moving' /\ StateFit' /\ Replaced'
  BY <1>2 DEF ChainInv, FitInv, StateFit, Replaced, Moving, account
<1>6. FoundFit'
  BY <1>2, <1>5 DEF ChainInv, FitInv, FoundFit, FoundSet, StateFit, account, Keys,
                    RootSet, DataSet, DataFound, UploadsFound
<1>7. QED
  BY <1>1, <1>3, <1>4, <1>5, <1>6 DEF ChainInv, KindInv, FitInv

\* A folder that is made lies where the run asked for it.
LEMMA MadeChain ==
  ASSUME TypeOK, ChainInv,
         NEW key \in {"data", "uploads"}, NEW under \in Keys, NEW set,
         pc = key, pc' = set,
         key = "data" => under = "root" /\ set = "setData",
         key = "uploads" => under = "data" /\ set = "setUploads",
         ~Remembered(key, fresh), found[under] \in there,
         FindOrMake(found[under], key, key),
         UNCHANGED <<device, state, known, fresh, used, torn>>
  PROVE  ChainInv'
<1>1. found[under] \in Nat /\ found[under] # None /\ key \in Keys
  BY Ids DEF TypeOK, Keys
<1>2. PICK m : FoundAt(found[under], key, key, m)
  BY <1>1, Finding
<1>3. /\ key = "data" => drive[found[under]].label \in DeviceNames
      /\ key = "uploads" => drive[found[under]].label = "data"
  BY DEF ChainInv, KindInv, FoundKind, RootFound, DataFound
<1>4. TreeInv'
  BY <1>1, <1>2, <1>3, GrownTree, Ids DEF ChainInv
<1>5. UsedInv'
  BY <1>2, GrownUsed DEF ChainInv
<1>6. /\ drive'[m].label = key /\ drive'[m].under = found[under]
      /\ m # None /\ found'[key] = m
      /\ \A k \in Keys : k # key => found'[k] = found[k]
      /\ \A k \in Keys : state[k] \in there' => state[k] \in there
      /\ \A k \in Keys : state[k] # None => drive'[state[k]] = drive[state[k]]
      /\ \A k \in Keys : found[k] # None => drive'[found[k]] = drive[found[k]]
  <2>1. drive'[m].label = key /\ drive'[m].under = found[under]
    BY <1>2 DEF FoundAt
  <2>2. m # None /\ found'[key] = m /\ \A k \in Keys : k # key => found'[k] = found[k]
    BY <1>1, <1>2, Grown
  <2>3. \A k \in Keys : state[k] \in there' => state[k] \in there
    BY <1>1, <1>2, Grown
  <2>4. \A k \in Keys : state[k] # None => drive'[state[k]] = drive[state[k]]
    BY <1>1, <1>2, Grown
  <2>5. \A k \in Keys : found[k] # None => drive'[found[k]] = drive[found[k]]
    BY <1>1, <1>2, Grown
  <2>6. QED
    BY <2>1, <2>2, <2>3, <2>4, <2>5
<1>7. StateKind'
  BY <1>6 DEF ChainInv, KindInv, StateKind, Keys
<1>8. FoundKind'
  BY <1>6 DEF ChainInv, KindInv, FoundKind, Keys, RootFound, DataFound, UploadsFound
<1>9. FoundSet'
  BY <1>6 DEF ChainInv, FitInv, FoundSet, Keys, RootSet, DataSet
<1>10. FoundFit'
  BY <1>6 DEF ChainInv, FitInv, FoundFit, KindInv, FoundKind, Keys,
              RootFound, RootSet, DataSet, DataFound, UploadsFound
<1>11. StateFit'
  BY <1>6, Ids DEF ChainInv, FitInv, StateFit, Moving, Keys
<1>12. Replaced'
  BY <1>6 DEF Replaced, Remembered, Keys
<1>13. QED
  BY <1>4, <1>5, <1>7, <1>8, <1>9, <1>10, <1>11, <1>12 DEF ChainInv, KindInv, FitInv

\* The other steps of device_folders make nothing.
LEMMA RootChain ==
  ASSUME TypeOK, ChainInv, Root
  PROVE  ChainInv'
<1>1. /\ pc = "root" /\ fresh' = (known # device)
      /\ UNCHANGED <<device, state, known, account, used, torn>>
  BY DEF Root, At
<1>2. TreeInv' /\ UsedInv' /\ StateKind'
  BY <1>1 DEF ChainInv, TreeInv, TreeShape, Closed, UsedInv, UsedMade, FoldersNested, Nested,
              KindInv, StateKind, account
<1>3. StateFit' /\ Replaced' /\ ~Moving
  BY <1>1, Ids DEF Root, ChainInv, FitInv, StateFit, Replaced, Moving, account
<1>4. CASE pc' = "device"
  BY <1>2, <1>3, <1>4 DEF ChainInv, KindInv, FitInv, FoundKind, FoundSet, FoundFit,
                          RootFound, RootSet, DataSet, DataFound, UploadsFound
<1>5. CASE /\ pc' = "data" /\ Remembered("root", fresh')
           /\ found' = [found EXCEPT !["root"] = state["root"]]
  <2>1. /\ ~fresh' /\ known = device /\ state["root"] \in there
        /\ state["root"] # None /\ found'["root"] = state["root"]
    BY <1>1, <1>5, Ids DEF Remembered, TypeOK, Keys
  <2>2. FoundKind'
    BY <1>1, <1>5, <2>1 DEF ChainInv, KindInv, StateKind, FoundKind, account,
                            RootFound, DataFound, UploadsFound
  <2>3. FoundSet'
    BY <1>1, <1>5, <2>1 DEF FoundSet, RootSet, DataSet
  <2>4. FoundFit'
    BY <1>1, <1>3, <1>5, <2>1 DEF ChainInv, FitInv, StateFit, FoundFit, account,
                                  RootSet, DataFound, UploadsFound
  <2>5. QED
    BY <1>2, <1>3, <2>2, <2>3, <2>4 DEF ChainInv, KindInv, FitInv
<1>6. QED
  BY <1>1, <1>4, <1>5 DEF Root

LEMMA SetRootChain ==
  ASSUME TypeOK, ChainInv, SetName \/ SetRoot
  PROVE  ChainInv'
<1>1. CASE SetName
  <2>1. /\ pc = "setName" /\ pc' = "setRoot" /\ known' = device
        /\ UNCHANGED <<device, state, account, fresh, found, used, torn>>
    BY <1>1 DEF SetName, At
  <2>2. TreeInv' /\ UsedInv' /\ KindInv'
    BY <2>1 DEF ChainInv, TreeInv, TreeShape, Closed, UsedInv, UsedMade, FoldersNested, Nested,
         KindInv, StateKind, FoundKind, account, RootFound, DataFound, UploadsFound
  <2>3. FitInv'
    BY <2>1 DEF ChainInv, FitInv, FoundSet, FoundFit, StateFit, Replaced, Moving, account,
         RootSet, DataSet, DataFound, UploadsFound
  <2>4. QED
    BY <2>2, <2>3 DEF ChainInv
<1>2. CASE SetRoot
  <2>1. /\ pc = "setRoot" /\ pc' = "data" /\ fresh'
        /\ state'["root"] = found["root"]
        /\ state'["data"] = state["data"] /\ state'["uploads"] = state["uploads"]
        /\ UNCHANGED <<device, known, account, found, used, torn>>
    BY <1>2 DEF SetRoot, At, TypeOK, Keys
  <2>2. TreeInv' /\ UsedInv'
    BY <2>1 DEF ChainInv, TreeInv, TreeShape, Closed, UsedInv, UsedMade, FoldersNested, Nested,
                account
  <2>3. KindInv'
    BY <2>1 DEF ChainInv, KindInv, StateKind, FoundKind, account,
                RootFound, DataFound, UploadsFound
  <2>4. FitInv'
    BY <2>1 DEF ChainInv, FitInv, FoundSet, FoundFit, StateFit, Replaced, Moving, account,
         RootSet, DataSet, DataFound, UploadsFound
  <2>5. QED
    BY <2>2, <2>3, <2>4 DEF ChainInv
<1>3. QED
  BY <1>1, <1>2

LEMMA SetFolderChain ==
  ASSUME TypeOK, ChainInv,
         \/ SetFolder("data", "setData", "uploads")
         \/ SetFolder("uploads", "setUploads", "mirror")
  PROVE  ChainInv'
<1>1. UNCHANGED <<device, known, account, fresh, found, used, torn>>
  BY DEF SetFolder
<1>2. TreeInv' /\ UsedInv'
  BY <1>1 DEF ChainInv, TreeInv, TreeShape, Closed, UsedInv, UsedMade, FoldersNested, Nested,
              account
<1>3. CASE SetFolder("data", "setData", "uploads")
  <2>1. /\ pc = "setData" /\ pc' = "uploads"
        /\ state'["data"] = found["data"]
        /\ state'["root"] = state["root"] /\ state'["uploads"] = state["uploads"]
    BY <1>3 DEF SetFolder, At, TypeOK, Keys
  <2>2. KindInv'
    BY <1>1, <2>1 DEF ChainInv, KindInv, StateKind, FoundKind, account,
                      RootFound, DataFound, UploadsFound
  <2>3. FoundSet' /\ FoundFit' /\ Replaced'
    BY <1>1, <2>1 DEF ChainInv, FitInv, FoundSet, FoundFit, Replaced, account,
                      RootSet, DataSet, DataFound, UploadsFound
  <2>4. ASSUME ~torn, ~fresh
        PROVE  state["uploads"] \notin there
    <3>1. state["data"] \notin there /\ ~Moving
      BY <2>1, <2>4 DEF ChainInv, FitInv, Replaced, Moving
    <3>2. ASSUME state["uploads"] \in there
          PROVE  FALSE
      <4>1. /\ drive[state["uploads"]].label = "uploads"
            /\ state["uploads"] \in DOMAIN drive
        BY <3>2, Ids DEF ChainInv, KindInv, StateKind
      <4>2. drive[state["uploads"]].under # None
        BY <4>1, Ids DEF ChainInv, TreeInv, TreeShape
      <4>3. drive[state["uploads"]].under \in there
        BY <3>2, <4>2 DEF ChainInv, TreeInv, Closed
      <4>4. drive[state["uploads"]].under = state["data"]
        BY <2>4, <3>1, <3>2 DEF ChainInv, FitInv, StateFit
      <4>5. QED
        BY <3>1, <4>3, <4>4
    <3>3. QED
      BY <3>2
  <2>5. StateFit'
    BY <1>1, <2>1, <2>4 DEF ChainInv, FitInv, StateFit, FoundFit, FoundSet, Moving, account,
                            RootSet, DataFound
  <2>6. QED
    BY <1>2, <2>2, <2>3, <2>5 DEF ChainInv, FitInv
<1>4. CASE SetFolder("uploads", "setUploads", "mirror")
  <2>1. /\ pc = "setUploads" /\ pc' = "mirror"
        /\ state'["uploads"] = found["uploads"]
        /\ state'["root"] = state["root"] /\ state'["data"] = state["data"]
    BY <1>4 DEF SetFolder, At, TypeOK, Keys
  <2>2. KindInv'
    BY <1>1, <2>1 DEF ChainInv, KindInv, StateKind, FoundKind, account,
                      RootFound, DataFound, UploadsFound
  <2>3. FoundSet' /\ FoundFit' /\ Replaced'
    BY <1>1, <2>1 DEF ChainInv, FitInv, FoundSet, FoundFit, Replaced, account,
                      RootSet, DataSet, DataFound, UploadsFound
  <2>4. StateFit'
    BY <1>1, <2>1 DEF ChainInv, FitInv, StateFit, FoundFit, FoundSet, Moving, account,
                      RootSet, DataSet, DataFound, UploadsFound
  <2>5. QED
    BY <1>2, <2>2, <2>3, <2>4 DEF ChainInv, FitInv
<1>5. QED
  BY <1>3, <1>4

\* A run that is not torn wrote into a chain and leaves one behind.
LEMMA MirrorChain ==
  ASSUME TypeOK, ChainInv, Mirror
  PROVE  ChainInv'
<1>1. /\ pc = "mirror" /\ pc' = "idle" /\ ~fresh'
      /\ torn' = (torn /\ ~fresh)
      /\ used' = {[name |-> device, folders |-> found, torn |-> torn']}
      /\ UNCHANGED <<device, state, known, account>>
  BY DEF Mirror, At
<1>2. TreeInv' /\ KindInv'
  BY <1>1 DEF ChainInv, TreeInv, TreeShape, Closed, KindInv, StateKind, FoundKind, account,
              RootFound, DataFound, UploadsFound
<1>3. FitInv'
  BY <1>1 DEF ChainInv, FitInv, StateFit, FoundFit, FoundSet, Replaced, Moving, account,
              RootSet, DataSet, DataFound, UploadsFound
<1>4. UsedMade'
  BY <1>1, Ids DEF ChainInv, KindInv, FoundKind, UsedMade, account, Keys,
                   RootFound, DataFound, UploadsFound
<1>5. FoldersNested'
  <2> SUFFICES ASSUME NEW u \in used', ~u.torn
               PROVE  Nested(u)'
    BY DEF FoldersNested
  <2>1. u.name = device /\ u.folders = found /\ u.torn = torn'
    BY <1>1
  <2>2. drive' = drive /\ (fresh \/ ~torn)
    BY <1>1, <2>1, Zenon DEF account
  <2>3. /\ drive[found["root"]].label = device
        /\ drive[found["data"]].under = found["root"]
        /\ drive[found["uploads"]].under = found["data"]
    BY <1>1, <2>2 DEF ChainInv, FitInv, FoundFit, RootSet, DataFound, UploadsFound
  <2>4. QED
    BY <2>1, <2>2, <2>3 DEF Nested
<1>6. QED
  BY <1>2, <1>3, <1>4, <1>5 DEF ChainInv, UsedInv

LEMMA FailChain ==
  ASSUME TypeOK, ChainInv, Fail
  PROVE  ChainInv'
<1>1. /\ pc' = "idle" /\ ~fresh' /\ torn' = (torn \/ Moving)
      /\ UNCHANGED <<device, state, known, account, used>>
  BY DEF Fail, Moving
<1>2. TreeInv' /\ KindInv' /\ UsedInv'
  BY <1>1 DEF ChainInv, TreeInv, TreeShape, Closed, KindInv, StateKind, FoundKind, account,
              UsedInv, UsedMade, FoldersNested, Nested, RootFound, DataFound, UploadsFound
<1>3. FitInv'
  BY <1>1 DEF ChainInv, FitInv, StateFit, FoundFit, FoundSet, Replaced, Moving, account,
              RootSet, DataSet, DataFound, UploadsFound
<1>4. QED
  BY <1>2, <1>3 DEF ChainInv

\* What is deleted takes what it holds with it.
LEMMA DeletedChain ==
  ASSUME TypeOK, ChainInv, DeletedInDrive
  PROVE  ChainInv'
<1>1. PICK n \in there :
        there' = {m \in there : /\ m # n /\ drive[m].under # n
                                /\ drive[m].under # None => drive[drive[m].under].under # n}
  BY DEF DeletedInDrive
<1>2. /\ there' \subseteq there
      /\ UNCHANGED <<device, state, known, drive, pc, fresh, found, used, torn>>
  BY <1>1 DEF DeletedInDrive, run
<1>3. ASSUME NEW m \in there', drive[m].under # None
      PROVE  drive[m].under \in there'
  <2> DEFINE up == drive[m].under
  <2>1. /\ m \in there /\ up \in there /\ up # n /\ drive[up].under # n
    BY <1>1, <1>3 DEF ChainInv, TreeInv, Closed
  <2>2. m \in DOMAIN drive /\ up \in DOMAIN drive /\ drive[m] \in Node /\ drive[up] \in Node
    BY <2>1, Ids
  <2>3. drive[m].label \in {"data", "uploads"}
    BY <1>3, <2>2 DEF ChainInv, TreeInv, TreeShape, Node
  <2>4. CASE drive[m].label = "data"
    BY <1>1, <2>1, <2>2, <2>4 DEF ChainInv, TreeInv, TreeShape
  <2>5. CASE drive[m].label = "uploads"
    <3>1. drive[drive[up].under].under = None
      BY <2>2, <2>5 DEF ChainInv, TreeInv, TreeShape
    <3>2. QED
      BY <1>1, <2>1, <3>1, Ids
  <2>6. QED
    BY <2>3, <2>4, <2>5
<1>4. TreeInv'
  BY <1>2, <1>3 DEF ChainInv, TreeInv, TreeShape, Closed
<1>5. KindInv' /\ UsedInv'
  BY <1>2 DEF ChainInv, KindInv, StateKind, FoundKind, UsedInv, UsedMade, FoldersNested, Nested
<1>6. FitInv'
  BY <1>2 DEF ChainInv, FitInv, StateFit, FoundFit, FoundSet, Replaced, Moving
<1>7. QED
  BY <1>4, <1>5, <1>6 DEF ChainInv

LEMMA NextChain ==
  ASSUME TypeOK, ChainInv, [Next]_vars
  PROVE  ChainInv'
<1>1. CASE UNCHANGED <<device, state, known, account, run, used, torn>>
  BY <1>1 DEF ChainInv, TreeInv, TreeShape, Closed, KindInv, StateKind, FoundKind,
       FitInv, FoundSet, FoundFit, StateFit, Replaced, Moving,
       UsedInv, UsedMade, FoldersNested, Nested, account, run
<1>2. CASE \/ Login \/ Logout \/ Rotate \/ Persist \/ PersistFails \/ UNCHANGED vars
  BY <1>1, <1>2 DEF Login, Logout, Rotate, Persist, PersistFails, vars
<1>3. CASE Resume \/ Reconfigure
  <2>1. /\ pc = "idle" /\ pc' \in {"idle", "root"}
        /\ UNCHANGED <<state, known, account, fresh, found, used, torn>>
    BY <1>3 DEF Resume, Reconfigure, run
  <2>2. TreeInv' /\ KindInv' /\ UsedInv'
    BY <2>1 DEF ChainInv, TreeInv, TreeShape, Closed, KindInv, StateKind, FoundKind, account,
                UsedInv, UsedMade, FoldersNested, Nested, RootFound, DataFound, UploadsFound
  <2>3. FitInv'
    BY <2>1 DEF ChainInv, FitInv, StateFit, FoundFit, FoundSet, Replaced, Moving, account,
                RootSet, DataSet, DataFound, UploadsFound
  <2>4. QED
    BY <2>2, <2>3 DEF ChainInv
<1>4. CASE \/ Folder("data", "root", "setData", "uploads")
           \/ Folder("uploads", "data", "setUploads", "mirror")
  BY <1>4, RememberedChain, MadeChain DEF Folder, At, Keys
<1>5. QED
  BY <1>2, <1>3, <1>4, RootChain, EnsureDeviceChain, SetRootChain, SetFolderChain,
     MirrorChain, FailChain, DeletedChain DEF Next

(***************************************************************************)
(* A run writes into the device of its name, into data on it and uploads   *)
(* in that, unless one was stopped half way to another device before it.   *)
(***************************************************************************)
THEOREM ChainOfFolders == Spec => []FoldersNested
<1>1. Init => ChainInv
  <2> SUFFICES ASSUME Init
               PROVE  ChainInv
    OBVIOUS
  <2>1. DOMAIN drive = {} /\ there = {} /\ used = {}
    BY Nothing, Zenon DEF Init
  <2>2. TreeInv /\ UsedInv
    BY <2>1 DEF TreeInv, TreeShape, Closed, UsedInv, UsedMade, FoldersNested
  <2>3. \A k \in Keys : state[k] = None /\ state[k] \notin there
    BY <2>1 DEF Init, Nowhere
  <2>4. KindInv /\ FitInv
    BY <2>3 DEF Init, KindInv, StateKind, FoundKind, FitInv, FoundSet, FoundFit, StateFit,
       Replaced, Moving, Keys, RootFound, RootSet, DataSet, DataFound, UploadsFound
  <2>5. QED
    BY <2>2, <2>4 DEF ChainInv
<1>2. TypeOK /\ ChainInv /\ [Next]_vars => ChainInv'
  BY NextChain
<1>3. ChainInv => FoldersNested
  BY DEF ChainInv, UsedInv
<1>4. QED
  BY <1>1, <1>2, <1>3, TypeCorrect, PTL DEF Spec
=============================================================================
