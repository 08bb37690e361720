------------------------------ MODULE SftpFiles ------------------------------
(***************************************************************************)
(* The filesystem of src/src/sftp/fs.rs over the node tree: directories    *)
(* are spaces and folders, the files are documents.  A session answers one *)
(* call at a time, next to the web's handlers of NodeTree and to other     *)
(* sessions.  What it holds between two calls is the open handles: a copy  *)
(* of a document's text, which reaches the tree when the handle is closed. *)
(*                                                                         *)
(* A call that is refused before it writes changes nothing, and has no     *)
(* action.  A path is walked one statement at a time; what comes of it is  *)
(* an id, so the walk is one action that finds any directory there is.     *)
(***************************************************************************)
EXTENDS NodeTree

CONSTANT Verbatim   \* [Names -> Bases]: a file name without .md, as a slug

ASSUME VerbatimAssumption == Verbatim \in [Names -> Bases]

VARIABLE held       \* the write handle of each session: a set of at most one

fsVars == <<vars, held>>

\* OpenHandle::Write.  An id of 0 is a file that does not exist yet.
OpenHandle == [id : Nat, parent : Nat, name : Names, buf : SUBSET Media]

Directories == {p \in DOMAIN nodes : nodes[p].kind # "document"}

Documents(p) == {d \in Children(p) : nodes[d].kind = "document"}

\* A file that is not there is known by its name alone.
Absent(p, n) == \A d \in Documents(p) : nodes[d].slug # <<Verbatim[n], 1>>

FsInit == Init /\ held = [h \in Handlers |-> {}]

(***************************************************************************)
(* open for writing: the directory and the document in it, read once.  An  *)
(* existing document is copied or truncated; one that is not there yet is  *)
(* only remembered.  The root holds no files.                              *)
(***************************************************************************)
Open(h) ==
  /\ Asked(h, "edit") /\ held[h] = {}
  /\ \E p \in Directories :
       \/ \E d \in Documents(p) : \E b \in {nodes[d].body, {}} :
            held' = [held EXCEPT ![h] = {[id |-> d, parent |-> p,
                                          name |-> nodes[d].name, buf |-> b]}]
       \/ \E n \in Names :
            /\ Absent(p, n)
            /\ held' = [held EXCEPT ![h] = {[id |-> 0, parent |-> p,
                                             name |-> n, buf |-> {}]}]
  /\ UNCHANGED vars

\* write: the bytes stay in memory.
Write(h) ==
  /\ pc[h] = "idle"
  /\ \E k \in held[h], b \in Bodies :
       held' = [held EXCEPT ![h] = {[k EXCEPT !.buf = b]}]
  /\ UNCHANGED vars

\* The connection ends: what was not closed is gone.
Disconnect(h) ==
  /\ pc[h] = "idle" /\ held[h] # {}
  /\ held' = [held EXCEPT ![h] = {}]
  /\ UNCHANGED vars

\* A slip: putting the document back where it was when it was opened.
CloseInPlace(h) ==
  /\ pc[h] = "idle"
  /\ \E k \in held[h] :
       /\ k.id # 0
       /\ IF k.id \in DOMAIN nodes
          THEN /\ nodes' = [nodes EXCEPT ![k.id].body = k.buf, ![k.id].parent = k.parent]
               /\ changed' = TRUE
          ELSE UNCHANGED <<nodes, changed>>
       /\ Goto(h, "closeLink", [Empty EXCEPT !.id = k.id, !.body = k.buf])
  /\ held' = [held EXCEPT ![h] = {}]
  /\ UNCHANGED <<nextId, links, rows, files, listed, dirty>>

\* close of a document that was there at open: the text is written back by id,
\* to no row at all if the document is gone.
CloseKnown(h) ==
  /\ pc[h] = "idle"
  /\ \E k \in held[h] :
       /\ k.id # 0
       /\ IF k.id \in DOMAIN nodes
          THEN /\ nodes' = [nodes EXCEPT ![k.id].body = k.buf]
               /\ changed' = TRUE
          ELSE UNCHANGED <<nodes, changed>>
       /\ Goto(h, "closeLink", [Empty EXCEPT !.id = k.id, !.body = k.buf])
  /\ held' = [held EXCEPT ![h] = {}]
  /\ UNCHANGED <<nextId, links, rows, files, listed, dirty>>

\* link_to_node with its error ignored, then signal: close says Ok.
CloseLink(h) ==
  /\ pc[h] = "closeLink"
  /\ LET n == local[h].id
         found == {n} \X (local[h].body \cap rows)
     IN  links' = IF n \in DOMAIN nodes
                  THEN {x \in links : x[1] # n} \cup found
                  ELSE links
  /\ changed' = (changed \/ links' # links)
  /\ Signal
  /\ Return(h)
  /\ UNCHANGED <<nodes, nextId, rows, files, listed, held>>

\* What unique_slug finds under p, for the insert or update that follows.
Place(h, label, l, base, except) ==
  \E s \in NextSlug(SiblingSlugs(l.parent, except), base) :
     Goto(h, label, [l EXCEPT !.slug = s])

\* close of a document that was not there at open: only now does it ask for a
\* slug, which starts from the file's name as it was typed.
CloseNew(h) ==
  /\ pc[h] = "idle"
  /\ \E k \in held[h] :
       /\ k.id = 0
       /\ Place(h, "closeInsert",
                [Empty EXCEPT !.parent = k.parent, !.name = k.name, !.body = k.buf],
                Verbatim[k.name], Null)
  /\ held' = [held EXCEPT ![h] = {}]
  /\ UNCHANGED store

\* Whether the database takes a row below local[h].parent.
Accepted(h) == /\ local[h].parent \in DOMAIN nodes \cup {Null}
               /\ ~Collides(local[h].parent, local[h].slug, Null)

CloseInsert(h) ==
  /\ pc[h] = "closeInsert"
  /\ \/ /\ Accepted(h)
        /\ InsertRow(h, "document")
        /\ Goto(h, "closeLink", [local[h] EXCEPT !.id = nextId])
        /\ UNCHANGED <<links, rows, files, listed, dirty>>
     \/ ~Accepted(h) /\ Fail(h)
  /\ UNCHANGED held

(***************************************************************************)
(* remove and rmdir: the entry, then a DELETE that cascades.  rmdir looks  *)
(* for children first.  Neither removes a file a document embedded.        *)
(***************************************************************************)
RemoveLook(h) ==
  /\ Asked(h, "erase")
  /\ \E id \in DOMAIN nodes :
       IF nodes[id].kind = "document"
       THEN Goto(h, "eraseFile", [Empty EXCEPT !.id = id])
       ELSE Children(id) = {} /\ Goto(h, "rmdirDelete", [Empty EXCEPT !.id = id])
  /\ UNCHANGED <<store, held>>

\* The DELETE, which takes what was put into a directory since the look.
Erase(h) ==
  /\ pc[h] \in {"eraseFile", "rmdirDelete"}
  /\ LET gone == Descendants(local[h].id)
     IN  /\ nodes' = [n \in DOMAIN nodes \ gone |-> nodes[n]]
         /\ links' = {x \in links : x[1] \notin gone}
         /\ changed' = (changed \/ gone # {})
  /\ Signal
  /\ Return(h)
  /\ UNCHANGED <<nextId, rows, files, listed, held>>

\* A slip: allowing it there.
MkdirAnywhere(h) ==
  /\ Asked(h, "mkdir")
  /\ \E p \in Directories \cup {Null}, n \in Names :
       Place(h, "mkdirInsert", [Empty EXCEPT !.parent = p, !.name = n],
             Slugify[n], Null)
  /\ UNCHANGED <<store, held>>

\* mkdir: not in the root, which holds spaces and nothing else.
Mkdir(h) ==
  /\ Asked(h, "mkdir")
  /\ \E p \in Directories, n \in Names :
       Place(h, "mkdirInsert", [Empty EXCEPT !.parent = p, !.name = n],
             Slugify[n], Null)
  /\ UNCHANGED <<store, held>>

MkdirInsert(h) ==
  /\ pc[h] = "mkdirInsert"
  /\ \/ /\ Accepted(h)
        /\ InsertRow(h, "folder")
        /\ Signal
        /\ Return(h)
        /\ UNCHANGED <<links, rows, files, listed>>
     \/ ~Accepted(h) /\ Fail(h)
  /\ UNCHANGED held

\* A slip: taking any entry for a directory.
RenameOnto(h) ==
  /\ Asked(h, "rename")
  /\ \E id \in DOMAIN nodes, p \in DOMAIN nodes, n \in Names :
       Place(h, "renameWrite",
             [Empty EXCEPT !.id = id, !.parent = p, !.name = n], Slugify[n], id)
  /\ UNCHANGED <<store, held>>

(***************************************************************************)
(* rename: any entry to any directory, with no check of its kind and none  *)
(* against its own subtree.                                                *)
(***************************************************************************)
Rename(h) ==
  /\ Asked(h, "rename")
  /\ \E id \in DOMAIN nodes, p \in Directories, n \in Names :
       Place(h, "renameWrite",
             [Empty EXCEPT !.id = id, !.parent = p, !.name = n], Slugify[n], id)
  /\ UNCHANGED <<store, held>>

RenameWrite(h) ==
  /\ pc[h] = "renameWrite"
  /\ LET l == local[h]
         here == l.id \in DOMAIN nodes
         refused == l.parent \notin DOMAIN nodes \/ Collides(l.parent, l.slug, l.id)
     IN IF here /\ refused
        THEN Fail(h)
        ELSE /\ nodes' = IF here
                         THEN [nodes EXCEPT ![l.id].parent = l.parent,
                                            ![l.id].name = l.name,
                                            ![l.id].slug = l.slug]
                         ELSE nodes
             /\ changed' = (changed \/ here)
             /\ Signal
             /\ Return(h)
             /\ UNCHANGED <<nextId, links, rows, files, listed>>
  /\ UNCHANGED held

Call(h) ==
  \/ Open(h) \/ Write(h) \/ Disconnect(h)
  \/ CloseKnown(h) \/ CloseLink(h) \/ CloseNew(h) \/ CloseInsert(h)
  \/ RemoveLook(h) \/ Erase(h) \/ Mkdir(h) \/ MkdirInsert(h)
  \/ Rename(h) \/ RenameWrite(h)

FsNext == (Next /\ UNCHANGED held) \/ \E h \in Handlers : Call(h)

FsSpec == FsInit /\ [][FsNext]_fsVars

-----------------------------------------------------------------------------
(* Properties *)

\* The tree's types, and the handles sessions hold open.
FsTypeOK == TypeOK /\ held \in [Handlers -> SUBSET OpenHandle]

(***************************************************************************)
(* "The root holds the spaces and nothing else" (fs.rs:130), whichever of  *)
(* web and SFTP placed a node and whatever became of the directory they    *)
(* had found by then.                                                      *)
(***************************************************************************)
RootHoldsSpaces ==
  \A n \in DOMAIN nodes : nodes[n].parent = Null => nodes[n].kind = "space"

(***************************************************************************)
(* A handle outlives what it was opened on: the document may be renamed,   *)
(* moved or deleted before close.  Closing it then gives back its text and *)
(* nothing else: no node appears, none returns to where it was.            *)
(***************************************************************************)
Shape(n) == [nodes[n] EXCEPT !.body = {}]

LateCloseKeepsShape ==
  [][\A h \in Handlers : CloseKnown(h) =>
        DOMAIN nodes' = DOMAIN nodes /\ \A n \in DOMAIN nodes : Shape(n)' = Shape(n)]_fsVars
=============================================================================
