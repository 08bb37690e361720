------------------------------ MODULE NodeTree ------------------------------
(***************************************************************************)
(* The node tree and the files its documents embed: the handlers of        *)
(* src/src/routes/nodes.rs and src/src/routes/media.rs over the tables     *)
(* nodes, node_media and media and the uploads directory.                  *)
(*                                                                         *)
(* Every handler is an async function on a pool of connections.  It runs   *)
(* no statement inside a transaction except link_to_node's, so any other   *)
(* handler may run between two of its statements.  A handler is modelled   *)
(* as a process whose label is the statement it will run next and whose    *)
(* locals are what it read so far; one action is one statement, with the   *)
(* synchronous code that follows it.                                       *)
(***************************************************************************)
EXTENDS Naturals, FiniteSets

CONSTANTS
  Handlers,      \* requests that may be in flight together
  Operations,    \* [Handlers -> sets of operations]: what each may be asked
  Names,         \* what a user may type as a name
  Bases,         \* what slugify makes of a name
  Slugify,       \* [Names -> Bases]; two names may share a base
  Media,         \* the upload ids (random, so never issued twice)
  Seed,          \* the tree at the start
  SeedRows,      \* the files stored at the start
  SeedLinks,     \* what the seed documents embed
  MaxNodes,      \* bound: ids handed out
  MaxSuffix,     \* next_slug's "too many siblings" limit
  Cancellation   \* whether a handler may die between two statements

Null == 0        \* parent_id IS NULL

Kinds == {"space", "folder", "document"}

Slugs == Bases \X (1..MaxSuffix)

Row == [parent : Nat, kind : Kinds, name : Names, slug : Slugs,
        body : SUBSET Media]

Labels == {"idle", "createSlug", "createInsert", "link",
           "spaceInsert", "updateSlug", "updateWrite",
           "removeMedia", "removeDelete", "orphanRow", "unlinkFile",
           "moveCheck", "moveName", "moveSlug", "moveWrite",
           "uploadRow", "uploadMore",
           \* handlers of the modules that extend this one
           "closeLink", "closeInsert", "eraseFile", "mkdirInsert",
           "rmdirDelete", "renameWrite",
           "importBegin", "importLock", "importWrite", "importUndo",
           "shareWrite"}

VARIABLES
  nodes,     \* the table nodes: id -> row
  nextId,    \* sqlite's AUTOINCREMENT counter
  links,     \* the table node_media, pairs <<node, media>>
  rows,      \* the ids in the table media
  files,     \* the files in the uploads directory
  listed,    \* ids that have had a row, which a client may therefore hold
  pc,        \* the statement each handler runs next
  local,     \* what each handler holds in its locals
  dirty,     \* Backup::dirty, set by state.backup.signal()
  changed    \* whether the data directory differs from the last mirror

vars == <<nodes, nextId, links, rows, files, listed, pc, local, dirty, changed>>
store == <<nodes, nextId, links, rows, files, listed, dirty, changed>>

ASSUME BoundsAssumption ==
  /\ MaxNodes \in Nat
  /\ MaxSuffix \in Nat \ {0}
  /\ Cancellation \in BOOLEAN
  /\ Names # {}
  /\ Slugify \in [Names -> Bases]

(***************************************************************************)
(* The seed is a tree the handlers could have built: ids count from one,   *)
(* roots are spaces, parents are there and not documents, only stored      *)
(* files are linked.                                                       *)
(***************************************************************************)
ASSUME SeedAssumption ==
  /\ \E k \in 0..MaxNodes : DOMAIN Seed = 1..k
  /\ Seed \in [DOMAIN Seed -> Row]
  /\ \A n \in DOMAIN Seed :
        IF Seed[n].parent = Null
        THEN Seed[n].kind = "space"
        ELSE /\ Seed[n].parent \in DOMAIN Seed
             /\ Seed[Seed[n].parent].kind # "document"
  /\ SeedRows \subseteq Media
  /\ SeedLinks \subseteq (DOMAIN Seed) \X SeedRows

-----------------------------------------------------------------------------
(* Queries *)

Children(p) == {n \in DOMAIN nodes : nodes[n].parent = p}

ChildClosed(S) == \A n \in DOMAIN nodes : nodes[n].parent \in S => n \in S

\* A node and all below it: the recursive query, and what a DELETE cascades to.
Descendants(id) ==
  {n \in DOMAIN nodes :
      /\ id \in DOMAIN nodes
      /\ \A S \in SUBSET DOMAIN nodes :
            (id \in S /\ ChildClosed(S)) => n \in S}

\* The slugs spoken for under p; `except` is the node being renamed.
SiblingSlugs(p, except) == {nodes[n].slug : n \in Children(p) \ {except}}

FreeSuffixes(taken, base) == {i \in 1..MaxSuffix : <<base, i>> \notin taken}

\* base, base-2, base-3 ... : the first that is free, if one is.
NextSlug(taken, base) ==
  LET free == FreeSuffixes(taken, base)
  IN  {<<base, i>> : i \in {i \in free : \A j \in free : i <= j}}

\* A slip: forgetting the documents outside S that embed the file too.
EmbeddedMedia(S) == {m \in Media : \E n \in S : <<n, m>> \in links}

\* The files embedded in S and nowhere outside it.
ExclusiveMedia(S) ==
  {m \in Media : /\ \E n \in S : <<n, m>> \in links
                 /\ \A n \in DOMAIN nodes \ S : <<n, m>> \notin links}

\* The unique index on (parent_id, slug); SQL counts two NULLs as different.
Collides(p, slug, self) == p # Null /\ slug \in SiblingSlugs(p, self)

-----------------------------------------------------------------------------
(* Handlers *)

\* The locals of a handler that holds nothing.
Empty == [id |-> 0, parent |-> 0, kind |-> "document",
          name |-> CHOOSE n \in Names : TRUE,
          slug |-> <<CHOOSE b \in Bases : TRUE, 1>>,
          body |-> {}, subtree |-> {}, media |-> {}, file |-> {}]

Goto(h, label, l) ==
  /\ pc' = [pc EXCEPT ![h] = label]
  /\ local' = [local EXCEPT ![h] = l]

\* A return, with or without an error: the locals are dropped.
Return(h) == Goto(h, "idle", Empty)

Fail(h) == Return(h) /\ UNCHANGED store

Asked(h, op) == pc[h] = "idle" /\ op \in Operations[h]

Signal == dirty' = TRUE

\* A body a client can hold: it embeds ids that were once listed.
Bodies == SUBSET listed

Init ==
  /\ nodes = Seed
  /\ nextId = Cardinality(DOMAIN Seed) + 1
  /\ links = SeedLinks
  /\ rows = SeedRows
  /\ files = SeedRows
  /\ listed = SeedRows
  /\ pc = [h \in Handlers |-> "idle"]
  /\ local = [h \in Handlers |-> Empty]
  /\ dirty = FALSE
  /\ changed = FALSE

(***************************************************************************)
(* nodes::create: the kind of the parent, the free slug, the row, then the *)
(* links of the body in a transaction of their own.                        *)
(***************************************************************************)
CreateStart(h) ==
  /\ Asked(h, "create")
  /\ \E p \in DOMAIN nodes, k \in {"document", "folder"}, n \in Names :
       \E b \in IF k = "document" THEN Bodies ELSE {{}} :
         /\ nodes[p].kind # "document"
         /\ Goto(h, "createSlug", [Empty EXCEPT !.parent = p, !.kind = k,
                                                !.name = n, !.body = b])
  /\ UNCHANGED store

\* unique_slug: a read whose answer is used by a later statement.
ReadSlug(h, from, next, except) ==
  /\ pc[h] = from
  /\ LET l == local[h]
         next_slug == NextSlug(SiblingSlugs(l.parent, except), Slugify[l.name])
     IN \/ \E s \in next_slug : Goto(h, next, [l EXCEPT !.slug = s])
        \/ next_slug = {} /\ Return(h)
  /\ UNCHANGED store

CreateSlug(h) == ReadSlug(h, "createSlug", "createInsert", Null)

\* A slip: INTEGER PRIMARY KEY alone, which counts on from the highest row.
InsertReusing(h, kind) ==
  LET highest == CHOOSE i \in {0} \cup DOMAIN nodes : \A n \in DOMAIN nodes : n <= i
      id == highest + 1
  IN  /\ nextId <= MaxNodes
      /\ nodes' = [n \in DOMAIN nodes \cup {id} |->
                     IF n = id
                     THEN [parent |-> local[h].parent, kind |-> kind,
                           name |-> local[h].name, slug |-> local[h].slug,
                           body |-> local[h].body]
                     ELSE nodes[n]]
      /\ nextId' = nextId + 1
      /\ changed' = TRUE

InsertRow(h, kind) ==
  /\ nextId <= MaxNodes
  /\ nodes' = [n \in DOMAIN nodes \cup {nextId} |->
                 IF n = nextId
                 THEN [parent |-> local[h].parent, kind |-> kind,
                       name |-> local[h].name, slug |-> local[h].slug,
                       body |-> local[h].body]
                 ELSE nodes[n]]
  /\ nextId' = nextId + 1
  /\ changed' = TRUE

CreateInsert(h) ==
  /\ pc[h] = "createInsert"
  /\ LET l == local[h]
         accepted == /\ l.parent \in DOMAIN nodes
                     /\ ~Collides(l.parent, l.slug, Null)
     IN \/ /\ accepted
           /\ InsertRow(h, l.kind)
           /\ Goto(h, "link", [l EXCEPT !.id = nextId])
           /\ UNCHANGED <<links, rows, files, listed, dirty>>
        \/ /\ ~accepted
           /\ Fail(h)

\* A slip: adding the new links and leaving the old ones.
LinkOnly(h) ==
  /\ pc[h] = "link"
  /\ links' = links \cup ({local[h].id} \X (local[h].body \cap rows))
  /\ Signal
  /\ changed' = TRUE
  /\ Return(h)
  /\ UNCHANGED <<nodes, nextId, rows, files, listed>>

\* A slip: returning from create and update without the signal.
LinkSilently(h) ==
  /\ pc[h] = "link"
  /\ links' = {x \in links : x[1] # local[h].id}
  /\ Return(h)
  /\ UNCHANGED <<nodes, nextId, rows, files, listed, dirty, changed>>

\* media::link_to_node, then signal.  A row for a node that is gone breaks the
\* foreign key, and the whole transaction with it.
Link(h) ==
  /\ pc[h] = "link"
  /\ LET n == local[h].id
         found == {n} \X (local[h].body \cap rows)
     IN \/ /\ n \in DOMAIN nodes \/ found = {}
           /\ links' = {x \in links : x[1] # n} \cup found
           /\ Signal
           /\ changed' = (changed \/ links' # links)
           /\ Return(h)
           /\ UNCHANGED <<nodes, nextId, rows, files, listed>>
        \/ /\ n \notin DOMAIN nodes /\ found # {}
           /\ Fail(h)

(***************************************************************************)
(* nodes::create_space.                                                    *)
(***************************************************************************)
SpaceSlug(h) ==
  /\ Asked(h, "space")
  /\ \E n \in Names : \E s \in NextSlug(SiblingSlugs(Null, Null), Slugify[n]) :
       Goto(h, "spaceInsert", [Empty EXCEPT !.name = n, !.slug = s])
  /\ UNCHANGED store

SpaceInsert(h) ==
  /\ pc[h] = "spaceInsert"
  /\ InsertRow(h, "space")
  /\ Signal
  /\ Return(h)
  /\ UNCHANGED <<links, rows, files, listed>>

(***************************************************************************)
(* nodes::update: the row as it is, a new slug if the name differs, the    *)
(* write (which leaves parent_id alone), the links.                        *)
(***************************************************************************)
UpdateStart(h) ==
  /\ Asked(h, "update")
  /\ \E id \in DOMAIN nodes, n \in Names :
       \E b \in IF nodes[id].kind = "document" THEN Bodies ELSE {{}} :
         LET l == [Empty EXCEPT !.id = id, !.name = n, !.body = b,
                                !.parent = nodes[id].parent,
                                !.slug = nodes[id].slug]
         IN  IF n = nodes[id].name
             THEN Goto(h, "updateWrite", l)
             ELSE Goto(h, "updateSlug", l)
  /\ UNCHANGED store

UpdateSlug(h) == ReadSlug(h, "updateSlug", "updateWrite", local[h].id)

UpdateWrite(h) ==
  /\ pc[h] = "updateWrite"
  /\ LET l == local[h]
         accepted == /\ l.id \in DOMAIN nodes
                     /\ ~Collides(nodes[l.id].parent, l.slug, l.id)
     IN \/ /\ accepted
           /\ nodes' = [nodes EXCEPT ![l.id].name = l.name,
                                     ![l.id].slug = l.slug,
                                     ![l.id].body = l.body]
           /\ changed' = TRUE
           /\ Goto(h, "link", l)
           /\ UNCHANGED <<nextId, links, rows, files, listed, dirty>>
        \/ /\ ~accepted
           /\ Fail(h)

(***************************************************************************)
(* nodes::remove: the subtree, the files exclusive to it, the cascading    *)
(* DELETE, then media::delete_media for each of those files.               *)
(***************************************************************************)
RemoveStart(h) ==
  /\ Asked(h, "remove")
  /\ \E id \in DOMAIN nodes :
       Goto(h, "removeMedia", [Empty EXCEPT !.id = id, !.subtree = Descendants(id)])
  /\ UNCHANGED store

RemoveMedia(h) ==
  /\ pc[h] = "removeMedia"
  /\ Goto(h, "removeDelete",
          [local[h] EXCEPT !.media = ExclusiveMedia(local[h].subtree)])
  /\ UNCHANGED store

RemoveDelete(h) ==
  /\ pc[h] = "removeDelete"
  /\ LET l == local[h]
         gone == Descendants(l.id)
     IN \/ /\ l.id \in DOMAIN nodes
           /\ nodes' = [n \in DOMAIN nodes \ gone |-> nodes[n]]
           /\ links' = {x \in links : x[1] \notin gone}
           /\ changed' = TRUE
           /\ IF l.media = {}
              THEN Signal /\ Return(h)
              ELSE Goto(h, "orphanRow", l) /\ UNCHANGED dirty
           /\ UNCHANGED <<nextId, rows, files, listed>>
        \/ /\ l.id \notin DOMAIN nodes
           /\ Fail(h)

\* delete_media, first half: the row goes, and its node_media rows with it.
DeleteRow(m) ==
  /\ rows' = rows \ {m}
  /\ links' = {x \in links : x[2] # m}
  /\ changed' = (changed \/ m \in rows)
  /\ UNCHANGED <<nodes, nextId, files, listed, dirty>>

OrphanRow(h) ==
  /\ pc[h] = "orphanRow"
  /\ \E m \in local[h].media :
       /\ DeleteRow(m)
       /\ Goto(h, "unlinkFile", [local[h] EXCEPT !.media = @ \ {m}, !.file = {m}])

\* A slip: giving up on the files once the rows are gone.
ForgetFile(h) ==
  /\ pc[h] = "unlinkFile"
  /\ Signal /\ Return(h)
  /\ UNCHANGED <<nodes, nextId, links, rows, files, listed, changed>>

\* delete_media, second half; a file already gone is not an error.
UnlinkFile(h) ==
  /\ pc[h] = "unlinkFile"
  /\ files' = files \ local[h].file
  /\ changed' = (changed \/ files' # files)
  /\ IF local[h].media = {}
     THEN Signal /\ Return(h)
     ELSE Goto(h, "orphanRow", [local[h] EXCEPT !.file = {}]) /\ UNCHANGED dirty
  /\ UNCHANGED <<nodes, nextId, links, rows, listed>>

(***************************************************************************)
(* media::remove.                                                          *)
(***************************************************************************)
DeleteMedia(h) ==
  /\ Asked(h, "unlink")
  /\ \E m \in listed :
       /\ DeleteRow(m)
       /\ Goto(h, "unlinkFile", [Empty EXCEPT !.file = {m}])

(***************************************************************************)
(* nodes::move_node: five statements, the last of which writes.            *)
(***************************************************************************)
MoveStart(h) ==
  /\ Asked(h, "move")
  /\ \E id, p \in DOMAIN nodes :
       /\ p # id
       /\ nodes[p].kind # "document"
       /\ Goto(h, "moveCheck", [Empty EXCEPT !.id = id, !.parent = p])
  /\ UNCHANGED store

\* A slip: looking only at the target's own parent.
MoveCheckParent(h) ==
  /\ pc[h] = "moveCheck"
  /\ IF local[h].parent \in Children(local[h].parent)
     THEN Return(h)
     ELSE Goto(h, "moveName", local[h])
  /\ UNCHANGED store

MoveCheck(h) ==
  /\ pc[h] = "moveCheck"
  /\ IF local[h].parent \in Descendants(local[h].id)
     THEN Return(h)
     ELSE Goto(h, "moveName", local[h])
  /\ UNCHANGED store

MoveName(h) ==
  /\ pc[h] = "moveName"
  /\ IF local[h].id \in DOMAIN nodes
     THEN Goto(h, "moveSlug", [local[h] EXCEPT !.name = nodes[local[h].id].name])
     ELSE Return(h)
  /\ UNCHANGED store

MoveSlug(h) == ReadSlug(h, "moveSlug", "moveWrite", local[h].id)

MoveWrite(h) ==
  /\ pc[h] = "moveWrite"
  /\ LET l == local[h]
         refused == l.parent \notin DOMAIN nodes \/ Collides(l.parent, l.slug, l.id)
     IN \/ /\ l.id \in DOMAIN nodes /\ ~refused
           /\ nodes' = [nodes EXCEPT ![l.id].parent = l.parent,
                                     ![l.id].slug = l.slug]
           /\ changed' = TRUE
           /\ Signal
           /\ Return(h)
           /\ UNCHANGED <<nextId, links, rows, files, listed>>
        \/ /\ l.id \in DOMAIN nodes /\ refused
           /\ Fail(h)
        \/ /\ l.id \notin DOMAIN nodes        \* no row matched, no error
           /\ Signal
           /\ Return(h)
           /\ UNCHANGED <<nodes, nextId, links, rows, files, listed, changed>>

(***************************************************************************)
(* media::upload: for each field of the form the file, then its row.  The  *)
(* signal comes after the last field; a later field that is malformed or   *)
(* too large returns an error before it.                                   *)
(***************************************************************************)
\* A slip: the row before the file.
UploadRowFirst(h) ==
  /\ Asked(h, "upload") \/ pc[h] = "uploadMore"
  /\ \E m \in Media \ (listed \cup files) :
       /\ rows' = rows \cup {m}
       /\ listed' = listed \cup {m}
       /\ changed' = TRUE
       /\ Goto(h, "uploadRow", [Empty EXCEPT !.file = {m}])
  /\ UNCHANGED <<nodes, nextId, links, files, dirty>>

UploadFile(h) ==
  /\ Asked(h, "upload") \/ pc[h] = "uploadMore"
  /\ \E m \in Media \ (listed \cup files) :
       /\ files' = files \cup {m}
       /\ changed' = TRUE
       /\ Goto(h, "uploadRow", [Empty EXCEPT !.file = {m}])
  /\ UNCHANGED <<nodes, nextId, links, rows, listed, dirty>>

UploadRow(h) ==
  /\ pc[h] = "uploadRow"
  /\ rows' = rows \cup local[h].file
  /\ listed' = listed \cup local[h].file
  /\ changed' = TRUE
  /\ \/ Signal /\ Return(h)
     \/ UNCHANGED dirty /\ Goto(h, "uploadMore", Empty)
  /\ UNCHANGED <<nodes, nextId, links, files>>

\* The fields still unread are empty and skipped, or one of them is refused.
UploadEnd(h) ==
  /\ pc[h] = "uploadMore"
  /\ \/ Signal /\ UNCHANGED <<nodes, nextId, links, rows, files, listed, changed>>
     \/ UNCHANGED store
  /\ Return(h)

(***************************************************************************)
(* A handler that never finishes: the server stops, the database refuses   *)
(* a statement, or the client hangs up and the handler's future is dropped.*)
(***************************************************************************)
Abandon(h) ==
  /\ Cancellation
  /\ pc[h] # "idle"
  /\ Fail(h)

\* A whole backup run, asked for or scheduled, as far as this module sees it.
Mirror ==
  /\ dirty' = FALSE
  /\ changed' = FALSE
  /\ UNCHANGED <<nodes, nextId, links, rows, files, listed, pc, local>>

Step(h) ==
  \/ CreateStart(h) \/ CreateSlug(h) \/ CreateInsert(h) \/ Link(h)
  \/ SpaceSlug(h) \/ SpaceInsert(h)
  \/ UpdateStart(h) \/ UpdateSlug(h) \/ UpdateWrite(h)
  \/ RemoveStart(h) \/ RemoveMedia(h) \/ RemoveDelete(h)
  \/ OrphanRow(h) \/ UnlinkFile(h) \/ DeleteMedia(h)
  \/ MoveStart(h) \/ MoveCheck(h) \/ MoveName(h) \/ MoveSlug(h) \/ MoveWrite(h)
  \/ UploadFile(h) \/ UploadRow(h) \/ UploadEnd(h)
  \/ Abandon(h)

Next == Mirror \/ \E h \in Handlers : Step(h)

Spec == Init /\ [][Next]_vars

-----------------------------------------------------------------------------
(* Properties *)

LocalType == [id : Nat, parent : Nat, kind : Kinds, name : Names,
              slug : Slugs, body : SUBSET Media, subtree : SUBSET Nat,
              media : SUBSET Media, file : SUBSET Media]

\* The tables, the directory and the locals hold what their columns allow.
TypeOK ==
  /\ nodes \in [DOMAIN nodes -> Row]
  /\ DOMAIN nodes \subseteq 1..(nextId - 1)
  /\ nextId \in 1..(MaxNodes + 1)
  /\ links \subseteq (DOMAIN nodes) \X rows
  /\ rows \subseteq listed /\ listed \subseteq Media /\ files \subseteq Media
  /\ pc \in [Handlers -> Labels]
  /\ local \in [Handlers -> LocalType]
  /\ dirty \in BOOLEAN /\ changed \in BOOLEAN

(***************************************************************************)
(* "Documents are the leaves": whatever the handlers read and however late *)
(* they act on it, no node ends up below a document or below nothing.      *)
(* create and move_node check the kind of the parent several statements    *)
(* before they write.                                                      *)
(***************************************************************************)
DocumentsAreLeaves ==
  \A n \in DOMAIN nodes : nodes[n].parent # Null =>
     /\ nodes[n].parent \in DOMAIN nodes
     /\ nodes[nodes[n].parent].kind # "document"

(***************************************************************************)
(* An id is one node of one kind for ever: no id comes back after its node *)
(* was deleted.  Share links, SFTP handles, drafts in a browser and every  *)
(* handler in flight name nodes by id alone (0006_nodes.sql:8).            *)
(***************************************************************************)
IdentityKept ==
  [][\A n \in (DOMAIN nodes') \cap (1..(nextId - 1)) :
        n \in DOMAIN nodes /\ nodes'[n].kind = nodes[n].kind]_vars

(***************************************************************************)
(* A file that is listed can be served: stream_media finds on disk what it *)
(* found in the table, whatever uploads and deletions are in flight and    *)
(* wherever one of them died.                                              *)
(***************************************************************************)
RowsHaveFiles == rows \subseteq files

(***************************************************************************)
(* A file without a row is one some handler is still working on: nothing   *)
(* is left in the uploads directory by handlers that ran to their end.     *)
(***************************************************************************)
NoStrayFile ==
  \A m \in files \ rows : \E h \in Handlers : m \in local[h].file

(***************************************************************************)
(* The backup is told of every change: a difference from the last mirror   *)
(* is either signalled or made by a handler that has not returned yet.     *)
(***************************************************************************)
ChangesSignalled ==
  changed => dirty \/ \E h \in Handlers : pc[h] # "idle"

(***************************************************************************)
(* Every node hangs below a root (routes/nodes.rs:595: a subtree cut loose *)
(* from every root is one nothing can reach again), while one handler at a *)
(* time moves.  It is false of two: each passes MoveCheck, then both write.*)
(***************************************************************************)
Rooted ==
  \A n \in DOMAIN nodes :
     \E r \in DOMAIN nodes : nodes[r].parent = Null /\ n \in Descendants(r)

(***************************************************************************)
(* To a client the tree changes by whole operations, one at a time: the    *)
(* statements of create, move_node, remove and of an import, which read    *)
(* long before they write, implement TreeContract.  A title, a slug or a   *)
(* body is no part of the tree's shape, and saving one is a stutter.       *)
(***************************************************************************)
Skeleton ==
  [n \in DOMAIN nodes |-> [parent |-> nodes[n].parent, kind |-> nodes[n].kind]]

Contract == INSTANCE TreeContract WITH tree <- Skeleton, used <- 1..(nextId - 1)

WholeOperations == Contract!Spec

Settled(n) == \A h \in Handlers : local[h].id # n

(***************************************************************************)
(* Once nobody is saving it, a document is attached to no file its body no *)
(* longer mentions (routes/media.rs:252: detached files stop being         *)
(* reachable through its share link), while one handler at a time saves.   *)
(* It is false of two: the body of one and the links of the other remain.  *)
(***************************************************************************)
LinksMatchBody ==
  \A x \in links : Settled(x[1]) => x[2] \in nodes[x[1]].body

(***************************************************************************)
(* Deleting a document does not take a file away from another that embeds  *)
(* it (0006_nodes.sql:35): the row of a file a remaining document links to *)
(* is never deleted by remove's clean-up, while one handler at a time      *)
(* saves, moves and removes.  It is false of a save that embeds the file   *)
(* between the RemoveMedia and the OrphanRow of another handler, and of a  *)
(* move out of the subtree between its RemoveStart and its RemoveDelete.   *)
(***************************************************************************)
SharedFilesSurvive ==
  [][\A h \in Handlers : OrphanRow(h) =>
        \A m \in rows \ rows' : \A n \in DOMAIN nodes : <<n, m>> \notin links]_vars

=============================================================================
