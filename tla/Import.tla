------------------------------- MODULE Import -------------------------------
(***************************************************************************)
(* The import of a folder: src/src/routes/import.rs beside the handlers of *)
(* NodeTree.  Directories become folders, markdown becomes documents, the  *)
(* rest become files; links between them are rewritten to where they land. *)
(*                                                                         *)
(* Unlike the handlers of NodeTree, build runs in one transaction.  SQLite *)
(* gives a deferred transaction in WAL mode a snapshot at its first SELECT *)
(* and the write lock at its first INSERT, which is refused if anything    *)
(* was committed in between.  From then on no other handler can write the  *)
(* tables, so what the transaction adds is worked out at its commit.  The  *)
(* files it writes are outside of it.                                      *)
(***************************************************************************)
EXTENDS NodeTree, Sequences

CONSTANT Plan
  \* The uploads in the order build takes them, directories first:
  \* [kind, in, name, embeds], where `in` is the place of the directory in
  \* Plan, 0 for the target, and `embeds` are places of files.

Files == {i \in DOMAIN Plan : Plan[i].kind = "file"}
Made == DOMAIN Plan \ Files

ASSUME PlanAssumption ==
  /\ Plan \in Seq([kind : {"folder", "document", "file"}, in : Nat,
                   name : Names, embeds : SUBSET Nat])
  /\ \A i \in DOMAIN Plan :
       /\ Plan[i].in < i
       /\ Plan[i].in # 0 => Plan[Plan[i].in].kind = "folder"
       /\ Plan[i].embeds \subseteq Files
  /\ 1 \in Made            \* the first statement that writes is an INSERT

VARIABLES
  fresh,     \* imports whose snapshot is still what the tables hold
  lock,      \* the import that may write the tables: a set of at most one
  landed,    \* the files each import has written so far: place -> id
  imported,  \* all files imports have written
  cut        \* whether an import was dropped half way

importVars == <<vars, fresh, lock, landed, imported, cut>>
importOwn == <<fresh, lock, landed, imported, cut>>

tables == <<nodes, nextId, links, rows>>

Importing == {"importBegin", "importLock", "importWrite", "importUndo"}

Nowhere == [i \in {} |-> 0]

ImportInit ==
  /\ Init
  /\ fresh = {} /\ lock = {} /\ imported = {}
  /\ landed = [h \in Handlers |-> Nowhere]
  /\ cut = FALSE

Landed(h) == {landed[h][i] : i \in DOMAIN landed[h]}

-----------------------------------------------------------------------------
(* What build adds to the tree *)

\* Node ids are handed out in the order of the plan.
NewId(i) == nextId + Cardinality({j \in Made : j < i})

Parent(h, i) == IF Plan[i].in = 0 THEN local[h].parent ELSE NewId(Plan[i].in)

\* What next_slug may find for the entries in turn: `siblings` holds what the
\* table has under the target, and is extended on the way.
SlugsOf(h) ==
  LET siblings(slug, i) ==
        {slug[j] : j \in {j \in Made : j < i /\ Plan[j].in = Plan[i].in}}
          \cup (IF Plan[i].in = 0 THEN SiblingSlugs(local[h].parent, Null) ELSE {})
  IN  {slug \in [Made -> Slugs] :
         \A i \in Made : slug[i] \in NextSlug(siblings(slug, i), Slugify[Plan[i].name])}

\* rewrite_links: the links of a body point at where the files landed.
Rewritten(h, i) == {landed[h][f] : f \in Plan[i].embeds}

NewRow(h, i, slug) ==
  [parent |-> Parent(h, i), kind |-> Plan[i].kind, name |-> Plan[i].name,
   slug |-> slug[i], body |-> Rewritten(h, i)]

\* A file belongs to each document that embeds it, or else to its folder.
Owners(f) == {i \in Made : f \in Plan[i].embeds}

\* A slip: attaching only what a document embeds.
NewLinksEmbedded(h) ==
  UNION {{NewId(i)} \X Rewritten(h, i) : i \in Made}

NewLinks(h) ==
  UNION {IF Owners(f) = {}
         THEN {<<Parent(h, f), landed[h][f]>>}
         ELSE {<<NewId(i), landed[h][f]>> : i \in Owners(f)} : f \in Files}

-----------------------------------------------------------------------------
(* The handler *)

\* The target as nodes::load returned it, before the upload is read.
ImportStart(h) ==
  /\ Asked(h, "import")
  /\ \E p \in DOMAIN nodes :
       /\ nodes[p].kind # "document"
       /\ Goto(h, "importBegin", [Empty EXCEPT !.parent = p])
  /\ UNCHANGED <<store, importOwn>>

\* begin, and the SELECT of the slugs under the target: the snapshot.
ImportBegin(h) ==
  /\ pc[h] = "importBegin"
  /\ fresh' = fresh \cup {h}
  /\ Goto(h, "importLock", local[h])
  /\ UNCHANGED <<store, lock, landed, imported, cut>>

\* The first INSERT: it waits for the lock, and is refused when the snapshot is
\* no longer the newest or the target is gone from it.
ImportLock(h) ==
  /\ pc[h] = "importLock"
  /\ lock = {}
  /\ nextId + Cardinality(Made) <= MaxNodes + 1
  /\ IF h \in fresh /\ local[h].parent \in DOMAIN nodes
     THEN lock' = {h} /\ Goto(h, "importWrite", local[h])
     ELSE UNCHANGED lock /\ Goto(h, "importUndo", local[h])
  /\ UNCHANGED <<store, fresh, landed, imported, cut>>

\* The next file goes to disk; its row is in the transaction.
ImportFile(h) ==
  /\ pc[h] = "importWrite"
  /\ \E f \in Files \ DOMAIN landed[h], m \in Media \ (listed \cup files \cup imported) :
       /\ \A g \in Files : g < f => g \in DOMAIN landed[h]
       /\ files' = files \cup {m}
       /\ imported' = imported \cup {m}
       /\ landed' = [landed EXCEPT ![h] = [i \in DOMAIN @ \cup {f} |->
                                             IF i = f THEN m ELSE @[i]]]
  /\ changed' = TRUE
  /\ UNCHANGED <<nodes, nextId, links, rows, listed, dirty, pc, local, fresh, lock, cut>>

\* Any statement, any write to the disk or the commit may fail, and next_slug
\* may find no slug: rolled back.
ImportFail(h) ==
  /\ pc[h] \in {"importLock", "importWrite"}
  /\ Goto(h, "importUndo", local[h])
  /\ lock' = lock \ {h}
  /\ UNCHANGED <<store, fresh, landed, imported, cut>>

\* The second pass over links and files, the commit and the signal.
ImportCommit(h) ==
  /\ pc[h] = "importWrite"
  /\ DOMAIN landed[h] = Files
  /\ \E slug \in SlugsOf(h) :
       nodes' = [n \in DOMAIN nodes \cup {NewId(i) : i \in Made} |->
                   IF n \in DOMAIN nodes THEN nodes[n]
                   ELSE NewRow(h, CHOOSE i \in Made : n = NewId(i), slug)]
  /\ nextId' = nextId + Cardinality(Made)
  /\ rows' = rows \cup Landed(h)
  /\ listed' = listed \cup Landed(h)
  /\ links' = links \cup NewLinks(h)
  /\ changed' = TRUE
  /\ Signal
  /\ Return(h)
  /\ landed' = [landed EXCEPT ![h] = Nowhere]
  /\ lock' = {}
  /\ fresh' = {}
  /\ UNCHANGED <<files, imported, cut>>

\* A slip: returning the error before the sweep.
ImportForget(h) ==
  /\ pc[h] = "importUndo"
  /\ Return(h)
  /\ landed' = [landed EXCEPT ![h] = Nowhere]
  /\ UNCHANGED <<store, fresh, lock, imported, cut>>

\* The files a failed import wrote are swept up on the way out.
ImportUndo(h) ==
  /\ pc[h] = "importUndo"
  /\ files' = files \ Landed(h)
  /\ changed' = (changed \/ files' # files)
  /\ Return(h)
  /\ landed' = [landed EXCEPT ![h] = Nowhere]
  /\ UNCHANGED <<nodes, nextId, links, rows, listed, dirty, fresh, lock, imported, cut>>

\* The client hangs up or the server stops: the transaction is rolled back, the
\* sweep does not happen.
ImportCut(h) ==
  /\ Cancellation
  /\ pc[h] \in Importing
  /\ Fail(h)
  /\ cut' = (cut \/ Landed(h) # {})
  /\ landed' = [landed EXCEPT ![h] = Nowhere]
  /\ lock' = lock \ {h}
  /\ UNCHANGED <<fresh, imported>>

ImportStep(h) ==
  \/ ImportStart(h) \/ ImportBegin(h) \/ ImportLock(h) \/ ImportFile(h)
  \/ ImportFail(h) \/ ImportCommit(h) \/ ImportUndo(h) \/ ImportCut(h)

\* Another handler: one that writes the tables waits while the lock is held,
\* and makes every other snapshot an old one.  An id is never drawn twice.
Others ==
  /\ Next
  /\ (files' \ files) \cap imported = {}
  /\ \A h \in Handlers : pc[h] \in Importing => pc'[h] = pc[h]
  /\ lock # {} => tables' = tables
  /\ fresh' = IF tables' = tables THEN fresh ELSE {}
  /\ UNCHANGED <<lock, landed, imported, cut>>

ImportNext == Others \/ \E h \in Handlers : ImportStep(h)

ImportSpec == ImportInit /\ [][ImportNext]_importVars

-----------------------------------------------------------------------------
(* Properties *)

(***************************************************************************)
(* "A failed import writes nothing to the database; the orphans are swept  *)
(* up on the way out" (import.rs:352): a file that an import wrote and     *)
(* that never got a row is one an import under way still holds.            *)
(***************************************************************************)
FailedImportLeavesNothing ==
  ~cut => \A m \in (imported \cap files) \ listed : \E h \in Handlers : m \in Landed(h)

(***************************************************************************)
(* "A file nobody links to still belongs to the folder it was uploaded in, *)
(* or deleting that folder would leave it behind with no way back to it"   *)
(* (import.rs:525): whatever an import lists is attached to a node below,  *)
(* or to, the node it was imported into.                                   *)
(***************************************************************************)
ImportedFilesOwned ==
  [][\A h \in Handlers, p \in DOMAIN nodes :
        ImportCommit(h) /\ local[h].parent = p =>
           \A m \in rows' \ rows : \E n \in Descendants(p)' : <<n, m>> \in links']_importVars
=============================================================================
