--------------------------- MODULE NodeTreeProofs ---------------------------
(***************************************************************************)
(* Proofs about NodeTree, for any tree, any number of requests in flight   *)
(* and any number of files.  Types, identity, leaves and files are proved  *)
(* with handlers dying between two statements; where a theorem says that   *)
(* no handler dies, or that one at a time saves or moves, that is a        *)
(* hypothesis the property needs.                                          *)
(***************************************************************************)
EXTENDS NodeTree, FiniteSetTheorems, TLAPS

-----------------------------------------------------------------------------
(* What the queries return *)

\* next_slug returns a free slug, the first.
LEMMA NextSlugFree ==
  ASSUME NEW taken, NEW base \in Bases, NEW s \in NextSlug(taken, base)
  PROVE  s \in Slugs \ taken
<1>1. PICK i \in FreeSuffixes(taken, base) : s = <<base, i>>
  BY DEF NextSlug
<1>2. QED
  BY <1>1 DEF FreeSuffixes, Slugs

\* A subtree contains its root and, with a node, the node's children.
LEMMA SubtreeClosed ==
  ASSUME NEW id \in DOMAIN nodes
  PROVE  /\ id \in Descendants(id)
         /\ \A n \in DOMAIN nodes :
               nodes[n].parent \in Descendants(id) => n \in Descendants(id)
  BY DEF Descendants, ChildClosed

LEMMA SubtreeOfNodes == ASSUME NEW id PROVE Descendants(id) \subseteq DOMAIN nodes
  BY DEF Descendants

-----------------------------------------------------------------------------
(* Type correctness *)

LEMMA EmptyType == Empty \in LocalType
  BY BoundsAssumption DEF BoundsAssumption, Empty, LocalType, Kinds, Slugs

LEMMA GotoType ==
  ASSUME TypeOK, NEW h \in Handlers, NEW label \in Labels, NEW l \in LocalType,
         Goto(h, label, l)
  PROVE  pc' \in [Handlers -> Labels] /\ local' \in [Handlers -> LocalType]
  BY DEF TypeOK, Goto

LEMMA ReturnType ==
  ASSUME TypeOK, NEW h \in Handlers, Return(h)
  PROVE  pc' \in [Handlers -> Labels] /\ local' \in [Handlers -> LocalType]
  BY GotoType, EmptyType DEF Return, Labels

StoreType ==
  /\ nodes \in [DOMAIN nodes -> Row]
  /\ DOMAIN nodes \subseteq 1..(nextId - 1)
  /\ nextId \in 1..(MaxNodes + 1)
  /\ links \subseteq (DOMAIN nodes) \X rows
  /\ rows \subseteq listed /\ listed \subseteq Media /\ files \subseteq Media
  /\ dirty \in BOOLEAN /\ changed \in BOOLEAN

LEMMA StoreKept == TypeOK /\ UNCHANGED store => StoreType'
  BY DEF TypeOK, StoreType, store

LEMMA ReadSlugType ==
  ASSUME TypeOK, NEW h \in Handlers, NEW from, NEW next \in Labels, NEW except,
         ReadSlug(h, from, next, except)
  PROVE  TypeOK'
<1>1. StoreType'
  BY StoreKept DEF ReadSlug
<1>2. CASE Return(h)
  BY <1>1, <1>2, ReturnType DEF StoreType, TypeOK
<1>3. ASSUME NEW s \in NextSlug(SiblingSlugs(local[h].parent, except),
                                Slugify[local[h].name]),
             Goto(h, next, [local[h] EXCEPT !.slug = s])
      PROVE  TypeOK'
  <2>1. local[h] \in LocalType
    BY DEF TypeOK
  <2>2. Slugify[local[h].name] \in Bases
    BY <2>1, BoundsAssumption DEF BoundsAssumption, LocalType
  <2>3. s \in Slugs
    BY <2>2, <1>3, NextSlugFree
  <2>4. [local[h] EXCEPT !.slug = s] \in LocalType
    BY <2>1, <2>3 DEF LocalType
  <2>5. QED
    BY <1>1, <1>3, <2>4, GotoType DEF StoreType, TypeOK
<1>4. QED
  BY <1>2, <1>3 DEF ReadSlug

LEMMA InsertRowType ==
  ASSUME TypeOK, NEW h \in Handlers, NEW kind \in Kinds, InsertRow(h, kind)
  PROVE  /\ nodes' \in [DOMAIN nodes' -> Row]
         /\ DOMAIN nodes' = DOMAIN nodes \cup {nextId}
         /\ DOMAIN nodes' \subseteq 1..(nextId' - 1)
         /\ nextId' \in 1..(MaxNodes + 1)
         /\ changed' \in BOOLEAN
<1>1. local[h] \in LocalType
  BY DEF TypeOK
<1>2. [parent |-> local[h].parent, kind |-> kind, name |-> local[h].name,
       slug |-> local[h].slug, body |-> local[h].body] \in Row
  BY <1>1 DEF LocalType, Row
<1>3. DOMAIN nodes' = DOMAIN nodes \cup {nextId}
  BY DEF InsertRow
<1>4. nodes' \in [DOMAIN nodes' -> Row]
  BY <1>2, <1>3 DEF InsertRow, TypeOK
<1>5. nextId' \in 1..(MaxNodes + 1) /\ DOMAIN nodes' \subseteq 1..(nextId' - 1)
  BY <1>3, BoundsAssumption DEF InsertRow, TypeOK, BoundsAssumption
<1>6. QED
  BY <1>3, <1>4, <1>5 DEF InsertRow

\* The steps that only read, and the ends of handlers that fail.
LEMMA ReadType ==
  ASSUME TypeOK, NEW h \in Handlers, UNCHANGED store,
         NEW label \in Labels, NEW l \in LocalType,
         Goto(h, label, l) \/ Return(h)
  PROVE  TypeOK'
  BY StoreKept, GotoType, ReturnType DEF StoreType, TypeOK

LEMMA StartType ==
  ASSUME TypeOK, NEW h \in Handlers,
         \/ CreateStart(h) \/ SpaceSlug(h) \/ UpdateStart(h)
         \/ RemoveStart(h) \/ MoveStart(h)
  PROVE  TypeOK'
<1> USE EmptyType
<1>0. Bodies \subseteq SUBSET Media /\ {} \in SUBSET Media
  BY DEF Bodies, TypeOK
<1>1. CASE CreateStart(h)
  <2>1. PICK p \in DOMAIN nodes, k \in {"document", "folder"}, n \in Names,
             b \in SUBSET Media :
               Goto(h, "createSlug", [Empty EXCEPT !.parent = p, !.kind = k,
                                                   !.name = n, !.body = b])
    BY <1>0, <1>1 DEF CreateStart
  <2>2. p \in Nat /\ k \in Kinds
    BY DEF TypeOK, Kinds
  <2>3. [Empty EXCEPT !.parent = p, !.kind = k, !.name = n, !.body = b] \in LocalType
    BY <2>2 DEF LocalType
  <2>4. QED
    BY <1>1, <2>1, <2>3, ReadType DEF CreateStart, Labels
<1>2. CASE SpaceSlug(h)
  <2>1. PICK n \in Names : \E s \in NextSlug(SiblingSlugs(Null, Null), Slugify[n]) :
               Goto(h, "spaceInsert", [Empty EXCEPT !.name = n, !.slug = s])
    BY <1>2 DEF SpaceSlug
  <2>2. PICK s \in NextSlug(SiblingSlugs(Null, Null), Slugify[n]) :
               Goto(h, "spaceInsert", [Empty EXCEPT !.name = n, !.slug = s])
    BY <2>1
  <2>3. s \in Slugs
    BY NextSlugFree, BoundsAssumption DEF BoundsAssumption
  <2>4. [Empty EXCEPT !.name = n, !.slug = s] \in LocalType
    BY <2>3 DEF LocalType
  <2>5. QED
    BY <1>2, <2>2, <2>4, ReadType DEF SpaceSlug, Labels
<1>3. CASE UpdateStart(h)
  <2>1. PICK id \in DOMAIN nodes, n \in Names, b \in SUBSET Media,
             label \in {"updateWrite", "updateSlug"} :
               Goto(h, label, [Empty EXCEPT !.id = id, !.name = n, !.body = b,
                                            !.parent = nodes[id].parent,
                                            !.slug = nodes[id].slug])
    <3>1. PICK id \in DOMAIN nodes, n \in Names :
            \E b \in IF nodes[id].kind = "document" THEN Bodies ELSE {{}} :
              LET l == [Empty EXCEPT !.id = id, !.name = n, !.body = b,
                                     !.parent = nodes[id].parent,
                                     !.slug = nodes[id].slug]
              IN  IF n = nodes[id].name
                  THEN Goto(h, "updateWrite", l)
                  ELSE Goto(h, "updateSlug", l)
      BY <1>3 DEF UpdateStart
    <3>2. PICK b \in SUBSET Media :
              LET l == [Empty EXCEPT !.id = id, !.name = n, !.body = b,
                                     !.parent = nodes[id].parent,
                                     !.slug = nodes[id].slug]
              IN  IF n = nodes[id].name
                  THEN Goto(h, "updateWrite", l)
                  ELSE Goto(h, "updateSlug", l)
      BY <1>0, <3>1
    <3>3. QED
      BY <3>2
  <2>2. id \in Nat /\ nodes[id].parent \in Nat /\ nodes[id].slug \in Slugs
    BY DEF TypeOK, Row
  <2>3. [Empty EXCEPT !.id = id, !.name = n, !.body = b,
                      !.parent = nodes[id].parent,
                      !.slug = nodes[id].slug] \in LocalType
    BY <2>2 DEF LocalType
  <2>4. QED
    <3>1. label \in Labels
      BY <2>1 DEF Labels
    <3>2. UNCHANGED store
      BY <1>3 DEF UpdateStart
    <3>3. QED
      BY <2>1, <2>3, <3>1, <3>2, ReadType
<1>4. CASE RemoveStart(h)
  <2>1. PICK id \in DOMAIN nodes :
          Goto(h, "removeMedia", [Empty EXCEPT !.id = id, !.subtree = Descendants(id)])
    BY <1>4 DEF RemoveStart
  <2>2. id \in Nat /\ Descendants(id) \in SUBSET Nat
    BY SubtreeOfNodes DEF TypeOK
  <2>3. [Empty EXCEPT !.id = id, !.subtree = Descendants(id)] \in LocalType
    BY <2>2 DEF LocalType
  <2>4. QED
    BY <1>4, <2>1, <2>3, ReadType DEF RemoveStart, Labels
<1>5. CASE MoveStart(h)
  <2>1. PICK id \in DOMAIN nodes, p \in DOMAIN nodes :
          Goto(h, "moveCheck", [Empty EXCEPT !.id = id, !.parent = p])
    BY <1>5 DEF MoveStart
  <2>2. id \in Nat /\ p \in Nat
    BY DEF TypeOK
  <2>3. [Empty EXCEPT !.id = id, !.parent = p] \in LocalType
    BY <2>2 DEF LocalType
  <2>4. QED
    BY <1>5, <2>1, <2>3, ReadType DEF MoveStart, Labels
<1>6. QED
  BY <1>1, <1>2, <1>3, <1>4, <1>5

LEMMA LookType ==
  ASSUME TypeOK, NEW h \in Handlers,
         \/ RemoveMedia(h) \/ MoveCheck(h) \/ MoveName(h) \/ Abandon(h)
  PROVE  TypeOK'
<1>1. local[h] \in LocalType /\ Empty \in LocalType
  BY EmptyType DEF TypeOK
<1>2. CASE RemoveMedia(h)
  <2>1. [local[h] EXCEPT !.media = ExclusiveMedia(local[h].subtree)] \in LocalType
    BY <1>1 DEF LocalType, ExclusiveMedia
  <2>2. QED
    BY <1>2, <2>1, ReadType DEF RemoveMedia, Labels
<1>3. CASE MoveCheck(h)
  BY <1>1, <1>3, ReadType DEF MoveCheck, Labels
<1>4. CASE MoveName(h)
  <2>1. CASE local[h].id \in DOMAIN nodes
    <3>1. [local[h] EXCEPT !.name = nodes[local[h].id].name] \in LocalType
      BY <1>1, <2>1 DEF LocalType, TypeOK, Row
    <3>2. QED
      BY <1>4, <2>1, <3>1, ReadType DEF MoveName, Labels
  <2>2. CASE local[h].id \notin DOMAIN nodes
    BY <1>1, <1>4, <2>2, ReadType DEF MoveName, Labels
  <2>3. QED
    BY <2>1, <2>2
<1>5. CASE Abandon(h)
  BY <1>1, <1>5, ReadType DEF Abandon, Fail, Labels
<1>6. QED
  BY <1>2, <1>3, <1>4, <1>5

\* The steps that write the tables nodes and node_media.
LEMMA TreeWriteType ==
  ASSUME TypeOK, NEW h \in Handlers,
         \/ CreateInsert(h) \/ SpaceInsert(h) \/ UpdateWrite(h) \/ MoveWrite(h)
         \/ RemoveDelete(h) \/ Link(h)
  PROVE  TypeOK'
<1>1. local[h] \in LocalType /\ Empty \in LocalType
  BY EmptyType DEF TypeOK
<1>2. CASE Fail(h)
  BY <1>1, <1>2, ReadType DEF Fail, Labels
<1>3. ASSUME NEW kind \in Kinds, InsertRow(h, kind),
             UNCHANGED <<links, rows, files, listed>>, dirty' \in BOOLEAN,
             pc' \in [Handlers -> Labels], local' \in [Handlers -> LocalType]
      PROVE  TypeOK'
  BY <1>3, InsertRowType DEF TypeOK
<1>4. CASE CreateInsert(h)
  <2>1. SUFFICES ASSUME ~Fail(h) PROVE TypeOK'
    BY <1>2
  <2>2. /\ InsertRow(h, local[h].kind)
        /\ Goto(h, "link", [local[h] EXCEPT !.id = nextId])
        /\ UNCHANGED <<links, rows, files, listed, dirty>>
    BY <1>4, <2>1 DEF CreateInsert
  <2>3. [local[h] EXCEPT !.id = nextId] \in LocalType /\ local[h].kind \in Kinds
    BY <1>1, BoundsAssumption DEF LocalType, TypeOK, BoundsAssumption
  <2>4. QED
    BY <1>3, <2>2, <2>3, GotoType DEF TypeOK, Labels
<1>5. CASE SpaceInsert(h)
  BY <1>3, <1>5, ReturnType DEF SpaceInsert, Signal, Kinds
<1>6. CASE UpdateWrite(h)
  <2>1. SUFFICES ASSUME ~Fail(h) PROVE TypeOK'
    BY <1>2
  <2>2. /\ local[h].id \in DOMAIN nodes
        /\ nodes' = [nodes EXCEPT ![local[h].id].name = local[h].name,
                                  ![local[h].id].slug = local[h].slug,
                                  ![local[h].id].body = local[h].body]
        /\ changed' = TRUE
        /\ Goto(h, "link", local[h])
        /\ UNCHANGED <<nextId, links, rows, files, listed, dirty>>
    BY <1>6, <2>1 DEF UpdateWrite
  <2>3. nodes' \in [DOMAIN nodes -> Row] /\ DOMAIN nodes' = DOMAIN nodes
    <3>1. /\ local[h].name \in Names /\ local[h].slug \in Slugs
          /\ local[h].body \in SUBSET Media
      BY <1>1 DEF LocalType
    <3>2. nodes \in [DOMAIN nodes -> Row]
      BY DEF TypeOK
    <3>3. QED
      BY <2>2, <3>1, <3>2 DEF Row
  <2>4. QED
    BY <1>1, <2>2, <2>3, GotoType DEF TypeOK, Labels
<1>7. CASE MoveWrite(h)
  <2>1. CASE /\ nodes' = [nodes EXCEPT ![local[h].id].parent = local[h].parent,
                                       ![local[h].id].slug = local[h].slug]
             /\ changed' = TRUE
             /\ Signal
             /\ Return(h)
             /\ UNCHANGED <<nextId, links, rows, files, listed>>
    <3>1. nodes' \in [DOMAIN nodes -> Row] /\ DOMAIN nodes' = DOMAIN nodes
      <4>1. local[h].parent \in Nat /\ local[h].slug \in Slugs
        BY <1>1 DEF LocalType
      <4>2. nodes \in [DOMAIN nodes -> Row]
        BY DEF TypeOK
      <4>3. QED
        BY <2>1, <4>1, <4>2 DEF Row
    <3>2. QED
      BY <2>1, <3>1, ReturnType DEF TypeOK, Signal
  <2>2. CASE /\ Signal
             /\ Return(h)
             /\ UNCHANGED <<nodes, nextId, links, rows, files, listed, changed>>
    BY <2>2, ReturnType DEF TypeOK, Signal
  <2>3. QED
    BY <1>2, <1>7, <2>1, <2>2 DEF MoveWrite
<1>8. CASE RemoveDelete(h)
  <2>1. SUFFICES ASSUME ~Fail(h) PROVE TypeOK'
    BY <1>2
  <2>2. PICK gone : /\ nodes' = [n \in DOMAIN nodes \ gone |-> nodes[n]]
                    /\ links' = {x \in links : x[1] \notin gone}
    BY <1>8, <2>1 DEF RemoveDelete
  <2>3. /\ changed' = TRUE /\ UNCHANGED <<nextId, rows, files, listed>>
        /\ \/ Signal /\ Return(h)
           \/ Goto(h, "orphanRow", local[h]) /\ UNCHANGED dirty
    BY <1>8, <2>1 DEF RemoveDelete
  <2>4. nodes' \in [DOMAIN nodes' -> Row] /\ DOMAIN nodes' = DOMAIN nodes \ gone
    BY <2>2 DEF TypeOK
  <2>5. links' \subseteq (DOMAIN nodes') \X rows'
    <3>1. ASSUME NEW x \in links' PROVE x \in (DOMAIN nodes') \X rows'
      <4>1. x \in (DOMAIN nodes) \X rows /\ x[1] \notin gone /\ rows' = rows
        BY <2>2, <2>3 DEF TypeOK
      <4>2. QED
        BY <2>4, <4>1
    <3>2. QED
      BY <3>1
  <2>6. /\ pc' \in [Handlers -> Labels] /\ local' \in [Handlers -> LocalType]
        /\ dirty' \in BOOLEAN
    BY <1>1, <2>3, ReturnType, GotoType DEF TypeOK, Labels, Signal
  <2>7. /\ DOMAIN nodes' \subseteq 1..(nextId' - 1) /\ nextId' \in 1..(MaxNodes + 1)
        /\ rows' \subseteq listed' /\ listed' \subseteq Media /\ files' \subseteq Media
        /\ changed' \in BOOLEAN
    BY <2>3, <2>4 DEF TypeOK
  <2>8. QED
    BY <2>4, <2>5, <2>6, <2>7 DEF TypeOK
<1>9. CASE Link(h)
  <2>1. SUFFICES ASSUME ~Fail(h) PROVE TypeOK'
    BY <1>2
  <2> DEFINE found == {local[h].id} \X (local[h].body \cap rows)
  <2>3. /\ local[h].id \in DOMAIN nodes \/ found = {}
        /\ links' = {x \in links : x[1] # local[h].id} \cup found
        /\ Signal /\ Return(h)
        /\ changed' = (changed \/ links' # links)
        /\ UNCHANGED <<nodes, nextId, rows, files, listed>>
    BY <1>9, <2>1 DEF Link
  <2>4. found \subseteq (DOMAIN nodes) \X rows
    <3>1. CASE local[h].id \in DOMAIN nodes
      BY <3>1
    <3>2. CASE found = {}
      BY <3>2
    <3>3. QED
      BY <2>3, <3>1, <3>2
  <2>5. QED
    BY <2>3, <2>4, ReturnType DEF TypeOK, Signal
<1>10. QED
  BY <1>4, <1>5, <1>6, <1>7, <1>8, <1>9

\* The steps that write the table media and the uploads directory.
LEMMA FileWriteType ==
  ASSUME TypeOK, NEW h \in Handlers,
         \/ OrphanRow(h) \/ UnlinkFile(h) \/ DeleteMedia(h)
         \/ UploadFile(h) \/ UploadRow(h) \/ UploadEnd(h)
  PROVE  TypeOK'
<1>1. local[h] \in LocalType /\ Empty \in LocalType
  BY EmptyType DEF TypeOK
<1>2. ASSUME NEW m \in Media, DeleteRow(m), NEW l \in LocalType,
             Goto(h, "unlinkFile", l)
      PROVE  TypeOK'
  BY <1>2, GotoType DEF DeleteRow, TypeOK, Labels
<1>3. CASE OrphanRow(h)
  <2>1. PICK m \in local[h].media :
          /\ DeleteRow(m)
          /\ Goto(h, "unlinkFile", [local[h] EXCEPT !.media = @ \ {m}, !.file = {m}])
    BY <1>3 DEF OrphanRow
  <2>2. m \in Media /\ [local[h] EXCEPT !.media = @ \ {m}, !.file = {m}] \in LocalType
    BY <1>1 DEF LocalType
  <2>3. QED
    BY <1>2, <2>1, <2>2
<1>4. CASE DeleteMedia(h)
  <2>1. PICK m \in listed : DeleteRow(m) /\ Goto(h, "unlinkFile", [Empty EXCEPT !.file = {m}])
    BY <1>4 DEF DeleteMedia
  <2>2. m \in Media /\ [Empty EXCEPT !.file = {m}] \in LocalType
    BY <1>1 DEF LocalType, TypeOK
  <2>3. QED
    BY <1>2, <2>1, <2>2
<1>5. CASE UnlinkFile(h)
  <2>1. [local[h] EXCEPT !.file = {}] \in LocalType
    BY <1>1 DEF LocalType
  <2>2. /\ pc' \in [Handlers -> Labels] /\ local' \in [Handlers -> LocalType]
        /\ dirty' \in BOOLEAN
    BY <1>5, <2>1, ReturnType, GotoType DEF UnlinkFile, Signal, Labels, TypeOK
  <2>3. QED
    BY <1>5, <2>2 DEF UnlinkFile, TypeOK
<1>6. CASE UploadFile(h)
  <2>1. PICK m \in Media : files' = files \cup {m} /\ Goto(h, "uploadRow", [Empty EXCEPT !.file = {m}])
    BY <1>6 DEF UploadFile
  <2>2. [Empty EXCEPT !.file = {m}] \in LocalType
    BY <1>1 DEF LocalType
  <2>3. QED
    BY <1>6, <2>1, <2>2, GotoType DEF UploadFile, TypeOK, Labels
<1>7. CASE UploadRow(h)
  <2>1. local[h].file \subseteq Media
    BY <1>1 DEF LocalType
  <2>2. /\ pc' \in [Handlers -> Labels] /\ local' \in [Handlers -> LocalType]
        /\ dirty' \in BOOLEAN
    BY <1>1, <1>7, ReturnType, GotoType DEF UploadRow, Signal, Labels, TypeOK
  <2>3. QED
    BY <1>7, <2>1, <2>2 DEF UploadRow, TypeOK
<1>8. CASE UploadEnd(h)
  BY <1>8, ReturnType DEF UploadEnd, Signal, TypeOK, store
<1>9. QED
  BY <1>3, <1>4, <1>5, <1>6, <1>7, <1>8

LEMMA InitType == Init => TypeOK
<1> SUFFICES ASSUME Init PROVE TypeOK
  OBVIOUS
<1>1. PICK k \in 0..MaxNodes : DOMAIN Seed = 1..k
  BY SeedAssumption DEF SeedAssumption
<1>2. Cardinality(1..k) = k
  BY <1>1, FS_Interval, BoundsAssumption DEF BoundsAssumption
<1>3. nextId = k + 1 /\ nodes = Seed
  BY <1>1, <1>2 DEF Init
<1>4. DOMAIN nodes \subseteq 1..(nextId - 1) /\ nextId \in 1..(MaxNodes + 1)
  BY <1>1, <1>3, BoundsAssumption DEF BoundsAssumption
<1>5. /\ nodes \in [DOMAIN nodes -> Row] /\ links \subseteq (DOMAIN nodes) \X rows
      /\ rows \subseteq listed /\ listed \subseteq Media /\ files \subseteq Media
  <2>1. nodes \in [DOMAIN nodes -> Row]
    BY <1>3, SeedAssumption DEF SeedAssumption
  <2>2. links \subseteq (DOMAIN nodes) \X rows
    BY <1>3, SeedAssumption DEF Init, SeedAssumption
  <2>3. rows = SeedRows /\ listed = SeedRows /\ files = SeedRows
    BY DEF Init
  <2>4. QED
    BY <2>1, <2>2, <2>3, SeedAssumption DEF SeedAssumption
<1>6. pc \in [Handlers -> Labels] /\ local \in [Handlers -> LocalType]
  BY EmptyType DEF Init, Labels
<1>7. dirty \in BOOLEAN /\ changed \in BOOLEAN
  BY DEF Init
<1>8. QED
  BY <1>4, <1>5, <1>6, <1>7 DEF TypeOK

LEMMA NextType == ASSUME TypeOK, [Next]_vars PROVE TypeOK'
<1>1. ASSUME NEW h \in Handlers, Step(h) PROVE TypeOK'
  <2>1. CASE CreateSlug(h) \/ UpdateSlug(h) \/ MoveSlug(h)
    BY <2>1, ReadSlugType DEF CreateSlug, UpdateSlug, MoveSlug, Labels
  <2>2. QED
    BY <1>1, <2>1, StartType, LookType, TreeWriteType, FileWriteType DEF Step
<1>2. CASE Mirror
  BY <1>2 DEF Mirror, TypeOK
<1>3. CASE UNCHANGED vars
  BY <1>3 DEF vars, TypeOK
<1>4. QED
  BY <1>1, <1>2, <1>3 DEF Next

\* The tables, the directory and the locals hold what their columns allow.
THEOREM TypeCorrect == Spec => []TypeOK
BY InitType, NextType, PTL DEF Spec

-----------------------------------------------------------------------------
(* Identity *)

SameNodes ==
  /\ nextId' >= nextId
  /\ \A n \in (DOMAIN nodes') \cap (1..(nextId - 1)) :
        n \in DOMAIN nodes /\ nodes'[n].kind = nodes[n].kind

LEMMA IdentityStep == ASSUME TypeOK, [Next]_vars PROVE SameNodes
<1>1. ASSUME NEW h \in Handlers, NEW kind, InsertRow(h, kind) PROVE SameNodes
  BY <1>1 DEF InsertRow, SameNodes, TypeOK
<1>2. CASE UNCHANGED <<nodes, nextId>>
  BY <1>2 DEF SameNodes, TypeOK
<1>3. ASSUME NEW h \in Handlers, UpdateWrite(h) PROVE SameNodes
  <2>1. CASE Fail(h)
    BY <1>2, <2>1 DEF Fail, store
  <2>2. CASE /\ nodes' = [nodes EXCEPT ![local[h].id].name = local[h].name,
                                      ![local[h].id].slug = local[h].slug,
                                      ![local[h].id].body = local[h].body]
             /\ nextId' = nextId
    BY <2>2 DEF SameNodes, TypeOK, Row
  <2>3. QED
    BY <1>3, <2>1, <2>2 DEF UpdateWrite
<1>4. ASSUME NEW h \in Handlers, MoveWrite(h) PROVE SameNodes
  <2>1. CASE Fail(h)
    BY <1>2, <2>1 DEF Fail, store
  <2>2. CASE /\ nodes' = [nodes EXCEPT ![local[h].id].parent = local[h].parent,
                                      ![local[h].id].slug = local[h].slug]
             /\ nextId' = nextId
    BY <2>2 DEF SameNodes, TypeOK, Row
  <2>3. QED
    BY <1>2, <1>4, <2>1, <2>2 DEF MoveWrite
<1>5. ASSUME NEW h \in Handlers, RemoveDelete(h) PROVE SameNodes
  BY <1>2, <1>5 DEF RemoveDelete, Fail, store, SameNodes, TypeOK
<1>6. ASSUME NEW h \in Handlers, CreateInsert(h) \/ SpaceInsert(h) PROVE SameNodes
  BY <1>1, <1>2, <1>6 DEF CreateInsert, SpaceInsert, Fail, store
<1>7. ASSUME NEW h \in Handlers, Link(h) PROVE SameNodes
  BY <1>2, <1>7 DEF Link, Fail, store
<1>8. ASSUME NEW h \in Handlers,
             OrphanRow(h) \/ DeleteMedia(h) \/ UnlinkFile(h)
             \/ UploadFile(h) \/ UploadRow(h) \/ UploadEnd(h)
      PROVE  SameNodes
  BY <1>2, <1>8 DEF OrphanRow, DeleteMedia, DeleteRow, UnlinkFile, UploadFile,
                    UploadRow, UploadEnd, store
<1>9. ASSUME NEW h \in Handlers,
             \/ CreateStart(h) \/ CreateSlug(h) \/ SpaceSlug(h) \/ UpdateStart(h)
             \/ UpdateSlug(h) \/ RemoveStart(h) \/ RemoveMedia(h) \/ MoveStart(h)
             \/ MoveCheck(h) \/ MoveName(h) \/ MoveSlug(h) \/ Abandon(h)
      PROVE  SameNodes
  <2>1. UNCHANGED store
    BY <1>9 DEF CreateStart, CreateSlug, SpaceSlug, UpdateStart, UpdateSlug,
                RemoveStart, RemoveMedia, MoveStart, MoveCheck, MoveName,
                MoveSlug, Abandon, Fail, ReadSlug
  <2>2. QED
    BY <1>2, <2>1 DEF store
<1>10. QED
  BY <1>2, <1>3, <1>4, <1>5, <1>6, <1>7, <1>8, <1>9 DEF Next, Step, Mirror, vars

\* An id is one node of one kind for ever.
THEOREM IdsForEver == Spec => IdentityKept
<1>1. TypeOK /\ [Next]_vars =>
        [\A n \in (DOMAIN nodes') \cap (1..(nextId - 1)) :
            n \in DOMAIN nodes /\ nodes'[n].kind = nodes[n].kind]_vars
  BY IdentityStep DEF SameNodes
<1>2. QED
  BY <1>1, TypeCorrect, PTL DEF Spec, IdentityKept

-----------------------------------------------------------------------------
(***************************************************************************)
(* Documents are leaves.  A handler places a node below a parent whose     *)
(* kind it looked at several statements ago.  That is safe although the    *)
(* parent may have been deleted since: kinds never change and ids never    *)
(* come back, so the id is the node that was looked at, or no node.        *)
(***************************************************************************)
Placing ==
  {"createSlug", "createInsert", "moveCheck", "moveName", "moveSlug", "moveWrite"}

LooksFit(p) ==
  /\ p \in 1..(nextId - 1)
  /\ p \in DOMAIN nodes => nodes[p].kind # "document"

TargetsFit ==
  \A h \in Handlers :
    /\ pc[h] \in Placing => LooksFit(local[h].parent)
    /\ pc[h] = "spaceInsert" => local[h].parent = Null

LeafInv == DocumentsAreLeaves /\ TargetsFit

LEMMA FitKept ==
  ASSUME TypeOK, TypeOK', SameNodes, NEW p, LooksFit(p)
  PROVE  /\ p \in 1..(nextId' - 1)
         /\ p \in DOMAIN nodes' => nodes'[p].kind # "document"
  BY DEF SameNodes, LooksFit, TypeOK

\* Only the handler that takes the step can end up with an unfit target.
LEMMA TargetsStep ==
  ASSUME TypeOK, TypeOK', SameNodes, TargetsFit,
         NEW h \in Handlers, NEW label, NEW l, Goto(h, label, l),
         label \in Placing => LooksFit(l.parent),
         label = "spaceInsert" => l.parent = Null
  PROVE  TargetsFit'
<1> SUFFICES ASSUME NEW g \in Handlers
             PROVE  /\ pc'[g] \in Placing =>
                          /\ local'[g].parent \in 1..(nextId' - 1)
                          /\ local'[g].parent \in DOMAIN nodes' =>
                                nodes'[local'[g].parent].kind # "document"
                    /\ pc'[g] = "spaceInsert" => local'[g].parent = Null
  BY DEF TargetsFit, LooksFit
<1>1. CASE g = h
  <2>1. pc'[g] = label /\ local'[g] = l
    BY <1>1 DEF Goto, TypeOK
  <2>2. QED
    BY <2>1, FitKept
<1>2. CASE g # h
  <2>1. pc'[g] = pc[g] /\ local'[g] = local[g]
    BY <1>2 DEF Goto, TypeOK
  <2>2. QED
    BY <2>1, FitKept DEF TargetsFit
<1>3. QED
  BY <1>1, <1>2

LEMMA TargetsKept ==
  ASSUME TypeOK, TypeOK', SameNodes, TargetsFit, NEW h \in Handlers, Step(h)
  PROVE  TargetsFit'
<1>1. CASE Return(h)
  BY <1>1, TargetsStep DEF Return, Placing
<1>2. ASSUME NEW label, label \notin Placing \cup {"spaceInsert"}, NEW l, Goto(h, label, l)
      PROVE  TargetsFit'
  BY <1>2, TargetsStep
<1>3. ASSUME NEW label \in Placing, NEW l, Goto(h, label, l), LooksFit(l.parent)
      PROVE  TargetsFit'
  BY <1>3, TargetsStep DEF Placing
<1>4. ASSUME NEW p \in DOMAIN nodes, nodes[p].kind # "document" PROVE LooksFit(p)
  BY <1>4 DEF LooksFit, TypeOK
<1>5. CASE CreateStart(h)
  <2>1. PICK p \in DOMAIN nodes :
               /\ nodes[p].kind # "document"
               /\ \E l : l.parent = p /\ Goto(h, "createSlug", l)
    BY <1>5 DEF CreateStart, Empty
  <2>2. QED
    BY <1>3, <1>4, <2>1 DEF Placing
<1>6. CASE SpaceSlug(h)
  <2>1. PICK l : l.parent = Null /\ Goto(h, "spaceInsert", l)
    BY <1>6 DEF SpaceSlug, Empty, Null
  <2>2. QED
    BY <2>1, TargetsStep DEF Placing
<1>7. CASE MoveStart(h)
  <2>1. PICK p \in DOMAIN nodes :
               /\ nodes[p].kind # "document"
               /\ \E l : l.parent = p /\ Goto(h, "moveCheck", l)
    BY <1>7 DEF MoveStart, Empty
  <2>2. QED
    BY <1>3, <1>4, <2>1 DEF Placing
<1>8. ASSUME NEW from \in Placing, NEW next \in Placing, NEW except,
             ReadSlug(h, from, next, except)
      PROVE  TargetsFit'
  <2>1. SUFFICES ASSUME ~Return(h) PROVE TargetsFit'
    BY <1>1
  <2>2. PICK s : Goto(h, next, [local[h] EXCEPT !.slug = s])
    BY <1>8, <2>1 DEF ReadSlug
  <2>3. [local[h] EXCEPT !.slug = s].parent = local[h].parent
    BY DEF TypeOK, LocalType
  <2>4. LooksFit(local[h].parent)
    BY <1>8 DEF ReadSlug, TargetsFit
  <2>5. QED
    BY <1>3, <2>2, <2>3, <2>4
<1>9. CASE CreateSlug(h) \/ MoveSlug(h)
  BY <1>8, <1>9 DEF CreateSlug, MoveSlug, Placing
<1>10. CASE UpdateSlug(h)
  BY <1>1, <1>2, <1>10 DEF UpdateSlug, ReadSlug, Placing
<1>11. CASE MoveCheck(h) \/ MoveName(h)
  <2>1. SUFFICES ASSUME ~Return(h) PROVE TargetsFit'
    BY <1>1
  <2>2. LooksFit(local[h].parent)
    BY <1>11 DEF MoveCheck, MoveName, TargetsFit, Placing
  <2>3. CASE MoveCheck(h)
    <3>1. Goto(h, "moveName", local[h])
      BY <2>1, <2>3 DEF MoveCheck
    <3>2. QED
      BY <1>3, <2>2, <3>1 DEF Placing
  <2>4. CASE MoveName(h)
    <3> DEFINE l == [local[h] EXCEPT !.name = nodes[local[h].id].name]
    <3>1. Goto(h, "moveSlug", l)
      BY <2>1, <2>4 DEF MoveName
    <3>2. l.parent = local[h].parent
      BY DEF TypeOK, LocalType
    <3> HIDE DEF l
    <3>3. QED
      BY <1>3, <2>2, <3>1, <3>2 DEF Placing
  <2>5. QED
    BY <1>11, <2>3, <2>4
<1>12. CASE CreateInsert(h) \/ SpaceInsert(h) \/ Link(h) \/ UpdateStart(h) \/ UpdateWrite(h)
  BY <1>1, <1>2, <1>12
     DEF CreateInsert, SpaceInsert, Link, UpdateStart, UpdateWrite, Fail, Placing
<1>13. CASE RemoveStart(h) \/ RemoveMedia(h) \/ RemoveDelete(h) \/ MoveWrite(h)
  BY <1>1, <1>2, <1>13
     DEF RemoveStart, RemoveMedia, RemoveDelete, MoveWrite, Fail, Placing
<1>14. CASE \/ OrphanRow(h) \/ UnlinkFile(h) \/ DeleteMedia(h)
            \/ UploadFile(h) \/ UploadRow(h) \/ UploadEnd(h) \/ Abandon(h)
  BY <1>1, <1>2, <1>14
     DEF OrphanRow, UnlinkFile, DeleteMedia, UploadFile, UploadRow, UploadEnd,
         Abandon, Fail, Placing
<1>15. QED
  BY <1>5, <1>6, <1>7, <1>9, <1>10, <1>11, <1>12, <1>13, <1>14 DEF Step

LEMMA LeavesStep ==
  ASSUME TypeOK, LeafInv, NEW h \in Handlers, Step(h)
  PROVE  DocumentsAreLeaves'
<1> USE DEF LeafInv
<1>1. CASE UNCHANGED nodes
  BY <1>1 DEF DocumentsAreLeaves
<1>2. ASSUME NEW kind \in Kinds, InsertRow(h, kind),
             local[h].parent # Null =>
               local[h].parent \in DOMAIN nodes /\ nodes[local[h].parent].kind # "document"
      PROVE  DocumentsAreLeaves'
  <2>1. nextId \notin DOMAIN nodes
    BY DEF TypeOK
  <2>2. DOMAIN nodes' = DOMAIN nodes \cup {nextId}
    BY <1>2 DEF InsertRow
  <2>3. \A n \in DOMAIN nodes : nodes'[n] = nodes[n]
    BY <1>2, <2>1 DEF InsertRow
  <2>4. nodes'[nextId].parent = local[h].parent
    BY <1>2 DEF InsertRow
  <2>5. QED
    BY <1>2, <2>1, <2>2, <2>3, <2>4 DEF DocumentsAreLeaves
<1>3. CASE CreateInsert(h)
  <2>1. SUFFICES ASSUME ~Fail(h) PROVE DocumentsAreLeaves'
    BY <1>1 DEF Fail, store
  <2>2. InsertRow(h, local[h].kind) /\ local[h].parent \in DOMAIN nodes
    BY <1>3, <2>1 DEF CreateInsert
  <2>3. LooksFit(local[h].parent)
    BY <1>3 DEF CreateInsert, TargetsFit, Placing
  <2>4. QED
    BY <1>2, <2>2, <2>3 DEF LooksFit, TypeOK, LocalType
<1>4. CASE SpaceInsert(h)
  BY <1>2, <1>4 DEF SpaceInsert, TargetsFit, Kinds
<1>5. CASE UpdateWrite(h)
  <2>1. SUFFICES ASSUME ~Fail(h) PROVE DocumentsAreLeaves'
    BY <1>1 DEF Fail, store
  <2>2. nodes' = [nodes EXCEPT ![local[h].id].name = local[h].name,
                               ![local[h].id].slug = local[h].slug,
                               ![local[h].id].body = local[h].body]
    BY <1>5, <2>1 DEF UpdateWrite
  <2>3. /\ DOMAIN nodes' = DOMAIN nodes
        /\ \A n \in DOMAIN nodes :
              nodes'[n].parent = nodes[n].parent /\ nodes'[n].kind = nodes[n].kind
    BY <2>2 DEF TypeOK, Row
  <2>4. QED
    BY <2>3 DEF DocumentsAreLeaves
<1>6. CASE MoveWrite(h)
  <2>1. SUFFICES ASSUME nodes' # nodes PROVE DocumentsAreLeaves'
    BY <1>1
  <2>2. /\ nodes' = [nodes EXCEPT ![local[h].id].parent = local[h].parent,
                                  ![local[h].id].slug = local[h].slug]
        /\ local[h].parent \in DOMAIN nodes
    BY <1>6, <2>1 DEF MoveWrite, Fail, store
  <2>3. nodes[local[h].parent].kind # "document"
    BY <1>6, <2>2 DEF MoveWrite, TargetsFit, LooksFit, Placing
  <2>4. /\ DOMAIN nodes' = DOMAIN nodes
        /\ \A n \in DOMAIN nodes :
              /\ nodes'[n].parent \in {nodes[n].parent, local[h].parent}
              /\ nodes'[n].kind = nodes[n].kind
    BY <2>2 DEF TypeOK, Row
  <2>5. QED
    BY <2>2, <2>3, <2>4 DEF DocumentsAreLeaves
<1>7. CASE RemoveDelete(h)
  <2>1. SUFFICES ASSUME nodes' # nodes PROVE DocumentsAreLeaves'
    BY <1>1
  <2> DEFINE gone == Descendants(local[h].id)
  <2>3. local[h].id \in DOMAIN nodes /\ nodes' = [n \in DOMAIN nodes \ gone |-> nodes[n]]
    BY <1>7, <2>1 DEF RemoveDelete, Fail, store
  <2>4. \A n \in DOMAIN nodes \ gone : nodes[n].parent \notin gone
    BY <2>3, SubtreeClosed
  <2>5. /\ DOMAIN nodes' = DOMAIN nodes \ gone
        /\ \A n \in DOMAIN nodes' : nodes'[n] = nodes[n]
    BY <2>3
  <2>6. QED
    BY <2>4, <2>5 DEF DocumentsAreLeaves
<1>8. QED
  <2>1. SUFFICES ASSUME nodes' # nodes
                 PROVE  \/ CreateInsert(h) \/ SpaceInsert(h) \/ UpdateWrite(h)
                        \/ MoveWrite(h) \/ RemoveDelete(h)
    BY <1>1, <1>3, <1>4, <1>5, <1>6, <1>7
  <2>2. QED
    BY <2>1 DEF Step, CreateStart, CreateSlug, Link, SpaceSlug, UpdateStart,
                UpdateSlug, RemoveStart, RemoveMedia, OrphanRow, DeleteRow,
                UnlinkFile, DeleteMedia, MoveStart, MoveCheck, MoveName,
                MoveSlug, UploadFile, UploadRow, UploadEnd, Abandon, Fail,
                ReadSlug, store

LEMMA InitLeaf == Init => LeafInv
<1> SUFFICES ASSUME Init PROVE LeafInv
  OBVIOUS
<1>1. DocumentsAreLeaves
  BY SeedAssumption DEF Init, SeedAssumption, DocumentsAreLeaves
<1>2. TargetsFit
  BY DEF Init, TargetsFit, Placing
<1>3. QED
  BY <1>1, <1>2 DEF LeafInv

LEMMA NextLeaf == ASSUME TypeOK, TypeOK', LeafInv, [Next]_vars PROVE LeafInv'
<1>1. SameNodes
  BY IdentityStep
<1>2. ASSUME NEW h \in Handlers, Step(h) PROVE LeafInv'
  BY <1>1, <1>2, TargetsKept, LeavesStep DEF LeafInv
<1>3. CASE UNCHANGED <<nodes, nextId, pc, local>>
  BY <1>3 DEF LeafInv, DocumentsAreLeaves, TargetsFit, LooksFit
<1>4. QED
  BY <1>2, <1>3 DEF Next, Mirror, vars

\* No node ever hangs below a document or below a node that is gone.
THEOREM LeavesAreLeaves == Spec => []DocumentsAreLeaves
<1>1. LeafInv => DocumentsAreLeaves
  BY DEF LeafInv
<1>2. QED
  BY <1>1, InitLeaf, NextLeaf, TypeCorrect, PTL DEF Spec

-----------------------------------------------------------------------------
(***************************************************************************)
(* Rows have files.  The hazard is a deletion that removes a file between  *)
(* the two halves of an upload, or after a row for it has come back.  It   *)
(* is excluded because an upload works on an id that was never listed, and *)
(* a deletion on ids that were.                                            *)
(***************************************************************************)
UploadsPrivate ==
  \A h \in Handlers : pc[h] = "uploadRow" =>
    /\ local[h].file \subseteq files /\ local[h].file \cap listed = {}
    /\ \A g \in Handlers \ {h} :
          pc[g] = "uploadRow" => local[g].file \cap local[h].file = {}

DeletionsListed ==
  \A h \in Handlers :
    /\ pc[h] \in {"removeDelete", "orphanRow", "unlinkFile"} => local[h].media \subseteq listed
    /\ pc[h] = "unlinkFile" => local[h].file \subseteq listed /\ local[h].file \cap rows = {}

FileInv == RowsHaveFiles /\ UploadsPrivate /\ DeletionsListed

\* Where the handlers are after one of them has gone to a label.
LEMMA GotoFrame ==
  ASSUME TypeOK, NEW h \in Handlers, NEW label, NEW l, Goto(h, label, l)
  PROVE  /\ pc'[h] = label /\ local'[h] = l
         /\ \A g \in Handlers \ {h} : pc'[g] = pc[g] /\ local'[g] = local[g]
  BY DEF Goto, TypeOK

\* The steps that leave the files and their rows alone.
LEMMA FilesUntouched ==
  ASSUME TypeOK, FileInv, NEW h \in Handlers, UNCHANGED <<rows, files, listed>>,
         NEW label, label \notin {"uploadRow", "unlinkFile"}, NEW l, Goto(h, label, l),
         label \in {"removeDelete", "orphanRow"} => l.media \subseteq listed
  PROVE  FileInv'
<1>1. RowsHaveFiles'
  BY DEF FileInv, RowsHaveFiles
<1>2. UploadsPrivate'
  BY GotoFrame DEF FileInv, UploadsPrivate
<1>3. DeletionsListed'
  BY GotoFrame DEF FileInv, DeletionsListed
<1>4. QED
  BY <1>1, <1>2, <1>3 DEF FileInv

LEMMA FilesAfterReturn ==
  ASSUME TypeOK, FileInv, NEW h \in Handlers, UNCHANGED <<rows, files, listed>>, Return(h)
  PROVE  FileInv'
  BY FilesUntouched DEF Return

LEMMA FilesDeleteRow ==
  ASSUME TypeOK, FileInv, NEW h \in Handlers, NEW m \in listed, DeleteRow(m),
         NEW l, Goto(h, "unlinkFile", l), l.file = {m}, l.media \subseteq listed
  PROVE  FileInv'
<1>1. rows' = rows \ {m} /\ files' = files /\ listed' = listed
  BY DEF DeleteRow
<1>2. RowsHaveFiles'
  BY <1>1 DEF FileInv, RowsHaveFiles
<1>3. UploadsPrivate'
  BY <1>1, GotoFrame DEF FileInv, UploadsPrivate
<1>4. DeletionsListed'
  BY <1>1, GotoFrame DEF FileInv, DeletionsListed
<1>5. QED
  BY <1>2, <1>3, <1>4 DEF FileInv

LEMMA FilesUnlink ==
  ASSUME TypeOK, FileInv, NEW h \in Handlers, UnlinkFile(h)
  PROVE  FileInv'
<1>1. PICK label \in {"idle", "orphanRow"} : \E l : Goto(h, label, l) /\ l.media \subseteq listed
  <2>1. CASE Return(h)
    BY <2>1 DEF Return, Empty
  <2>2. CASE Goto(h, "orphanRow", [local[h] EXCEPT !.file = {}])
    <3>1. [local[h] EXCEPT !.file = {}].media = local[h].media
      BY DEF TypeOK, LocalType
    <3>2. local[h].media \subseteq listed
      BY DEF UnlinkFile, FileInv, DeletionsListed
    <3>3. QED
      BY <2>2, <3>1, <3>2
  <2>3. QED
    BY <2>1, <2>2 DEF UnlinkFile
<1>2. PICK l : Goto(h, label, l) /\ l.media \subseteq listed
  BY <1>1
<1>3. rows' = rows /\ files' = files \ local[h].file /\ listed' = listed
  BY DEF UnlinkFile
<1>4. local[h].file \subseteq listed /\ local[h].file \cap rows = {}
  BY DEF UnlinkFile, FileInv, DeletionsListed
<1>5. RowsHaveFiles'
  BY <1>3, <1>4 DEF FileInv, RowsHaveFiles
<1>6. UploadsPrivate'
  BY <1>2, <1>3, <1>4, GotoFrame DEF FileInv, UploadsPrivate
<1>7. DeletionsListed'
  BY <1>2, <1>3, GotoFrame DEF FileInv, DeletionsListed
<1>8. QED
  BY <1>5, <1>6, <1>7 DEF FileInv

LEMMA FilesUploadFile ==
  ASSUME TypeOK, FileInv, NEW h \in Handlers, UploadFile(h)
  PROVE  FileInv'
<1>1. PICK m \in Media \ (listed \cup files) :
        files' = files \cup {m} /\ \E l : l.file = {m} /\ Goto(h, "uploadRow", l)
  BY DEF UploadFile, Empty
<1>2. PICK l : l.file = {m} /\ Goto(h, "uploadRow", l)
  BY <1>1
<1>3. rows' = rows /\ listed' = listed
  BY DEF UploadFile
<1>4. RowsHaveFiles'
  BY <1>1, <1>3 DEF FileInv, RowsHaveFiles
<1>5. UploadsPrivate'
  BY <1>1, <1>2, <1>3, GotoFrame DEF FileInv, UploadsPrivate
<1>6. DeletionsListed'
  BY <1>2, <1>3, GotoFrame DEF FileInv, DeletionsListed
<1>7. QED
  BY <1>4, <1>5, <1>6 DEF FileInv

LEMMA FilesUploadRow ==
  ASSUME TypeOK, FileInv, NEW h \in Handlers, UploadRow(h)
  PROVE  FileInv'
<1>1. PICK label \in {"idle", "uploadMore"} : \E l : Goto(h, label, l)
  BY DEF UploadRow, Return
<1>2. PICK l : Goto(h, label, l)
  BY <1>1
<1>3. /\ rows' = rows \cup local[h].file /\ listed' = listed \cup local[h].file
      /\ files' = files
  BY DEF UploadRow
<1>4. /\ local[h].file \subseteq files /\ local[h].file \cap listed = {}
      /\ \A g \in Handlers \ {h} :
            pc[g] = "uploadRow" => local[g].file \cap local[h].file = {}
  BY DEF UploadRow, FileInv, UploadsPrivate
<1>5. RowsHaveFiles'
  BY <1>3, <1>4 DEF FileInv, RowsHaveFiles
<1>6. UploadsPrivate'
  BY <1>2, <1>3, <1>4, GotoFrame DEF FileInv, UploadsPrivate
<1>7. DeletionsListed'
  BY <1>2, <1>3, <1>4, GotoFrame DEF FileInv, DeletionsListed
<1>8. QED
  BY <1>5, <1>6, <1>7 DEF FileInv

LEMMA FilesStep ==
  ASSUME TypeOK, FileInv, NEW h \in Handlers, Step(h)
  PROVE  FileInv'
<1>1. ASSUME UNCHANGED <<rows, files, listed>>, Return(h) PROVE FileInv'
  BY <1>1, FilesAfterReturn
<1>2. ASSUME UNCHANGED <<rows, files, listed>>,
             NEW label, label \notin {"removeDelete", "orphanRow", "unlinkFile", "uploadRow"},
             NEW l, Goto(h, label, l)
      PROVE  FileInv'
  BY <1>2, FilesUntouched
<1>3. CASE \/ CreateStart(h) \/ CreateSlug(h) \/ CreateInsert(h) \/ Link(h)
           \/ SpaceSlug(h) \/ SpaceInsert(h)
  BY <1>1, <1>2, <1>3
     DEF CreateStart, CreateSlug, CreateInsert, Link, SpaceSlug, SpaceInsert,
         ReadSlug, Fail, store
<1>4. CASE UpdateStart(h) \/ UpdateSlug(h) \/ UpdateWrite(h) \/ RemoveStart(h)
  BY <1>1, <1>2, <1>4
     DEF UpdateStart, UpdateSlug, UpdateWrite, RemoveStart, ReadSlug, Fail, store
<1>5. CASE \/ MoveStart(h) \/ MoveCheck(h) \/ MoveName(h) \/ MoveSlug(h)
           \/ MoveWrite(h) \/ UploadEnd(h) \/ Abandon(h)
  BY <1>1, <1>2, <1>5
     DEF MoveStart, MoveCheck, MoveName, MoveSlug, MoveWrite, UploadEnd, Abandon,
         ReadSlug, Fail, store
<1>6. CASE RemoveMedia(h)
  <2> DEFINE l == [local[h] EXCEPT !.media = ExclusiveMedia(local[h].subtree)]
  <2>1. l.media \subseteq listed
    <3>1. ExclusiveMedia(local[h].subtree) \subseteq rows
      BY DEF ExclusiveMedia, TypeOK
    <3>2. QED
      BY <3>1 DEF TypeOK, LocalType
  <2>2. Goto(h, "removeDelete", l) /\ UNCHANGED store
    BY <1>6 DEF RemoveMedia
  <2> HIDE DEF l
  <2>3. QED
    BY <2>1, <2>2, FilesUntouched DEF store
<1>7. CASE RemoveDelete(h)
  <2>1. UNCHANGED <<rows, files, listed>>
    BY <1>7 DEF RemoveDelete, Fail, store
  <2>2. local[h].media \subseteq listed
    BY <1>7 DEF RemoveDelete, FileInv, DeletionsListed
  <2>3. Return(h) \/ Goto(h, "orphanRow", local[h])
    BY <1>7 DEF RemoveDelete, Fail
  <2>4. QED
    BY <1>1, <2>1, <2>2, <2>3, FilesUntouched
<1>8. CASE OrphanRow(h)
  <2>1. local[h].media \subseteq listed
    BY <1>8 DEF OrphanRow, FileInv, DeletionsListed
  <2>2. PICK m \in local[h].media :
          /\ DeleteRow(m)
          /\ Goto(h, "unlinkFile", [local[h] EXCEPT !.media = @ \ {m}, !.file = {m}])
    BY <1>8 DEF OrphanRow
  <2> DEFINE l == [local[h] EXCEPT !.media = @ \ {m}, !.file = {m}]
  <2>3. l.file = {m} /\ l.media \subseteq listed
    BY <2>1 DEF TypeOK, LocalType
  <2>4. Goto(h, "unlinkFile", l) /\ m \in listed
    BY <2>1, <2>2
  <2> HIDE DEF l
  <2>5. QED
    BY <2>2, <2>3, <2>4, FilesDeleteRow
<1>9. CASE DeleteMedia(h)
  <2>1. PICK m \in listed : DeleteRow(m) /\ Goto(h, "unlinkFile", [Empty EXCEPT !.file = {m}])
    BY <1>9 DEF DeleteMedia
  <2> DEFINE l == [Empty EXCEPT !.file = {m}]
  <2>2. l.file = {m} /\ l.media = {} /\ Goto(h, "unlinkFile", l)
    BY <2>1 DEF Empty
  <2> HIDE DEF l
  <2>3. QED
    BY <2>1, <2>2, FilesDeleteRow
<1>10. QED
  BY <1>3, <1>4, <1>5, <1>6, <1>7, <1>8, <1>9, FilesUnlink, FilesUploadFile,
     FilesUploadRow DEF Step

\* A file in the table is on disk, across uploads and deletions that overlap
\* or die half way.
THEOREM RowsAlwaysHaveFiles == Spec => []RowsHaveFiles
<1>1. Init => FileInv
  BY DEF Init, FileInv, RowsHaveFiles, UploadsPrivate, DeletionsListed
<1>2. TypeOK /\ FileInv /\ [Next]_vars => FileInv'
  <2> SUFFICES ASSUME TypeOK, FileInv, [Next]_vars PROVE FileInv'
    OBVIOUS
  <2>1. CASE UNCHANGED <<rows, files, listed, pc, local>>
    BY <2>1 DEF FileInv, RowsHaveFiles, UploadsPrivate, DeletionsListed
  <2>2. QED
    BY <2>1, FilesStep DEF Next, Mirror, vars
<1>3. FileInv => RowsHaveFiles
  BY DEF FileInv
<1>4. QED
  BY <1>1, <1>2, <1>3, TypeCorrect, PTL DEF Spec

-----------------------------------------------------------------------------
(***************************************************************************)
(* What a handler was asked.  A handler is at a statement of create,       *)
(* remove, move or upload only if it may be asked for that operation, so a *)
(* hypothesis about Operations says which statements can overlap.          *)
(***************************************************************************)
Saving == {"createSlug", "createInsert", "updateSlug", "updateWrite", "link"}
Removing == {"removeMedia", "removeDelete", "orphanRow"}
Moving == {"moveCheck", "moveName", "moveSlug", "moveWrite"}
Uploading == {"uploadRow", "uploadMore"}

Saves(h) == "create" \in Operations[h] \/ "update" \in Operations[h]

Justified(h, label, l) ==
  /\ label \in Saving => Saves(h)
  /\ label \in Removing \/ (label = "unlinkFile" /\ l.media # {}) => "remove" \in Operations[h]
  /\ label \in Moving => "move" \in Operations[h]
  /\ label \in Uploading => "upload" \in Operations[h]

AskedFor == \A h \in Handlers : Justified(h, pc[h], local[h])

LEMMA AskedGoto ==
  ASSUME TypeOK, AskedFor, NEW h \in Handlers, NEW label, NEW l, Goto(h, label, l),
         Justified(h, label, l)
  PROVE  AskedFor'
<1>1. ASSUME NEW g \in Handlers PROVE Justified(g, pc'[g], local'[g])
  BY GotoFrame DEF AskedFor
<1>2. QED
  BY <1>1 DEF AskedFor, Justified, Saves

\* A statement that goes on to another of the same operation.
LEMMA AskedOn ==
  ASSUME TypeOK, AskedFor, NEW h \in Handlers, NEW label, NEW l, Goto(h, label, l),
         label # "unlinkFile",
         \/ label = "idle"
         \/ pc[h] \in Saving /\ label \in Saving
         \/ pc[h] \in Removing /\ label \in Removing
         \/ pc[h] \in Moving /\ label \in Moving
         \/ pc[h] \in Uploading /\ label \in Uploading
  PROVE  AskedFor'
<1>1. Justified(h, pc[h], local[h])
  BY DEF AskedFor
<1>2. Justified(h, label, l)
  BY <1>1 DEF Justified, Saving, Removing, Moving, Uploading
<1>3. QED
  BY <1>2, AskedGoto

LEMMA AskedStep ==
  ASSUME TypeOK, AskedFor, NEW h \in Handlers, Step(h)
  PROVE  AskedFor'
<1>1. CASE \E l : Goto(h, "idle", l)
  BY <1>1, AskedOn
<1>2. ASSUME NEW from, NEW next, NEW except, ReadSlug(h, from, next, except)
      PROVE  pc[h] = from /\ ((\E l : Goto(h, "idle", l)) \/ \E l : Goto(h, next, l))
  BY <1>2 DEF ReadSlug, Return
<1>3. CASE CreateSlug(h) \/ UpdateSlug(h) \/ MoveSlug(h)
  BY <1>1, <1>2, <1>3, AskedOn DEF CreateSlug, UpdateSlug, MoveSlug, Saving, Moving
<1>4. CASE CreateStart(h)
  <2>1. \E l : Goto(h, "createSlug", l)
    BY <1>4 DEF CreateStart
  <2>2. \A l : Justified(h, "createSlug", l)
    BY <1>4 DEF CreateStart, Asked, Justified, Saves, Saving, Removing, Moving, Uploading
  <2>3. QED
    BY <2>1, <2>2, AskedGoto
<1>5. CASE UpdateStart(h)
  <2>1. PICK label \in {"updateWrite", "updateSlug"} : \E l : Goto(h, label, l)
    BY <1>5 DEF UpdateStart
  <2>2. \A l : Justified(h, label, l)
    BY <1>5 DEF UpdateStart, Asked, Justified, Saves, Saving, Removing, Moving, Uploading
  <2>3. QED
    BY <2>1, <2>2, AskedGoto
<1>6. CASE RemoveStart(h)
  <2>1. \E l : Goto(h, "removeMedia", l)
    BY <1>6 DEF RemoveStart
  <2>2. \A l : Justified(h, "removeMedia", l)
    BY <1>6 DEF RemoveStart, Asked, Justified, Saves, Saving, Removing, Moving, Uploading
  <2>3. QED
    BY <2>1, <2>2, AskedGoto
<1>7. CASE MoveStart(h)
  <2>1. \E l : Goto(h, "moveCheck", l)
    BY <1>7 DEF MoveStart
  <2>2. \A l : Justified(h, "moveCheck", l)
    BY <1>7 DEF MoveStart, Asked, Justified, Saves, Saving, Removing, Moving, Uploading
  <2>3. QED
    BY <2>1, <2>2, AskedGoto
<1>8. CASE SpaceSlug(h)
  <2>1. \E l : Goto(h, "spaceInsert", l)
    BY <1>8 DEF SpaceSlug
  <2>2. \A l : Justified(h, "spaceInsert", l)
    BY DEF Justified, Saving, Removing, Moving, Uploading
  <2>3. QED
    BY <2>1, <2>2, AskedGoto
<1>9. CASE UploadFile(h)
  <2>1. \E l : Goto(h, "uploadRow", l)
    BY <1>9 DEF UploadFile
  <2>2. "upload" \in Operations[h]
    BY <1>9 DEF UploadFile, Asked, AskedFor, Justified, Uploading
  <2>3. \A l : Justified(h, "uploadRow", l)
    BY <2>2 DEF Justified, Saving, Removing, Moving
  <2>4. QED
    BY <2>1, <2>3, AskedGoto
<1>10. CASE DeleteMedia(h)
  <2>1. PICK m : Goto(h, "unlinkFile", [Empty EXCEPT !.file = {m}])
    BY <1>10 DEF DeleteMedia
  <2>2. [Empty EXCEPT !.file = {m}].media = {}
    BY DEF Empty
  <2>3. Justified(h, "unlinkFile", [Empty EXCEPT !.file = {m}])
    BY <2>2 DEF Justified, Saving, Removing, Moving, Uploading
  <2>4. QED
    BY <2>1, <2>3, AskedGoto
<1>11. CASE OrphanRow(h)
  <2>1. \E l : Goto(h, "unlinkFile", l)
    BY <1>11 DEF OrphanRow
  <2>2. "remove" \in Operations[h]
    BY <1>11 DEF OrphanRow, AskedFor, Justified, Removing
  <2>3. \A l : Justified(h, "unlinkFile", l)
    BY <2>2 DEF Justified, Saving, Removing, Moving, Uploading
  <2>4. QED
    BY <2>1, <2>3, AskedGoto
<1>12. CASE UnlinkFile(h)
  <2>1. SUFFICES ASSUME local[h].media # {}, \E l : Goto(h, "orphanRow", l) PROVE AskedFor'
    BY <1>1, <1>12 DEF UnlinkFile, Return
  <2>2. "remove" \in Operations[h]
    BY <1>12, <2>1 DEF UnlinkFile, AskedFor, Justified
  <2>3. \A l : Justified(h, "orphanRow", l)
    BY <2>2 DEF Justified, Saving, Removing, Moving, Uploading
  <2>4. QED
    BY <2>1, <2>3, AskedGoto
<1>13. CASE \/ CreateInsert(h) \/ UpdateWrite(h) \/ RemoveMedia(h) \/ RemoveDelete(h)
  BY <1>1, <1>13, AskedOn
     DEF CreateInsert, UpdateWrite, RemoveMedia, RemoveDelete, Fail, Return, Saving, Removing
<1>14. CASE MoveCheck(h) \/ MoveName(h) \/ UploadRow(h)
  BY <1>1, <1>14, AskedOn
     DEF MoveCheck, MoveName, UploadRow, Return, Moving, Uploading
<1>15. CASE \/ SpaceInsert(h) \/ Link(h) \/ MoveWrite(h) \/ UploadEnd(h) \/ Abandon(h)
  BY <1>1, <1>15 DEF SpaceInsert, Link, MoveWrite, UploadEnd, Abandon, Fail, Return
<1>16. QED
  BY <1>3, <1>4, <1>5, <1>6, <1>7, <1>8, <1>9, <1>10, <1>11, <1>12, <1>13, <1>14, <1>15
     DEF Step

LEMMA AskedInit == Init => AskedFor
  BY DEF Init, AskedFor, Justified, Saving, Removing, Moving, Uploading

LEMMA AskedNext == ASSUME TypeOK, AskedFor, [Next]_vars PROVE AskedFor'
<1>1. CASE UNCHANGED <<pc, local>>
  BY <1>1 DEF AskedFor, Justified, Saves
<1>2. QED
  BY <1>1, AskedStep DEF Next, Mirror, vars

-----------------------------------------------------------------------------
(***************************************************************************)
(* No stray file.  A handler that is not between the two halves of an      *)
(* upload or of a deletion holds no file.                                  *)
(***************************************************************************)
FileHeld ==
  \A h \in Handlers : pc[h] \notin {"uploadRow", "unlinkFile"} => local[h].file = {}

StrayInv == NoStrayFile /\ FileHeld

\* The steps that neither touch files or rows nor hold one.
LEMMA StrayQuiet ==
  ASSUME TypeOK, StrayInv, NEW h \in Handlers,
         pc[h] \notin {"uploadRow", "unlinkFile"}, UNCHANGED <<files, rows>>,
         NEW label, NEW l, Goto(h, label, l), l.file = {}
  PROVE  StrayInv'
<1>1. local[h].file = {}
  BY DEF StrayInv, FileHeld
<1>2. NoStrayFile'
  BY <1>1, GotoFrame DEF StrayInv, NoStrayFile
<1>3. FileHeld'
  BY GotoFrame DEF StrayInv, FileHeld
<1>4. QED
  BY <1>2, <1>3 DEF StrayInv

\* The first half of a deletion, and of an upload.
LEMMA StrayBegins ==
  ASSUME TypeOK, StrayInv, NEW h \in Handlers,
         pc[h] \notin {"uploadRow", "unlinkFile"}, NEW m,
         (files' \ rows') \subseteq (files \ rows) \cup {m},
         NEW label \in {"uploadRow", "unlinkFile"}, NEW l, Goto(h, label, l), l.file = {m}
  PROVE  StrayInv'
<1>1. local[h].file = {}
  BY DEF StrayInv, FileHeld
<1>2. NoStrayFile'
  <2>1. ASSUME NEW x \in files' \ rows' PROVE \E g \in Handlers : x \in local'[g].file
    <3>1. CASE x = m
      BY <3>1, GotoFrame
    <3>2. CASE x # m
      BY <1>1, <3>2, GotoFrame DEF StrayInv, NoStrayFile
    <3>3. QED
      BY <3>1, <3>2
  <2>2. QED
    BY <2>1 DEF NoStrayFile
<1>3. FileHeld'
  BY GotoFrame DEF StrayInv, FileHeld
<1>4. QED
  BY <1>2, <1>3 DEF StrayInv

\* The second half: what the handler held is listed now, or gone.
LEMMA StrayEnds ==
  ASSUME TypeOK, StrayInv, NEW h \in Handlers,
         (files' \ rows') \subseteq (files \ rows) \ local[h].file,
         NEW label, NEW l, Goto(h, label, l), l.file = {}
  PROVE  StrayInv'
<1>1. NoStrayFile'
  BY GotoFrame DEF StrayInv, NoStrayFile
<1>2. FileHeld'
  BY GotoFrame DEF StrayInv, FileHeld
<1>3. QED
  BY <1>1, <1>2 DEF StrayInv

LEMMA StrayStep ==
  ASSUME TypeOK, StrayInv, ~Cancellation, NEW h \in Handlers, Step(h)
  PROVE  StrayInv'
<1>1. local[h] \in LocalType /\ Empty.file = {}
  BY DEF TypeOK, Empty
<1>2. SUFFICES ASSUME ~(/\ pc[h] \notin {"uploadRow", "unlinkFile"} /\ UNCHANGED <<files, rows>>
                        /\ \E label, l : Goto(h, label, l) /\ l.file = {})
               PROVE  StrayInv'
  BY StrayQuiet
<1>3. pc[h] \notin {"uploadRow", "unlinkFile"} => local[h].file = {}
  BY DEF StrayInv, FileHeld
<1>4. CASE CreateStart(h) \/ SpaceSlug(h) \/ UpdateStart(h) \/ RemoveStart(h) \/ MoveStart(h)
  <2>1. \E label, l : Goto(h, label, l) /\ l.file = {}
    <3>1. CASE CreateStart(h)
      <4>1. \E l : l.file = {} /\ Goto(h, "createSlug", l)
        BY <3>1 DEF CreateStart, Empty
      <4>2. QED
        BY <4>1
    <3>2. CASE SpaceSlug(h)
      <4>1. \E l : l.file = {} /\ Goto(h, "spaceInsert", l)
        BY <3>2 DEF SpaceSlug, Empty
      <4>2. QED
        BY <4>1
    <3>3. CASE UpdateStart(h)
      <4>1. \E label, l : l.file = {} /\ Goto(h, label, l)
        BY <3>3 DEF UpdateStart, Empty
      <4>2. QED
        BY <4>1
    <3>4. CASE RemoveStart(h)
      <4>1. \E l : l.file = {} /\ Goto(h, "removeMedia", l)
        BY <3>4 DEF RemoveStart, Empty
      <4>2. QED
        BY <4>1
    <3>5. CASE MoveStart(h)
      <4>1. \E l : l.file = {} /\ Goto(h, "moveCheck", l)
        BY <3>5 DEF MoveStart, Empty
      <4>2. QED
        BY <4>1
    <3>6. QED
      BY <1>4, <3>1, <3>2, <3>3, <3>4, <3>5
  <2>2. UNCHANGED store /\ pc[h] = "idle"
    BY <1>4 DEF CreateStart, SpaceSlug, UpdateStart, RemoveStart, MoveStart, Asked
  <2>3. QED
    BY <1>2, <2>1, <2>2 DEF store
<1>6. ASSUME NEW s, NEW label, Goto(h, label, [local[h] EXCEPT !.slug = s]),
             UNCHANGED store, pc[h] \notin {"uploadRow", "unlinkFile"}
      PROVE  FALSE
  BY <1>1, <1>2, <1>3, <1>6 DEF LocalType, store
<1>7. ASSUME Return(h), UNCHANGED <<files, rows>>, pc[h] \notin {"uploadRow", "unlinkFile"}
      PROVE  FALSE
  BY <1>1, <1>2, <1>7 DEF Return
<1>8. CASE CreateSlug(h) \/ UpdateSlug(h) \/ MoveSlug(h)
  BY <1>6, <1>7, <1>8 DEF CreateSlug, UpdateSlug, MoveSlug, ReadSlug, store
<1>9. CASE CreateInsert(h)
  <2>1. [local[h] EXCEPT !.id = nextId].file = local[h].file
    BY <1>1 DEF LocalType
  <2>2. QED
    BY <1>2, <1>3, <1>7, <1>9, <2>1 DEF CreateInsert, Fail, store
<1>10. CASE RemoveMedia(h)
  <2>1. [local[h] EXCEPT !.media = ExclusiveMedia(local[h].subtree)].file = local[h].file
    BY <1>1 DEF LocalType
  <2>2. QED
    BY <1>2, <1>3, <1>10, <2>1 DEF RemoveMedia, store
<1>11. CASE MoveName(h)
  <2>1. [local[h] EXCEPT !.name = nodes[local[h].id].name].file = local[h].file
    BY <1>1 DEF LocalType
  <2>2. QED
    BY <1>2, <1>3, <1>7, <1>11, <2>1 DEF MoveName, store
<1>12. CASE Link(h) \/ SpaceInsert(h) \/ MoveWrite(h) \/ UploadEnd(h)
  BY <1>7, <1>12 DEF Link, SpaceInsert, MoveWrite, UploadEnd, Fail, store
<1>13. CASE UpdateWrite(h) \/ RemoveDelete(h) \/ MoveCheck(h)
  BY <1>2, <1>3, <1>7, <1>13 DEF UpdateWrite, RemoveDelete, MoveCheck, Fail, store
<1>14. CASE OrphanRow(h)
  <2>1. PICK m \in local[h].media :
          /\ DeleteRow(m)
          /\ Goto(h, "unlinkFile", [local[h] EXCEPT !.media = @ \ {m}, !.file = {m}])
    BY <1>14 DEF OrphanRow
  <2>2. [local[h] EXCEPT !.media = @ \ {m}, !.file = {m}].file = {m}
    BY <1>1 DEF LocalType
  <2>3. QED
    BY <1>14, <2>1, <2>2, StrayBegins DEF DeleteRow, OrphanRow
<1>15. CASE DeleteMedia(h)
  <2>1. PICK m : DeleteRow(m) /\ Goto(h, "unlinkFile", [Empty EXCEPT !.file = {m}])
    BY <1>15 DEF DeleteMedia
  <2>2. [Empty EXCEPT !.file = {m}].file = {m}
    BY DEF Empty
  <2>3. QED
    BY <1>15, <2>1, <2>2, StrayBegins DEF DeleteRow, DeleteMedia, Asked
<1>16. CASE UploadFile(h)
  <2>1. PICK m : files' = files \cup {m} /\ Goto(h, "uploadRow", [Empty EXCEPT !.file = {m}])
    BY <1>16 DEF UploadFile
  <2>2. [Empty EXCEPT !.file = {m}].file = {m} /\ rows' = rows
    BY <1>16 DEF Empty, UploadFile
  <2>3. pc[h] \notin {"uploadRow", "unlinkFile"}
    BY <1>16 DEF UploadFile, Asked
  <2>4. QED
    BY <2>1, <2>2, <2>3, StrayBegins
<1>17. CASE UploadRow(h)
  BY <1>1, <1>17, StrayEnds DEF UploadRow, Return
<1>18. CASE UnlinkFile(h)
  <2>1. [local[h] EXCEPT !.file = {}].file = {}
    BY <1>1 DEF LocalType
  <2>2. QED
    BY <1>1, <1>18, <2>1, StrayEnds DEF UnlinkFile, Return
<1>19. QED
  BY <1>4, <1>8, <1>9, <1>10, <1>11, <1>12, <1>13, <1>14, <1>15, <1>16, <1>17,
     <1>18 DEF Step, Abandon

LEMMA StrayInit == Init => StrayInv
  BY DEF Init, StrayInv, NoStrayFile, FileHeld, Empty

LEMMA StrayNext ==
  ASSUME TypeOK, StrayInv, ~Cancellation, [Next]_vars
  PROVE  StrayInv'
<1>1. CASE UNCHANGED <<files, rows, pc, local>>
  BY <1>1 DEF StrayInv, NoStrayFile, FileHeld
<1>2. QED
  BY <1>1, StrayStep DEF Next, Mirror, vars

(***************************************************************************)
(* Handlers that run to their end leave no file without a row behind.      *)
(***************************************************************************)
THEOREM NothingStrays == ASSUME ~Cancellation PROVE Spec => []NoStrayFile
<1>1. TypeOK /\ StrayInv /\ [Next]_vars => StrayInv'
  BY StrayNext
<1>2. StrayInv => NoStrayFile
  BY DEF StrayInv
<1>3. QED
  BY <1>1, <1>2, StrayInit, TypeCorrect, PTL DEF Spec

-----------------------------------------------------------------------------
(***************************************************************************)
(* Changes are signalled.  A change not signalled yet is owed by a handler *)
(* between two statements.  A save whose node is deleted before its links  *)
(* are written returns without the signal; then the deletion owes it.      *)
(***************************************************************************)
Owing(h) ==
  \/ pc[h] \in {"orphanRow", "unlinkFile"}
  \/ pc[h] = "link" /\ local[h].id \in DOMAIN nodes

SignalInv == changed => dirty \/ \E h \in Handlers : Owing(h)

LEMMA SignalQuiet ==
  ASSUME TypeOK, SignalInv, NEW h \in Handlers, ~Owing(h),
         UNCHANGED <<dirty, changed>>, nodes' = nodes, NEW label, NEW l, Goto(h, label, l)
  PROVE  SignalInv'
<1>1. ASSUME NEW g \in Handlers, Owing(g) PROVE Owing(g)'
  BY <1>1, GotoFrame DEF Owing
<1>2. QED
  BY <1>1 DEF SignalInv

\* A step that ends where its handler owes the signal, or with the signal.
LEMMA SignalOwed ==
  ASSUME TypeOK, NEW h \in Handlers, NEW label, NEW l, Goto(h, label, l),
         \/ dirty'
         \/ label \in {"orphanRow", "unlinkFile"}
         \/ label = "link" /\ l.id \in DOMAIN nodes'
  PROVE  SignalInv'
<1>1. dirty' \/ Owing(h)'
  BY GotoFrame DEF Owing
<1>2. QED
  BY <1>1 DEF SignalInv

LEMMA SignalStep ==
  ASSUME TypeOK, SignalInv, AskedFor, ~Cancellation,
         \A g \in Handlers : "upload" \notin Operations[g],
         NEW h \in Handlers, Step(h)
  PROVE  SignalInv'
<1>1. local[h] \in LocalType /\ pc[h] \notin Uploading
  BY DEF TypeOK, AskedFor, Justified
<1>2. ASSUME Return(h), UNCHANGED store, ~Owing(h) PROVE SignalInv'
  BY <1>2, SignalQuiet DEF Return, store
<1>3. ASSUME Return(h), Signal PROVE SignalInv'
  BY <1>3, SignalOwed DEF Return, Signal
<1>4. CASE \/ CreateStart(h) \/ SpaceSlug(h) \/ UpdateStart(h)
           \/ RemoveStart(h) \/ MoveStart(h)
  <2>1. \E label, l : Goto(h, label, l)
    BY <1>4 DEF CreateStart, SpaceSlug, UpdateStart, RemoveStart, MoveStart
  <2>2. UNCHANGED store /\ pc[h] = "idle"
    BY <1>4 DEF CreateStart, SpaceSlug, UpdateStart, RemoveStart, MoveStart, Asked
  <2>3. QED
    BY <2>1, <2>2, SignalQuiet DEF Owing, store
<1>5. CASE \/ CreateSlug(h) \/ UpdateSlug(h) \/ MoveSlug(h)
           \/ RemoveMedia(h) \/ MoveCheck(h) \/ MoveName(h)
  <2>1. \E label, l : Goto(h, label, l)
    <3>1. CASE CreateSlug(h) \/ UpdateSlug(h) \/ MoveSlug(h)
      BY <3>1 DEF CreateSlug, UpdateSlug, MoveSlug, ReadSlug, Return
    <3>2. CASE RemoveMedia(h) \/ MoveCheck(h) \/ MoveName(h)
      BY <3>2 DEF RemoveMedia, MoveCheck, MoveName, Return
    <3>3. QED
      BY <1>5, <3>1, <3>2
  <2>2. UNCHANGED store /\ ~Owing(h)
    BY <1>5 DEF CreateSlug, UpdateSlug, MoveSlug, ReadSlug, RemoveMedia, MoveCheck,
                MoveName, Owing
  <2>3. QED
    BY <2>1, <2>2, SignalQuiet DEF store
<1>6. CASE CreateInsert(h)
  <2>1. SUFFICES ASSUME ~Fail(h) PROVE SignalInv'
    BY <1>2, <1>6 DEF CreateInsert, Fail, Owing
  <2>2. InsertRow(h, local[h].kind) /\ Goto(h, "link", [local[h] EXCEPT !.id = nextId])
    BY <1>6, <2>1 DEF CreateInsert
  <2>3. [local[h] EXCEPT !.id = nextId].id = nextId /\ nextId \in DOMAIN nodes'
    BY <1>1, <2>2 DEF LocalType, InsertRow
  <2>4. QED
    BY <2>2, <2>3, SignalOwed
<1>7. CASE UpdateWrite(h)
  <2>1. SUFFICES ASSUME ~Fail(h) PROVE SignalInv'
    BY <1>2, <1>7 DEF UpdateWrite, Fail, Owing
  <2>2. Goto(h, "link", local[h]) /\ local[h].id \in DOMAIN nodes'
    BY <1>7, <2>1 DEF UpdateWrite
  <2>3. QED
    BY <2>2, SignalOwed
<1>8. CASE Link(h)
  BY <1>2, <1>3, <1>8 DEF Link, Fail, Owing
<1>9. CASE SpaceInsert(h)
  BY <1>3, <1>9 DEF SpaceInsert
<1>10. CASE MoveWrite(h)
  BY <1>2, <1>3, <1>10 DEF MoveWrite, Fail, Owing
<1>11. CASE RemoveDelete(h)
  <2>1. CASE Fail(h)
    BY <1>2, <1>11, <2>1 DEF RemoveDelete, Fail, Owing
  <2>2. CASE Goto(h, "orphanRow", local[h])
    BY <2>2, SignalOwed
  <2>3. QED
    BY <1>3, <1>11, <2>1, <2>2 DEF RemoveDelete
<1>12. CASE OrphanRow(h) \/ DeleteMedia(h)
  <2>1. \E l : Goto(h, "unlinkFile", l)
    BY <1>12 DEF OrphanRow, DeleteMedia
  <2>2. QED
    BY <2>1, SignalOwed
<1>13. CASE UnlinkFile(h)
  <2>1. (Signal /\ Return(h)) \/ \E l : Goto(h, "orphanRow", l)
    BY <1>13 DEF UnlinkFile
  <2>2. QED
    BY <1>3, <2>1, SignalOwed
<1>14. ~(UploadFile(h) \/ UploadRow(h) \/ UploadEnd(h))
  BY <1>1 DEF UploadFile, UploadRow, UploadEnd, Asked, Uploading
<1>15. QED
  BY <1>4, <1>5, <1>6, <1>7, <1>8, <1>9, <1>10, <1>11, <1>12, <1>13, <1>14
     DEF Step, Abandon

LEMMA SignalInit == Init => SignalInv
  BY DEF Init, SignalInv

LEMMA SignalNext ==
  ASSUME TypeOK, SignalInv, AskedFor, ~Cancellation,
         \A g \in Handlers : "upload" \notin Operations[g], [Next]_vars
  PROVE  SignalInv'
<1>1. CASE Mirror
  BY <1>1 DEF Mirror, SignalInv
<1>2. CASE UNCHANGED vars
  BY <1>2 DEF vars, SignalInv, Owing
<1>3. QED
  BY <1>1, <1>2, SignalStep DEF Next

LEMMA OwingIsBusy == SignalInv => ChangesSignalled
  BY DEF SignalInv, ChangesSignalled, Owing

(***************************************************************************)
(* The backup is told of every change that saving, moving and deleting     *)
(* make.  An upload is left out for a reason: a form whose first file is   *)
(* stored and whose second is refused returns without the signal.          *)
(***************************************************************************)
THEOREM EveryChangeSignalled ==
  ASSUME ~Cancellation, \A h \in Handlers : "upload" \notin Operations[h]
  PROVE  Spec => []ChangesSignalled
<1>1. TypeOK /\ AskedFor /\ [Next]_vars => AskedFor'
  BY AskedNext
<1>2. TypeOK /\ AskedFor /\ SignalInv /\ [Next]_vars => SignalInv'
  BY SignalNext
<1>3. QED
  BY <1>1, <1>2, AskedInit, SignalInit, OwingIsBusy, TypeCorrect, PTL DEF Spec

-----------------------------------------------------------------------------
(***************************************************************************)
(* Links match the body, while one handler at a time saves: the body that  *)
(* is in the row is the body whose links are still to be written.          *)
(***************************************************************************)
OneSaver == \A g, h \in Handlers : Saves(g) /\ Saves(h) => g = h

SeedMatches == \A x \in SeedLinks : x[2] \in Seed[x[1]].body

Relinking(n) == \E h \in Handlers : pc[h] = "link" /\ local[h].id = n

LinksCurrent == \A x \in links : x[2] \in nodes[x[1]].body \/ Relinking(x[1])

SavedBody(l) ==
  /\ l.id \in 1..(nextId - 1)
  /\ l.id \in DOMAIN nodes => nodes[l.id].body = l.body

BodiesSaved == \A h \in Handlers : pc[h] = "link" => SavedBody(local[h])

BodyInv == BodiesSaved /\ (~Cancellation => LinksCurrent)

\* The steps of a handler that is not saving and changes no body.
LEMMA BodyQuiet ==
  ASSUME TypeOK, TypeOK', BodyInv, NEW h \in Handlers, pc[h] # "link", links' \subseteq links,
         NEW label, label # "link", NEW l, Goto(h, label, l),
         nextId' \in Nat, nextId' >= nextId,
         \A n \in (DOMAIN nodes') \cap (1..(nextId - 1)) :
            n \in DOMAIN nodes /\ nodes'[n].body = nodes[n].body
  PROVE  BodyInv'
<1>1. ASSUME ~Cancellation PROVE LinksCurrent'
  <2>1. ASSUME NEW x \in links' PROVE x[2] \in nodes'[x[1]].body \/ Relinking(x[1])'
    <3>1. x[1] \in DOMAIN nodes /\ x[1] \in DOMAIN nodes' /\ x[1] \in 1..(nextId - 1)
      BY DEF TypeOK
    <3>2. CASE x[2] \in nodes[x[1]].body
      BY <3>1, <3>2
    <3>3. CASE Relinking(x[1])
      BY <3>3, GotoFrame DEF Relinking
    <3>4. QED
      BY <1>1, <3>2, <3>3 DEF BodyInv, LinksCurrent
  <2>2. QED
    BY <2>1 DEF LinksCurrent
<1>2. BodiesSaved'
  <2>1. ASSUME NEW g \in Handlers, pc'[g] = "link" PROVE SavedBody(local[g])'
    <3>1. local'[g] = local[g] /\ pc[g] = "link"
      BY <2>1, GotoFrame
    <3>2. SavedBody(local[g])
      BY <3>1 DEF BodyInv, BodiesSaved
    <3>3. QED
      BY <3>1, <3>2 DEF SavedBody, TypeOK
  <2>2. QED
    BY <2>1 DEF BodiesSaved
<1>3. QED
  BY <1>1, <1>2 DEF BodyInv

\* A new row has no links yet, and its saver has its body.
LEMMA BodyInsert ==
  ASSUME TypeOK, TypeOK', BodyInv, NEW h \in Handlers, pc[h] = "createInsert", CreateInsert(h)
  PROVE  BodyInv'
<1>1. CASE Fail(h)
  BY <1>1, BodyQuiet DEF Fail, Return, store, TypeOK
<1>2. CASE /\ InsertRow(h, local[h].kind)
           /\ Goto(h, "link", [local[h] EXCEPT !.id = nextId])
           /\ links' = links
  <2> DEFINE l == [local[h] EXCEPT !.id = nextId]
  <2>1. l.id = nextId /\ l.body = local[h].body
    BY DEF TypeOK, LocalType
  <2>2. /\ nextId' = nextId + 1 /\ nextId \in Nat \ {0} /\ DOMAIN nodes' = DOMAIN nodes \cup {nextId}
        /\ \A n \in DOMAIN nodes : n # nextId /\ nodes'[n] = nodes[n]
        /\ nodes'[nextId].body = local[h].body
    BY <1>2 DEF InsertRow, TypeOK
  <2>3. /\ pc'[h] = "link" /\ local'[h] = l
        /\ \A g \in Handlers \ {h} : pc'[g] = pc[g] /\ local'[g] = local[g]
    BY <1>2, GotoFrame
  <2> HIDE DEF l
  <2>4. ASSUME ~Cancellation PROVE LinksCurrent'
    <3>1. ASSUME NEW x \in links PROVE x[2] \in nodes'[x[1]].body \/ Relinking(x[1])'
      <4>1. x[1] \in DOMAIN nodes
        BY DEF TypeOK
      <4>2. QED
        BY <2>2, <2>3, <2>4, <4>1 DEF BodyInv, LinksCurrent, Relinking
    <3>2. QED
      BY <1>2, <3>1 DEF LinksCurrent
  <2>5. BodiesSaved'
    <3>1. ASSUME NEW g \in Handlers, pc'[g] = "link" PROVE SavedBody(local[g])'
      <4>1. CASE g = h
        BY <2>1, <2>2, <2>3, <4>1 DEF SavedBody
      <4>2. CASE g # h
        BY <2>2, <2>3, <3>1, <4>2 DEF BodyInv, BodiesSaved, SavedBody
      <4>3. QED
        BY <4>1, <4>2
    <3>2. QED
      BY <3>1 DEF BodiesSaved
  <2>6. QED
    BY <2>4, <2>5 DEF BodyInv
<1>3. QED
  BY <1>1, <1>2 DEF CreateInsert

\* The body is overwritten: nobody else is about to write the links of another.
LEMMA BodyWrite ==
  ASSUME TypeOK, TypeOK', BodyInv, AskedFor, OneSaver, NEW h \in Handlers, UpdateWrite(h)
  PROVE  BodyInv'
<1>1. CASE Fail(h)
  BY <1>1, BodyQuiet DEF Fail, Return, store, TypeOK, UpdateWrite
<1>2. CASE /\ local[h].id \in DOMAIN nodes
           /\ nodes' = [nodes EXCEPT ![local[h].id].name = local[h].name,
                                     ![local[h].id].slug = local[h].slug,
                                     ![local[h].id].body = local[h].body]
           /\ Goto(h, "link", local[h])
           /\ UNCHANGED <<nextId, links>>
  <2>1. /\ DOMAIN nodes' = DOMAIN nodes /\ nodes'[local[h].id].body = local[h].body
        /\ \A n \in DOMAIN nodes \ {local[h].id} : nodes'[n] = nodes[n]
    BY <1>2 DEF TypeOK, Row
  <2>2. /\ pc'[h] = "link" /\ local'[h] = local[h]
        /\ \A g \in Handlers \ {h} : pc'[g] = pc[g] /\ local'[g] = local[g]
    BY <1>2, GotoFrame
  <2>3. \A g \in Handlers \ {h} : pc[g] # "link"
    <3>1. Saves(h)
      BY DEF UpdateWrite, AskedFor, Justified, Saving
    <3>2. QED
      BY <3>1 DEF OneSaver, AskedFor, Justified, Saving
  <2>4. ASSUME ~Cancellation PROVE LinksCurrent'
    <3>1. ASSUME NEW x \in links PROVE x[2] \in nodes'[x[1]].body \/ Relinking(x[1])'
      <4>1. x[1] \in DOMAIN nodes
        BY DEF TypeOK
      <4>2. ~Relinking(x[1])
        BY <2>3 DEF Relinking, UpdateWrite
      <4>3. QED
        BY <2>1, <2>2, <2>4, <4>1, <4>2 DEF BodyInv, LinksCurrent, Relinking
    <3>2. QED
      BY <1>2, <3>1 DEF LinksCurrent
  <2>5. BodiesSaved'
    <3>1. local[h].id \in 1..(nextId' - 1)
      BY <1>2 DEF TypeOK
    <3>2. QED
      BY <2>1, <2>2, <2>3, <3>1 DEF BodiesSaved, SavedBody
  <2>6. QED
    BY <2>4, <2>5 DEF BodyInv
<1>3. QED
  BY <1>1, <1>2 DEF UpdateWrite

\* The links of the body are written, or the node is gone and has none.
LEMMA BodyLink ==
  ASSUME TypeOK, TypeOK', BodyInv, NEW h \in Handlers, Link(h)
  PROVE  BodyInv'
<1> DEFINE n == local[h].id
           found == {n} \X (local[h].body \cap rows)
<1>1. /\ pc[h] = "link" /\ UNCHANGED <<nodes, nextId>> /\ pc'[h] = "idle"
      /\ \A g \in Handlers \ {h} : pc'[g] = pc[g] /\ local'[g] = local[g]
  BY GotoFrame DEF Link, Fail, store, Return
<1>2. \/ links' = {x \in links : x[1] # n} \cup found
      \/ links' = links /\ n \notin DOMAIN nodes
  BY DEF Link, Fail, store
<1>3. SavedBody(local[h])
  BY <1>1 DEF BodyInv, BodiesSaved
<1>4. ASSUME ~Cancellation, NEW x \in links'
      PROVE  x[2] \in nodes'[x[1]].body \/ Relinking(x[1])'
  <2>1. x[1] \in DOMAIN nodes
    BY <1>1 DEF TypeOK
  <2>2. CASE x \in found
    BY <1>1, <1>3, <2>1, <2>2 DEF SavedBody
  <2>3. CASE x \in links /\ x[1] # n
    BY <1>1, <1>4, <2>1, <2>3 DEF BodyInv, LinksCurrent, Relinking
  <2>4. QED
    BY <1>2, <2>1, <2>2, <2>3
<1>5. BodiesSaved'
  BY <1>1 DEF BodyInv, BodiesSaved, SavedBody
<1>6. QED
  BY <1>4, <1>5 DEF BodyInv, LinksCurrent

LEMMA BodyStep ==
  ASSUME TypeOK, TypeOK', BodyInv, AskedFor, OneSaver,
         NEW h \in Handlers, Step(h)
  PROVE  BodyInv'
<1> DEFINE SameBodies == /\ nextId' \in Nat /\ nextId' >= nextId
                         /\ \A n \in (DOMAIN nodes') \cap (1..(nextId - 1)) :
                               n \in DOMAIN nodes /\ nodes'[n].body = nodes[n].body
<1>1. CASE UpdateWrite(h) \/ CreateInsert(h) \/ Link(h)
  BY <1>1, BodyWrite, BodyInsert, BodyLink DEF CreateInsert
<1>2. ASSUME UNCHANGED <<nodes, nextId>> PROVE SameBodies
  BY <1>2 DEF TypeOK
<1>3. CASE \/ CreateStart(h) \/ SpaceSlug(h) \/ UpdateStart(h)
           \/ RemoveStart(h) \/ MoveStart(h)
  <2>1. \E label, l : label # "link" /\ Goto(h, label, l)
    <3>1. CASE CreateStart(h) \/ SpaceSlug(h)
      BY <3>1 DEF CreateStart, SpaceSlug
    <3>2. CASE UpdateStart(h)
      BY <3>2 DEF UpdateStart
    <3>3. CASE RemoveStart(h) \/ MoveStart(h)
      BY <3>3 DEF RemoveStart, MoveStart
    <3>4. QED
      BY <1>3, <3>1, <3>2, <3>3
  <2>2. UNCHANGED store /\ pc[h] = "idle"
    BY <1>3 DEF CreateStart, SpaceSlug, UpdateStart, RemoveStart, MoveStart, Asked
  <2>3. QED
    BY <1>2, <2>1, <2>2, BodyQuiet DEF store
<1>4. CASE \/ CreateSlug(h) \/ UpdateSlug(h) \/ MoveSlug(h)
           \/ RemoveMedia(h) \/ MoveCheck(h) \/ MoveName(h)
  <2>1. \E label, l : label # "link" /\ Goto(h, label, l)
    <3>1. CASE CreateSlug(h) \/ UpdateSlug(h) \/ MoveSlug(h)
      BY <3>1 DEF CreateSlug, UpdateSlug, MoveSlug, ReadSlug, Return
    <3>2. CASE RemoveMedia(h) \/ MoveCheck(h) \/ MoveName(h)
      BY <3>2 DEF RemoveMedia, MoveCheck, MoveName, Return
    <3>3. QED
      BY <1>4, <3>1, <3>2
  <2>2. UNCHANGED store /\ pc[h] # "link"
    BY <1>4 DEF CreateSlug, UpdateSlug, MoveSlug, ReadSlug, RemoveMedia, MoveCheck, MoveName
  <2>3. QED
    BY <1>2, <2>1, <2>2, BodyQuiet DEF store
<1>5. CASE SpaceInsert(h)
  <2>1. SameBodies
    BY <1>5 DEF SpaceInsert, InsertRow, TypeOK
  <2>2. QED
    BY <1>5, <2>1, BodyQuiet DEF SpaceInsert, Return
<1>6. CASE MoveWrite(h)
  <2>1. CASE UNCHANGED <<nodes, nextId>>
    BY <1>2, <1>6, <2>1, BodyQuiet DEF MoveWrite, Fail, store, Return
  <2>2. CASE /\ nodes' = [nodes EXCEPT ![local[h].id].parent = local[h].parent,
                                       ![local[h].id].slug = local[h].slug]
             /\ nextId' = nextId /\ links' = links /\ Return(h)
    <3>1. SameBodies
      BY <2>2 DEF TypeOK, Row
    <3>2. QED
      BY <1>6, <2>2, <3>1, BodyQuiet DEF MoveWrite, Return
  <2>3. QED
    BY <1>6, <2>1, <2>2 DEF MoveWrite, Fail, store
<1>7. CASE RemoveDelete(h)
  <2>1. SameBodies /\ links' \subseteq links
    BY <1>7 DEF RemoveDelete, Fail, store, TypeOK
  <2>2. pc[h] # "link" /\ (Return(h) \/ Goto(h, "orphanRow", local[h]))
    BY <1>7 DEF RemoveDelete, Fail
  <2>3. QED
    BY <2>1, <2>2, BodyQuiet DEF Return
<1>8. CASE \/ OrphanRow(h) \/ DeleteMedia(h) \/ UnlinkFile(h)
           \/ UploadFile(h) \/ UploadRow(h) \/ UploadEnd(h)
  <2>1. SameBodies /\ links' \subseteq links /\ pc[h] # "link"
    <3>1. UNCHANGED <<nodes, nextId>>
      BY <1>8 DEF OrphanRow, DeleteMedia, DeleteRow, UnlinkFile, UploadFile, UploadRow,
                  UploadEnd, store
    <3>2. links' \subseteq links
      BY <1>8 DEF OrphanRow, DeleteMedia, DeleteRow, UnlinkFile, UploadFile, UploadRow,
                  UploadEnd, store
    <3>3. pc[h] # "link"
      BY <1>8 DEF OrphanRow, DeleteMedia, UnlinkFile, UploadFile, UploadRow, UploadEnd, Asked
    <3>4. QED
      BY <1>2, <3>1, <3>2, <3>3
  <2>2. \E label, l : label # "link" /\ Goto(h, label, l)
    <3>1. CASE OrphanRow(h) \/ DeleteMedia(h) \/ UnlinkFile(h)
      BY <3>1 DEF OrphanRow, DeleteMedia, UnlinkFile, Return
    <3>2. CASE UploadFile(h) \/ UploadRow(h) \/ UploadEnd(h)
      BY <3>2 DEF UploadFile, UploadRow, UploadEnd, Return
    <3>3. QED
      BY <1>8, <3>1, <3>2
  <2>3. QED
    BY <2>1, <2>2, BodyQuiet
<1>9. CASE Abandon(h)      \* the links it leaves unwritten are why Cancellation matters
  <2>1. Cancellation /\ Return(h) /\ UNCHANGED <<nodes, nextId>>
    BY <1>9 DEF Abandon, Fail, store
  <2>2. BodiesSaved'
    BY <2>1, GotoFrame DEF Return, BodyInv, BodiesSaved, SavedBody
  <2>3. QED
    BY <2>1, <2>2 DEF BodyInv
<1>10. QED
  BY <1>1, <1>3, <1>4, <1>5, <1>6, <1>7, <1>8, <1>9 DEF Step

LEMMA BodyInit == Init /\ SeedMatches => BodyInv
  BY DEF Init, SeedMatches, BodyInv, LinksCurrent, BodiesSaved

LEMMA BodyNext ==
  ASSUME TypeOK, TypeOK', BodyInv, AskedFor, OneSaver, [Next]_vars
  PROVE  BodyInv'
<1>1. CASE UNCHANGED <<nodes, nextId, links, pc, local>>
  BY <1>1 DEF BodyInv, LinksCurrent, BodiesSaved, SavedBody, Relinking
<1>2. QED
  BY <1>1, BodyStep DEF Next, Mirror, vars

LEMMA CurrentMatches == BodyInv /\ ~Cancellation => LinksMatchBody
  BY DEF BodyInv, LinksCurrent, Relinking, LinksMatchBody, Settled

(***************************************************************************)
(* A document nobody is saving is attached to no file its body no longer   *)
(* mentions, while one handler at a time saves.                            *)
(***************************************************************************)
THEOREM LinksFollowBody ==
  ASSUME ~Cancellation, OneSaver, SeedMatches
  PROVE  Spec => []LinksMatchBody
<1>1. Init => BodyInv
  BY BodyInit
<1>2. TypeOK /\ AskedFor /\ [Next]_vars => AskedFor'
  BY AskedNext
<1>3. TypeOK /\ TypeOK' /\ AskedFor /\ BodyInv /\ [Next]_vars => BodyInv'
  BY BodyNext
<1>4. QED
  BY <1>1, <1>2, <1>3, AskedInit, CurrentMatches, TypeCorrect, PTL DEF Spec

-----------------------------------------------------------------------------
(***************************************************************************)
(* Subtrees across a write.  Below(T, id) is Descendants(id) of a table T; *)
(* it is compared between the table before a statement and after it.       *)
(***************************************************************************)
Closed(T, S) == \A n \in DOMAIN T : T[n].parent \in S => n \in S

Below(T, id) ==
  {n \in DOMAIN T : /\ id \in DOMAIN T
                    /\ \A S \in SUBSET DOMAIN T : id \in S /\ Closed(T, S) => n \in S}

LEMMA BelowNodes ==
  /\ \A id : Descendants(id) = Below(nodes, id)
  /\ \A id : Descendants(id)' = Below(nodes', id)
  BY DEF Descendants, ChildClosed, Below, Closed

\* The subtree is itself closed, and the least that is.
LEMMA BelowLeast ==
  ASSUME NEW T, NEW id \in DOMAIN T
  PROVE  /\ id \in Below(T, id) /\ Closed(T, Below(T, id))
         /\ \A S \in SUBSET DOMAIN T : id \in S /\ Closed(T, S) => Below(T, id) \subseteq S
  BY DEF Below, Closed

LEMMA BelowTrans ==
  ASSUME NEW T, NEW a, NEW b \in Below(T, a), NEW c \in Below(T, b)
  PROVE  c \in Below(T, a)
  BY DEF Below

\* A table with the same parents has the same subtrees.
LEMMA BelowSame ==
  ASSUME NEW T, NEW U, DOMAIN U = DOMAIN T, \A n \in DOMAIN T : U[n].parent = T[n].parent,
         NEW id
  PROVE  Below(U, id) = Below(T, id)
  BY DEF Below, Closed

\* A new row takes nothing out of a subtree.
LEMMA BelowGrows ==
  ASSUME NEW T, NEW U, DOMAIN T \subseteq DOMAIN U,
         \A n \in DOMAIN T : U[n].parent = T[n].parent, NEW id
  PROVE  Below(T, id) \subseteq Below(U, id)
<1> SUFFICES ASSUME NEW n \in Below(T, id), NEW S \in SUBSET DOMAIN U, id \in S, Closed(U, S)
             PROVE  n \in S
  BY DEF Below
<1>1. id \in S \cap DOMAIN T /\ Closed(T, S \cap DOMAIN T)
  BY DEF Closed, Below
<1>2. QED
  BY <1>1 DEF Below

\* A new row has no children, and adds itself alone.
LEMMA BelowGrowsByOne ==
  ASSUME NEW T, NEW U, NEW k, DOMAIN U = DOMAIN T \cup {k},
         \A n \in DOMAIN T : U[n].parent = T[n].parent /\ T[n].parent # k,
         NEW id \in DOMAIN T
  PROVE  Below(U, id) \subseteq Below(T, id) \cup {k}
<1>1. Closed(U, Below(T, id) \cup {k})
  BY BelowLeast DEF Closed
<1>2. Below(T, id) \cup {k} \in SUBSET DOMAIN U
  BY DEF Below
<1>3. QED
  BY <1>1, <1>2, BelowLeast

\* Rows that go take nothing along but what is below them.
LEMMA BelowShrinks ==
  ASSUME NEW T, NEW U, NEW gone, Closed(T, gone), DOMAIN U = DOMAIN T \ gone,
         \A n \in DOMAIN U : U[n].parent = T[n].parent, NEW id \in DOMAIN U
  PROVE  /\ Below(U, id) \subseteq Below(T, id)
         /\ Below(T, id) \subseteq Below(U, id) \cup gone
<1>1. Below(U, id) \subseteq Below(T, id)
  <2>1. Closed(U, Below(T, id) \cap DOMAIN U) /\ id \in Below(T, id) \cap DOMAIN U
    BY BelowLeast DEF Closed
  <2>2. QED
    BY <2>1, BelowLeast
<1>2. Below(T, id) \subseteq Below(U, id) \cup gone
  <2>1. Closed(T, Below(U, id) \cup (gone \cap DOMAIN T)) /\ id \in Below(U, id)
    BY BelowLeast DEF Closed
  <2>2. Below(U, id) \cup (gone \cap DOMAIN T) \in SUBSET DOMAIN T
    BY DEF Below
  <2>3. QED
    BY <2>1, <2>2, BelowLeast
<1>3. QED
  BY <1>1, <1>2

\* A subtree moved below a node outside it leaves the other subtrees as they
\* are but for itself, and hangs below its new parent with all it holds.
LEMMA BelowMoved ==
  ASSUME NEW T, NEW U, NEW id \in DOMAIN T, NEW p \in DOMAIN T \ Below(T, id),
         DOMAIN U = DOMAIN T, U[id].parent = p,
         \A n \in DOMAIN T \ {id} : U[n].parent = T[n].parent,
         NEW r \in DOMAIN T \ Below(T, id)
  PROVE  /\ Below(T, r) \subseteq Below(U, r) \cup Below(T, id)
         /\ p \in Below(T, r) => Below(T, id) \subseteq Below(U, r)
<1>1. Closed(T, Below(U, r) \cup Below(T, id)) /\ r \in Below(U, r)
  BY BelowLeast DEF Closed
<1>2. Below(U, r) \cup Below(T, id) \in SUBSET DOMAIN T
  BY DEF Below
<1>3. Below(T, r) \subseteq Below(U, r) \cup Below(T, id)
  BY <1>1, <1>2, BelowLeast
<1>4. ASSUME p \in Below(T, r) PROVE Below(T, id) \subseteq Below(U, r)
  <2>1. p \in Below(U, r)
    BY <1>3, <1>4
  <2>2. id \in Below(U, r)
    BY <2>1, BelowLeast DEF Closed
  <2>3. Closed(T, Below(U, r))
    BY <2>2, BelowLeast DEF Closed
  <2>4. QED
    BY <2>2, <2>3, BelowLeast DEF Below
<1>5. QED
  BY <1>3, <1>4

-----------------------------------------------------------------------------
(***************************************************************************)
(* Shared files survive, while one handler at a time saves, moves and      *)
(* removes.  What remove looked up in three statements still holds at the  *)
(* fourth: the subtree it deletes holds all it looked at, so no link to a  *)
(* file exclusive to it is left.                                           *)
(***************************************************************************)
Alters(h) == Saves(h) \/ "remove" \in Operations[h] \/ "move" \in Operations[h]

OneAuthor == \A g, h \in Handlers : Alters(g) /\ Alters(h) => g = h

\* What holds of a removal's locals l, of a table T of nodes and L of links.
StillBelow(T, l) == l.subtree \subseteq Below(T, l.id)

StillExclusive(T, L, l) ==
  \A m \in l.media : \A n \in (DOMAIN T) \ l.subtree : <<n, m>> \notin L

StillUnlinked(T, L, l) == \A m \in l.media : \A n \in DOMAIN T : <<n, m>> \notin L

Foreseen(T, L, label, l) ==
  /\ label \in {"removeMedia", "removeDelete"} => StillBelow(T, l)
  /\ label = "removeDelete" => StillExclusive(T, L, l)
  /\ label \in {"orphanRow", "unlinkFile"} => StillUnlinked(T, L, l)

RemovalsForeseen == \A h \in Handlers : Foreseen(nodes, links, pc[h], local[h])

\* A handler that is not the author adds roots and takes links away.
LEMMA BystanderStep ==
  ASSUME TypeOK, AskedFor, NEW h \in Handlers, ~Alters(h), Step(h)
  PROVE  /\ links' \subseteq links
         /\ DOMAIN nodes \subseteq DOMAIN nodes'
         /\ \A n \in DOMAIN nodes : nodes'[n] = nodes[n]
<1>1. pc[h] \notin Saving \cup Removing \cup Moving
  BY DEF AskedFor, Justified, Alters
<1>2. CASE UNCHANGED store
  BY <1>2 DEF store
<1>3. CASE SpaceInsert(h)
  BY <1>3 DEF SpaceInsert, InsertRow, TypeOK
<1>4. CASE \/ OrphanRow(h) \/ DeleteMedia(h) \/ UnlinkFile(h)
           \/ UploadFile(h) \/ UploadRow(h) \/ UploadEnd(h)
  BY <1>4 DEF OrphanRow, DeleteMedia, DeleteRow, UnlinkFile, UploadFile, UploadRow,
              UploadEnd, store
<1>5. CASE \/ CreateStart(h) \/ SpaceSlug(h) \/ UpdateStart(h)
           \/ RemoveStart(h) \/ MoveStart(h) \/ Abandon(h)
  BY <1>2, <1>5
     DEF CreateStart, SpaceSlug, UpdateStart, RemoveStart, MoveStart, Abandon, Fail
<1>6. ~(CreateSlug(h) \/ CreateInsert(h) \/ Link(h) \/ UpdateSlug(h) \/ UpdateWrite(h))
  BY <1>1 DEF CreateSlug, CreateInsert, Link, UpdateSlug, UpdateWrite, ReadSlug, Saving
<1>7. ~(RemoveMedia(h) \/ RemoveDelete(h))
  BY <1>1 DEF RemoveMedia, RemoveDelete, Removing
<1>8. ~(MoveCheck(h) \/ MoveName(h) \/ MoveSlug(h) \/ MoveWrite(h))
  BY <1>1 DEF MoveCheck, MoveName, MoveSlug, MoveWrite, ReadSlug, Moving
<1>9. QED
  BY <1>3, <1>4, <1>5, <1>6, <1>7, <1>8 DEF Step

\* What a removal foresaw survives a step that only adds nodes and takes links.
LEMMA ForeseenKept ==
  ASSUME TypeOK, NEW label, NEW l, Foreseen(nodes, links, label, l), links' \subseteq links,
         DOMAIN nodes \subseteq DOMAIN nodes',
         \A n \in DOMAIN nodes : nodes'[n].parent = nodes[n].parent
  PROVE  Foreseen(nodes', links', label, l)
<1>1. Below(nodes, l.id) \subseteq Below(nodes', l.id)
  BY BelowGrows
<1>2. StillBelow(nodes, l) => StillBelow(nodes', l)
  BY <1>1 DEF StillBelow
<1>3. \A n, m : <<n, m>> \in links' => n \in DOMAIN nodes /\ <<n, m>> \in links
  BY DEF TypeOK
<1>4. StillExclusive(nodes, links, l) => StillExclusive(nodes', links', l)
  BY <1>3 DEF StillExclusive
<1>5. StillUnlinked(nodes, links, l) => StillUnlinked(nodes', links', l)
  BY <1>3 DEF StillUnlinked
<1>6. QED
  BY <1>2, <1>4, <1>5 DEF Foreseen

\* The author's own step: nobody else is removing anything that matters.
LEMMA ForeseenByAuthor ==
  ASSUME TypeOK, AskedFor, OneAuthor, RemovalsForeseen,
         NEW h \in Handlers, Alters(h), NEW label, NEW l, Goto(h, label, l),
         Foreseen(nodes', links', label, l)
  PROVE  RemovalsForeseen'
<1>1. ASSUME NEW g \in Handlers \ {h} PROVE Foreseen(nodes', links', pc'[g], local'[g])
  <2>1. ~Alters(g)
    BY DEF OneAuthor
  <2>2. pc[g] \notin Removing /\ (pc[g] = "unlinkFile" => local[g].media = {})
    BY <2>1 DEF AskedFor, Justified, Alters
  <2>3. pc'[g] = pc[g] /\ local'[g] = local[g]
    BY GotoFrame
  <2>4. QED
    BY <2>2, <2>3 DEF Foreseen, StillUnlinked, Removing
<1>2. Foreseen(nodes', links', pc'[h], local'[h])
  BY GotoFrame
<1>3. QED
  BY <1>1, <1>2 DEF RemovalsForeseen

\* Any handler's step that only adds nodes and takes links.
LEMMA ForeseenQuiet ==
  ASSUME TypeOK, RemovalsForeseen, NEW h \in Handlers, NEW label, NEW l, Goto(h, label, l),
         Foreseen(nodes', links', label, l), links' \subseteq links,
         DOMAIN nodes \subseteq DOMAIN nodes',
         \A n \in DOMAIN nodes : nodes'[n].parent = nodes[n].parent
  PROVE  RemovalsForeseen'
<1>1. ASSUME NEW g \in Handlers \ {h} PROVE Foreseen(nodes', links', pc'[g], local'[g])
  <2>1. Foreseen(nodes', links', pc[g], local[g])
    BY ForeseenKept DEF RemovalsForeseen
  <2>2. QED
    BY <2>1, GotoFrame
<1>2. QED
  BY <1>1, GotoFrame DEF RemovalsForeseen

LEMMA ForeseenRemoval ==
  ASSUME TypeOK, AskedFor, OneAuthor, RemovalsForeseen, NEW h \in Handlers,
         \/ RemoveStart(h) \/ RemoveMedia(h) \/ RemoveDelete(h)
  PROVE  RemovalsForeseen'
<1>1. local[h] \in LocalType /\ Foreseen(nodes, links, pc[h], local[h])
  BY DEF TypeOK, RemovalsForeseen
<1>2. Alters(h)
  BY DEF RemoveStart, RemoveMedia, RemoveDelete, Asked, Alters, AskedFor, Justified, Removing
<1>3. CASE RemoveStart(h)
  <2>1. PICK id : Goto(h, "removeMedia", [Empty EXCEPT !.id = id, !.subtree = Descendants(id)])
    BY <1>3 DEF RemoveStart
  <2> DEFINE l == [Empty EXCEPT !.id = id, !.subtree = Descendants(id)]
  <2>2. l.id = id /\ l.subtree = Descendants(id) /\ nodes' = nodes
    BY <1>3 DEF Empty, RemoveStart, store
  <2>3. Goto(h, "removeMedia", l)
    BY <2>1
  <2> HIDE DEF l
  <2>4. StillBelow(nodes', l)
    BY <2>2, BelowNodes DEF StillBelow
  <2>5. QED
    BY <1>2, <2>3, <2>4, ForeseenByAuthor DEF Foreseen
<1>4. CASE RemoveMedia(h)
  <2> DEFINE l == [local[h] EXCEPT !.media = ExclusiveMedia(local[h].subtree)]
  <2>1. /\ l.id = local[h].id /\ l.subtree = local[h].subtree
        /\ l.media = ExclusiveMedia(local[h].subtree)
    BY <1>1 DEF LocalType
  <2>2. Goto(h, "removeDelete", l) /\ nodes' = nodes /\ links' = links
    BY <1>4 DEF RemoveMedia, store
  <2> HIDE DEF l
  <2>3. StillBelow(nodes', l)
    BY <1>1, <1>4, <2>1, <2>2, BelowNodes DEF Foreseen, StillBelow, RemoveMedia
  <2>4. StillExclusive(nodes', links', l)
    BY <2>1, <2>2 DEF StillExclusive, ExclusiveMedia
  <2>5. QED
    BY <1>2, <2>2, <2>3, <2>4, ForeseenByAuthor DEF Foreseen
<1>5. CASE RemoveDelete(h)
  <2> DEFINE gone == Descendants(local[h].id)
  <2>1. CASE Return(h)
    BY <1>2, <2>1, ForeseenByAuthor DEF Return, Foreseen
  <2>2. CASE /\ nodes' = [n \in DOMAIN nodes \ gone |-> nodes[n]]
             /\ links' = {x \in links : x[1] \notin gone}
             /\ Goto(h, "orphanRow", local[h])
    <3>1. local[h].subtree \subseteq gone /\ StillExclusive(nodes, links, local[h])
      BY <1>1, <1>5, BelowNodes DEF Foreseen, StillBelow, RemoveDelete
    <3>2. StillUnlinked(nodes', links', local[h])
      BY <2>2, <3>1 DEF StillUnlinked, StillExclusive
    <3>3. QED
      BY <1>2, <2>2, <3>2, ForeseenByAuthor DEF Foreseen
  <2>3. QED
    BY <1>5, <2>1, <2>2 DEF RemoveDelete, Fail
<1>6. QED
  BY <1>3, <1>4, <1>5

\* The files a removal still has to delete, one less or all of them.
LEMMA ForeseenDeletion ==
  ASSUME TypeOK, RemovalsForeseen, NEW h \in Handlers,
         OrphanRow(h) \/ DeleteMedia(h) \/ UnlinkFile(h)
  PROVE  RemovalsForeseen'
<1>1. local[h] \in LocalType /\ Foreseen(nodes, links, pc[h], local[h])
  BY DEF TypeOK, RemovalsForeseen
<1>2. nodes' = nodes /\ links' \subseteq links
  BY DEF OrphanRow, DeleteMedia, UnlinkFile, DeleteRow
<1>3. \E label, l : /\ Goto(h, label, l) /\ label \in {"idle", "orphanRow", "unlinkFile"}
                    /\ label # "idle" => StillUnlinked(nodes', links', l)
  <2>1. CASE OrphanRow(h)
    <3>1. PICK m : Goto(h, "unlinkFile", [local[h] EXCEPT !.media = @ \ {m}, !.file = {m}])
      BY <2>1 DEF OrphanRow
    <3> DEFINE l == [local[h] EXCEPT !.media = @ \ {m}, !.file = {m}]
    <3>2. Goto(h, "unlinkFile", l) /\ l.media \subseteq local[h].media
      BY <1>1, <3>1 DEF LocalType
    <3> HIDE DEF l
    <3>3. StillUnlinked(nodes', links', l)
      BY <1>1, <1>2, <2>1, <3>2 DEF StillUnlinked, Foreseen, OrphanRow
    <3>4. QED
      BY <3>2, <3>3
  <2>2. CASE DeleteMedia(h)
    <3>1. PICK m : Goto(h, "unlinkFile", [Empty EXCEPT !.file = {m}])
      BY <2>2 DEF DeleteMedia
    <3>2. StillUnlinked(nodes', links', [Empty EXCEPT !.file = {m}])
      BY DEF StillUnlinked, Empty
    <3>3. QED
      BY <3>1, <3>2
  <2>3. CASE UnlinkFile(h)
    <3> DEFINE l == [local[h] EXCEPT !.file = {}]
    <3>1. l.media = local[h].media
      BY <1>1 DEF LocalType
    <3>2. Return(h) \/ Goto(h, "orphanRow", l)
      BY <2>3 DEF UnlinkFile
    <3> HIDE DEF l
    <3>3. StillUnlinked(nodes', links', l)
      BY <1>1, <1>2, <2>3, <3>1 DEF StillUnlinked, Foreseen, UnlinkFile
    <3>4. QED
      BY <3>2, <3>3 DEF Return
  <2>4. QED
    BY <2>1, <2>2, <2>3
<1>4. QED
  BY <1>2, <1>3, ForeseenQuiet DEF Foreseen

LEMMA ForeseenStep ==
  ASSUME TypeOK, AskedFor, OneAuthor, RemovalsForeseen, NEW h \in Handlers, Step(h)
  PROVE  RemovalsForeseen'
<1> DEFINE Other(label) ==
             label \notin {"removeMedia", "removeDelete", "orphanRow", "unlinkFile"}
<1>1. CASE \/ RemoveStart(h) \/ RemoveMedia(h) \/ RemoveDelete(h)
           \/ OrphanRow(h) \/ DeleteMedia(h) \/ UnlinkFile(h)
  BY <1>1, ForeseenRemoval, ForeseenDeletion
<1>2. SUFFICES ASSUME ~(\/ RemoveStart(h) \/ RemoveMedia(h) \/ RemoveDelete(h)
                        \/ OrphanRow(h) \/ DeleteMedia(h) \/ UnlinkFile(h))
               PROVE  RemovalsForeseen'
  BY <1>1
<1>3. \E label : Other(label) /\ \E l : Goto(h, label, l)
  <2>1. CASE CreateStart(h) \/ SpaceSlug(h)
    BY <2>1 DEF CreateStart, SpaceSlug
  <2>2. CASE UpdateStart(h)
    BY <2>2 DEF UpdateStart
  <2>3. CASE CreateSlug(h) \/ UpdateSlug(h) \/ MoveSlug(h)
    BY <2>3 DEF CreateSlug, UpdateSlug, MoveSlug, ReadSlug, Return
  <2>4. CASE CreateInsert(h) \/ UpdateWrite(h) \/ Link(h) \/ SpaceInsert(h)
    BY <2>4 DEF CreateInsert, UpdateWrite, Link, SpaceInsert, Fail, Return
  <2>5. CASE MoveStart(h) \/ MoveCheck(h) \/ MoveName(h) \/ MoveWrite(h)
    BY <2>5 DEF MoveStart, MoveCheck, MoveName, MoveWrite, Fail, Return
  <2>6. CASE UploadFile(h) \/ UploadRow(h) \/ UploadEnd(h) \/ Abandon(h)
    BY <2>6 DEF UploadFile, UploadRow, UploadEnd, Abandon, Fail, Return
  <2>7. QED
    BY <1>2, <2>1, <2>2, <2>3, <2>4, <2>5, <2>6 DEF Step
<1>4. CASE Alters(h)
  BY <1>3, <1>4, ForeseenByAuthor DEF Foreseen
<1>5. CASE ~Alters(h)
  BY <1>3, <1>5, BystanderStep, ForeseenQuiet DEF Foreseen
<1>6. QED
  BY <1>4, <1>5

LEMMA ForeseenInit == Init => RemovalsForeseen
  BY DEF Init, RemovalsForeseen, Foreseen

LEMMA ForeseenNext ==
  ASSUME TypeOK, AskedFor, OneAuthor, RemovalsForeseen, [Next]_vars
  PROVE  RemovalsForeseen'
<1>1. CASE UNCHANGED <<nodes, links, pc, local>>
  BY <1>1 DEF RemovalsForeseen
<1>2. QED
  BY <1>1, ForeseenStep DEF Next, Mirror, vars

LEMMA ForeseenSpares ==
  ASSUME RemovalsForeseen, NEW h \in Handlers, OrphanRow(h),
         NEW m \in rows \ rows', NEW n \in DOMAIN nodes
  PROVE  <<n, m>> \notin links
<1>1. m \in local[h].media
  BY DEF OrphanRow, DeleteRow
<1>2. StillUnlinked(nodes, links, local[h])
  BY DEF OrphanRow, RemovalsForeseen, Foreseen
<1>3. QED
  BY <1>1, <1>2 DEF StillUnlinked

(***************************************************************************)
(* Deleting a document takes no file away from another that embeds it,     *)
(* while one handler at a time saves, moves and removes.                   *)
(***************************************************************************)
THEOREM OthersKeepTheirFiles == ASSUME OneAuthor PROVE Spec => SharedFilesSurvive
<1>1. TypeOK /\ AskedFor /\ [Next]_vars => AskedFor'
  BY AskedNext
<1>2. TypeOK /\ AskedFor /\ RemovalsForeseen /\ [Next]_vars => RemovalsForeseen'
  BY ForeseenNext
<1>3. RemovalsForeseen =>
        [\A h \in Handlers : OrphanRow(h) =>
           \A m \in rows \ rows' : \A n \in DOMAIN nodes : <<n, m>> \notin links]_vars
  BY ForeseenSpares
<1>4. QED
  BY <1>1, <1>2, <1>3, AskedInit, ForeseenInit, TypeCorrect, PTL DEF Spec, SharedFilesSurvive

-----------------------------------------------------------------------------
(***************************************************************************)
(* Every node hangs below a root, while one handler at a time moves.  What *)
(* MoveCheck read, that the target is not below the node, still holds at   *)
(* MoveWrite: the other handlers add nodes with no children and delete     *)
(* whole subtrees, and neither puts a node below another.                  *)
(***************************************************************************)
OneMover ==
  \A g, h \in Handlers : "move" \in Operations[g] /\ "move" \in Operations[h] => g = h

RootedIn(T) ==
  \A n \in DOMAIN T : \E r \in DOMAIN T : T[r].parent = Null /\ n \in Below(T, r)

\* Move h to p in T is no cycle.
OutOf(T, l) == l.parent \notin Below(T, l.id)

MovesClear ==
  \A h \in Handlers :
    /\ pc[h] \in Moving => local[h].id \in 1..(nextId - 1)
    /\ pc[h] \in Moving \ {"moveCheck"} => OutOf(nodes, local[h])

RootInv == Rooted /\ MovesClear

LEMMA RootedNodes == (Rooted <=> RootedIn(nodes)) /\ (Rooted' <=> RootedIn(nodes'))
  BY BelowNodes DEF Rooted, RootedIn

\* The four things a step can do to the shape of the tree.
TreeKept ==
  /\ DOMAIN nodes' = DOMAIN nodes
  /\ \A n \in DOMAIN nodes : nodes'[n].parent = nodes[n].parent

TreeGrows ==
  /\ DOMAIN nodes' = DOMAIN nodes \cup {nextId}
  /\ \A n \in DOMAIN nodes : nodes'[n].parent = nodes[n].parent
  /\ nodes'[nextId].parent \in {Null} \cup DOMAIN nodes

TreeShrinks ==
  \E id \in DOMAIN nodes :
    /\ DOMAIN nodes' = DOMAIN nodes \ Below(nodes, id)
    /\ \A n \in DOMAIN nodes' : nodes'[n].parent = nodes[n].parent

TreeMoved(h) ==
  /\ pc[h] = "moveWrite"
  /\ local[h].id \in DOMAIN nodes /\ local[h].parent \in DOMAIN nodes
  /\ DOMAIN nodes' = DOMAIN nodes
  /\ nodes'[local[h].id].parent = local[h].parent
  /\ \A n \in DOMAIN nodes \ {local[h].id} : nodes'[n].parent = nodes[n].parent

LEMMA TreeStep ==
  ASSUME TypeOK, LeafInv, NEW h \in Handlers, Step(h)
  PROVE  TreeKept \/ TreeGrows \/ TreeShrinks \/ TreeMoved(h)
<1>1. CASE nodes' = nodes
  BY <1>1 DEF TreeKept
<1>2. SUFFICES ASSUME nodes' # nodes
               PROVE  TreeKept \/ TreeGrows \/ TreeShrinks \/ TreeMoved(h)
  BY <1>1
<1>3. \/ CreateInsert(h) \/ SpaceInsert(h) \/ UpdateWrite(h)
      \/ MoveWrite(h) \/ RemoveDelete(h)
  BY <1>2 DEF Step, CreateStart, CreateSlug, Link, SpaceSlug, UpdateStart,
              UpdateSlug, RemoveStart, RemoveMedia, OrphanRow, DeleteRow,
              UnlinkFile, DeleteMedia, MoveStart, MoveCheck, MoveName,
              MoveSlug, UploadFile, UploadRow, UploadEnd, Abandon, Fail,
              ReadSlug, store
<1>4. ASSUME NEW kind, InsertRow(h, kind), local[h].parent \in {Null} \cup DOMAIN nodes
      PROVE  TreeGrows
  BY <1>4 DEF InsertRow, TreeGrows, TypeOK
<1>5. CASE CreateInsert(h)
  BY <1>2, <1>4, <1>5 DEF CreateInsert, Fail, store
<1>6. CASE SpaceInsert(h)
  BY <1>4, <1>6 DEF SpaceInsert, LeafInv, TargetsFit
<1>7. CASE UpdateWrite(h)
  <2>1. nodes' = [nodes EXCEPT ![local[h].id].name = local[h].name,
                               ![local[h].id].slug = local[h].slug,
                               ![local[h].id].body = local[h].body]
    BY <1>2, <1>7 DEF UpdateWrite, Fail, store
  <2>2. QED
    BY <2>1 DEF TreeKept, TypeOK, Row
<1>8. CASE MoveWrite(h)
  <2>1. /\ local[h].id \in DOMAIN nodes /\ local[h].parent \in DOMAIN nodes
        /\ nodes' = [nodes EXCEPT ![local[h].id].parent = local[h].parent,
                                  ![local[h].id].slug = local[h].slug]
    BY <1>2, <1>8 DEF MoveWrite, Fail, store
  <2>2. QED
    BY <1>8, <2>1 DEF TreeMoved, TypeOK, Row, MoveWrite
<1>9. CASE RemoveDelete(h)
  <2>1. /\ local[h].id \in DOMAIN nodes
        /\ nodes' = [n \in DOMAIN nodes \ Below(nodes, local[h].id) |-> nodes[n]]
    BY <1>2, <1>9, BelowNodes DEF RemoveDelete, Fail, store
  <2>2. QED
    BY <2>1 DEF TreeShrinks
<1>10. QED
  BY <1>3, <1>5, <1>6, <1>7, <1>8, <1>9

LEMMA RootsAfterInsert ==
  ASSUME NEW T, NEW U, NEW k, DOMAIN U = DOMAIN T \cup {k}, RootedIn(T),
         \A n \in DOMAIN T : U[n].parent = T[n].parent, k \notin DOMAIN T,
         U[k].parent \in {Null} \cup DOMAIN T
  PROVE  RootedIn(U)
<1>1. \A r : Below(T, r) \subseteq Below(U, r)
  BY BelowGrows
<1>2. \A n \in DOMAIN T : \E r \in DOMAIN U : U[r].parent = Null /\ n \in Below(U, r)
  BY <1>1 DEF RootedIn
<1>3. \E r \in DOMAIN U : U[r].parent = Null /\ k \in Below(U, r)
  <2>1. CASE U[k].parent = Null
    BY <2>1, BelowLeast
  <2>2. CASE U[k].parent \in DOMAIN T
    <3>1. PICK r \in DOMAIN U : U[r].parent = Null /\ U[k].parent \in Below(U, r)
      BY <1>2, <2>2
    <3>2. k \in Below(U, r)
      BY <3>1, BelowLeast DEF Closed
    <3>3. QED
      BY <3>1, <3>2
  <2>3. QED
    BY <2>1, <2>2
<1>4. QED
  BY <1>2, <1>3 DEF RootedIn

LEMMA RootsAfterDelete ==
  ASSUME NEW T, NEW U, NEW id \in DOMAIN T, RootedIn(T), DOMAIN U = DOMAIN T \ Below(T, id),
         \A n \in DOMAIN U : U[n].parent = T[n].parent
  PROVE  RootedIn(U)
<1>1. Closed(T, Below(T, id))
  BY BelowLeast
<1>2. ASSUME NEW n \in DOMAIN U
      PROVE  \E r \in DOMAIN U : U[r].parent = Null /\ n \in Below(U, r)
  <2>1. PICK r \in DOMAIN T : T[r].parent = Null /\ n \in Below(T, r)
    BY DEF RootedIn
  <2>2. r \in DOMAIN U
    BY <2>1, BelowTrans
  <2>3. n \in Below(U, r)
    BY <1>1, <2>1, <2>2, BelowShrinks
  <2>4. QED
    BY <2>1, <2>2, <2>3
<1>3. QED
  BY <1>2 DEF RootedIn

LEMMA RootsAfterMove ==
  ASSUME NEW T, NEW U, NEW id \in DOMAIN T, NEW p \in DOMAIN T \ Below(T, id), RootedIn(T),
         DOMAIN U = DOMAIN T, U[id].parent = p,
         \A n \in DOMAIN T \ {id} : U[n].parent = T[n].parent
  PROVE  RootedIn(U)
<1>1. ASSUME NEW n \in DOMAIN T \ Below(T, id), NEW r \in DOMAIN T, n \in Below(T, r)
      PROVE  r \notin Below(T, id)
  BY <1>1, BelowTrans
<1>2. id \in Below(T, id)
  BY BelowLeast
<1>3. PICK rp \in DOMAIN T : T[rp].parent = Null /\ p \in Below(T, rp)
  BY DEF RootedIn
<1>4. rp \notin Below(T, id) /\ U[rp].parent = Null
  BY <1>1, <1>2, <1>3
<1>5. ASSUME NEW n \in DOMAIN U
      PROVE  \E r \in DOMAIN U : U[r].parent = Null /\ n \in Below(U, r)
  <2>1. CASE n \in Below(T, id)
    BY <1>3, <1>4, <2>1, BelowMoved
  <2>2. CASE n \notin Below(T, id)
    <3>1. PICK r \in DOMAIN T : T[r].parent = Null /\ n \in Below(T, r)
      BY DEF RootedIn
    <3>2. r \notin Below(T, id) /\ U[r].parent = Null
      BY <1>1, <1>2, <2>2, <3>1
    <3>3. n \in Below(U, r)
      BY <2>2, <3>1, <3>2, BelowMoved
    <3>4. QED
      BY <3>2, <3>3
  <2>3. QED
    BY <2>1, <2>2
<1>6. QED
  BY <1>5 DEF RootedIn

LEMMA RootedStep ==
  ASSUME TypeOK, LeafInv, RootInv, NEW h \in Handlers, Step(h)
  PROVE  Rooted'
<1>1. RootedIn(nodes)
  BY RootedNodes DEF RootInv
<1>2. CASE TreeKept
  BY <1>1, <1>2, BelowSame, RootedNodes DEF TreeKept, RootedIn
<1>3. CASE TreeGrows
  <2>1. nextId \notin DOMAIN nodes
    BY DEF TypeOK
  <2>2. RootedIn(nodes')
    BY <1>1, <1>3, <2>1, RootsAfterInsert DEF TreeGrows
  <2>3. QED
    BY <2>2, RootedNodes
<1>4. CASE TreeShrinks
  <2>1. RootedIn(nodes')
    BY <1>1, <1>4, RootsAfterDelete DEF TreeShrinks
  <2>2. QED
    BY <2>1, RootedNodes
<1>5. CASE TreeMoved(h)
  <2>1. local[h].parent \notin Below(nodes, local[h].id)
    BY <1>5 DEF TreeMoved, RootInv, MovesClear, OutOf, Moving
  <2>2. RootedIn(nodes')
    BY <1>1, <1>5, <2>1, RootsAfterMove DEF TreeMoved
  <2>3. QED
    BY <2>2, RootedNodes
<1>6. QED
  BY <1>2, <1>3, <1>4, <1>5, TreeStep

\* A step of another handler, unless it moves, puts nothing below the node.
LEMMA OutOfKept ==
  ASSUME TypeOK, LeafInv, TreeKept \/ TreeGrows \/ TreeShrinks,
         NEW l, OutOf(nodes, l), l.id \in 1..(nextId - 1), l.parent \in 1..(nextId - 1)
  PROVE  OutOf(nodes', l)
<1>1. CASE TreeKept
  BY <1>1, BelowSame DEF TreeKept, OutOf
<1>2. CASE TreeGrows
  <2>1. CASE l.id \in DOMAIN nodes
    <3>1. \A n \in DOMAIN nodes : nodes[n].parent # nextId
      BY DEF TypeOK, LeafInv, DocumentsAreLeaves, Null
    <3>2. Below(nodes', l.id) \subseteq Below(nodes, l.id) \cup {nextId}
      BY <1>2, <2>1, <3>1, BelowGrowsByOne DEF TreeGrows
    <3>3. QED
      BY <3>2 DEF OutOf, TypeOK
  <2>2. CASE l.id \notin DOMAIN nodes
    BY <1>2, <2>2 DEF TreeGrows, OutOf, Below, TypeOK
  <2>3. QED
    BY <2>1, <2>2
<1>3. CASE TreeShrinks
  <2>1. PICK id \in DOMAIN nodes :
          /\ DOMAIN nodes' = DOMAIN nodes \ Below(nodes, id)
          /\ \A n \in DOMAIN nodes' : nodes'[n].parent = nodes[n].parent
    BY <1>3 DEF TreeShrinks
  <2>2. Closed(nodes, Below(nodes, id))
    BY BelowLeast
  <2>3. l.id \in DOMAIN nodes' => Below(nodes', l.id) \subseteq Below(nodes, l.id)
    BY <2>1, <2>2, BelowShrinks
  <2>4. QED
    BY <2>3 DEF OutOf, Below
<1>4. QED
  BY <1>1, <1>2, <1>3

LEMMA ClearGoto ==
  ASSUME TypeOK, AskedFor, OneMover, LeafInv, RootInv,
         NEW h \in Handlers, NEW label, NEW l, Goto(h, label, l),
         nextId' \in Nat, nextId' >= nextId,
         \/ TreeKept \/ TreeGrows \/ TreeShrinks \/ "move" \in Operations[h],
         label \in Moving => l.id \in 1..(nextId' - 1),
         label \in Moving \ {"moveCheck"} => OutOf(nodes', l)
  PROVE  MovesClear'
<1>1. ASSUME NEW g \in Handlers \ {h}, pc'[g] \in Moving
      PROVE  /\ local'[g].id \in 1..(nextId' - 1)
             /\ pc'[g] # "moveCheck" => OutOf(nodes', local'[g])
  <2>1. pc'[g] = pc[g] /\ local'[g] = local[g]
    BY GotoFrame
  <2>2. local[g].id \in 1..(nextId - 1) /\ local[g].parent \in 1..(nextId - 1)
    BY <1>1, <2>1 DEF RootInv, MovesClear, LeafInv, TargetsFit, Placing, LooksFit, Moving
  <2>3. TreeKept \/ TreeGrows \/ TreeShrinks
    BY <1>1, <2>1 DEF AskedFor, Justified, OneMover
  <2>4. pc'[g] # "moveCheck" => OutOf(nodes, local[g])
    BY <1>1, <2>1 DEF RootInv, MovesClear
  <2>5. pc'[g] # "moveCheck" => OutOf(nodes', local[g])
    BY <2>2, <2>3, <2>4, OutOfKept
  <2>6. local[g].id \in 1..(nextId' - 1)
    BY <2>2 DEF TypeOK
  <2>7. QED
    BY <2>1, <2>5, <2>6
<1>2. QED
  BY <1>1, GotoFrame DEF MovesClear

LEMMA ClearStep ==
  ASSUME TypeOK, AskedFor, OneMover, LeafInv, RootInv, SameNodes, nextId' \in Nat,
         NEW h \in Handlers, Step(h)
  PROVE  MovesClear'
<1>1. nextId' >= nextId /\ local[h] \in LocalType
  BY DEF SameNodes, TypeOK
<1>2. ASSUME pc[h] # "moveWrite" PROVE TreeKept \/ TreeGrows \/ TreeShrinks
  BY <1>2, TreeStep DEF TreeMoved
<1>3. ASSUME UNCHANGED store PROVE nextId' = nextId /\ nodes' = nodes /\ TreeKept
  BY <1>3 DEF store, TreeKept
<1>4. pc[h] \in Moving => local[h].id \in 1..(nextId - 1)
  BY DEF RootInv, MovesClear
<1>5. CASE MoveStart(h)
  <2>1. PICK id \in DOMAIN nodes, p \in DOMAIN nodes :
          Goto(h, "moveCheck", [Empty EXCEPT !.id = id, !.parent = p])
    BY <1>5 DEF MoveStart
  <2>2. [Empty EXCEPT !.id = id, !.parent = p].id = id /\ UNCHANGED store
    BY <1>5 DEF Empty, MoveStart
  <2>3. id \in 1..(nextId - 1)
    BY DEF TypeOK
  <2>4. QED
    BY <1>1, <1>3, <2>1, <2>2, <2>3, ClearGoto
<1>6. CASE Return(h)
  <2>1. \/ TreeKept \/ TreeGrows \/ TreeShrinks \/ "move" \in Operations[h]
    BY <1>2 DEF AskedFor, Justified, Moving
  <2>2. QED
    BY <1>1, <1>6, <2>1, ClearGoto DEF Return, Moving
<1>7. CASE MoveCheck(h)
  <2>1. SUFFICES ASSUME ~Return(h) PROVE MovesClear'
    BY <1>6
  <2>2. /\ Goto(h, "moveName", local[h]) /\ UNCHANGED store
        /\ local[h].parent \notin Below(nodes, local[h].id)
    BY <1>7, <2>1, BelowNodes DEF MoveCheck
  <2>3. local[h].id \in 1..(nextId - 1)
    BY <1>4, <1>7 DEF MoveCheck, Moving
  <2>4. OutOf(nodes', local[h])
    BY <1>3, <2>2 DEF OutOf
  <2>5. QED
    BY <1>1, <1>3, <2>2, <2>3, <2>4, ClearGoto
<1>8. ASSUME UNCHANGED store, pc[h] \in Moving \ {"moveCheck"}, NEW label, NEW l,
             Goto(h, label, l), l.id = local[h].id, l.parent = local[h].parent
      PROVE  MovesClear'
  <2>1. OutOf(nodes', l)
    BY <1>3, <1>8 DEF RootInv, MovesClear, OutOf
  <2>2. QED
    BY <1>1, <1>3, <1>4, <1>8, <2>1, ClearGoto
<1>9. CASE MoveName(h)
  <2> DEFINE l == [local[h] EXCEPT !.name = nodes[local[h].id].name]
  <2>1. l.id = local[h].id /\ l.parent = local[h].parent
    BY <1>1 DEF LocalType
  <2>2. Return(h) \/ Goto(h, "moveSlug", l)
    BY <1>9 DEF MoveName
  <2> HIDE DEF l
  <2>3. UNCHANGED store /\ pc[h] \in Moving \ {"moveCheck"}
    BY <1>9 DEF MoveName, Moving
  <2>4. QED
    BY <1>6, <1>8, <2>1, <2>2, <2>3
<1>10. CASE MoveSlug(h)
  <2>1. SUFFICES ASSUME ~Return(h) PROVE MovesClear'
    BY <1>6
  <2>2. PICK s : Goto(h, "moveWrite", [local[h] EXCEPT !.slug = s])
    BY <1>10, <2>1 DEF MoveSlug, ReadSlug
  <2> DEFINE l == [local[h] EXCEPT !.slug = s]
  <2>3. l.id = local[h].id /\ l.parent = local[h].parent
    BY <1>1 DEF LocalType
  <2>4. Goto(h, "moveWrite", l)
    BY <2>2
  <2> HIDE DEF l
  <2>5. UNCHANGED store /\ pc[h] \in Moving \ {"moveCheck"}
    BY <1>10 DEF MoveSlug, ReadSlug, Moving
  <2>6. QED
    BY <1>8, <2>3, <2>4, <2>5
<1>11. CASE MoveWrite(h)
  BY <1>6, <1>11 DEF MoveWrite, Fail
<1>12. ASSUME pc[h] # "moveWrite", NEW label, label \notin Moving, NEW l, Goto(h, label, l)
       PROVE  MovesClear'
  BY <1>1, <1>2, <1>12, ClearGoto
<1>13. CASE \/ CreateStart(h) \/ CreateSlug(h) \/ CreateInsert(h)
            \/ Link(h) \/ SpaceSlug(h) \/ SpaceInsert(h)
  BY <1>6, <1>12, <1>13
     DEF CreateStart, CreateSlug, CreateInsert, Link, SpaceSlug, SpaceInsert, ReadSlug,
         Asked, Fail, Moving
<1>14. CASE UpdateStart(h) \/ UpdateSlug(h) \/ UpdateWrite(h)
  BY <1>6, <1>12, <1>14 DEF UpdateStart, UpdateSlug, UpdateWrite, ReadSlug, Asked, Fail, Moving
<1>15. CASE \/ RemoveStart(h) \/ RemoveMedia(h) \/ RemoveDelete(h)
            \/ OrphanRow(h) \/ UnlinkFile(h) \/ DeleteMedia(h)
  BY <1>6, <1>12, <1>15
     DEF RemoveStart, RemoveMedia, RemoveDelete, OrphanRow, UnlinkFile, DeleteMedia,
         Asked, Fail, Moving
<1>16. CASE UploadFile(h) \/ UploadRow(h) \/ UploadEnd(h) \/ Abandon(h)
  BY <1>6, <1>12, <1>16
     DEF UploadFile, UploadRow, UploadEnd, Abandon, Asked, Fail, Moving
<1>17. QED
  BY <1>5, <1>7, <1>9, <1>10, <1>11, <1>13, <1>14, <1>15, <1>16 DEF Step

LEMMA RootNext ==
  ASSUME TypeOK, TypeOK', AskedFor, OneMover, LeafInv, RootInv, [Next]_vars
  PROVE  RootInv'
<1>1. ASSUME NEW h \in Handlers, Step(h) PROVE RootInv'
  <2>1. SameNodes
    BY IdentityStep
  <2>2. nextId' \in Nat
    BY DEF TypeOK
  <2>3. QED
    BY <1>1, <2>1, <2>2, RootedStep, ClearStep DEF RootInv
<1>2. CASE UNCHANGED <<nodes, nextId, pc, local>>
  BY <1>2, RootedNodes DEF RootInv, MovesClear
<1>3. QED
  BY <1>1, <1>2 DEF Next, Mirror, vars

\* The seed hangs together: a fact of the tables, not of the handlers.
SeedRooted == RootedIn(Seed)

LEMMA RootInit == Init /\ SeedRooted => RootInv
  BY RootedNodes DEF Init, SeedRooted, RootInv, MovesClear, Moving

(***************************************************************************)
(* No subtree is ever cut loose from every root, while one handler at a    *)
(* time moves, however many create, save and delete meanwhile.             *)
(***************************************************************************)
THEOREM NothingCutLoose ==
  ASSUME OneMover, SeedRooted
  PROVE  Spec => []Rooted
<1>1. Init => RootInv
  BY RootInit
<1>2. TypeOK /\ AskedFor /\ [Next]_vars => AskedFor'
  BY AskedNext
<1>3. TypeOK /\ TypeOK' /\ LeafInv /\ [Next]_vars => LeafInv'
  BY NextLeaf
<1>4. TypeOK /\ TypeOK' /\ AskedFor /\ LeafInv /\ RootInv /\ [Next]_vars => RootInv'
  BY RootNext
<1>5. RootInv => Rooted
  BY DEF RootInv
<1>6. QED
  BY <1>1, <1>2, <1>3, <1>4, <1>5, AskedInit, InitLeaf, TypeCorrect, PTL DEF Spec

-----------------------------------------------------------------------------
(***************************************************************************)
(* The handlers implement TreeContract, while one of them at a time moves. *)
(* Each statement that writes the table nodes is one operation of the      *)
(* contract, because what it goes by was read earlier and is still true    *)
(* (TargetsFit, MovesClear, CreatesFit); every other is a stutter.         *)
(***************************************************************************)
CreatesFit ==
  \A h \in Handlers : pc[h] \in {"createSlug", "createInsert"} => local[h].kind # "space"

LEMMA CreatesGoto ==
  ASSUME TypeOK, CreatesFit, NEW h \in Handlers, NEW label, NEW l, Goto(h, label, l),
         label \in {"createSlug", "createInsert"} => l.kind # "space"
  PROVE  CreatesFit'
<1>1. ASSUME NEW g \in Handlers, pc'[g] \in {"createSlug", "createInsert"}
      PROVE  local'[g].kind # "space"
  BY <1>1, GotoFrame DEF CreatesFit
<1>2. QED
  BY <1>1 DEF CreatesFit

LEMMA CreatesStep ==
  ASSUME TypeOK, CreatesFit, NEW h \in Handlers, Step(h)
  PROVE  CreatesFit'
<1>1. ASSUME NEW label, label \notin {"createSlug", "createInsert"}, NEW l, Goto(h, label, l)
      PROVE  CreatesFit'
  BY <1>1, CreatesGoto
<1>2. CASE CreateStart(h)
  <2>1. \E l : l.kind # "space" /\ Goto(h, "createSlug", l)
    BY <1>2 DEF CreateStart, Empty
  <2>2. QED
    BY <2>1, CreatesGoto
<1>3. CASE CreateSlug(h)
  <2>1. SUFFICES ASSUME NEW s, Goto(h, "createInsert", [local[h] EXCEPT !.slug = s])
                 PROVE  CreatesFit'
    BY <1>1, <1>3 DEF CreateSlug, ReadSlug, Return
  <2>2. local[h].kind # "space" /\ local[h] \in LocalType
    BY <1>3 DEF CreateSlug, ReadSlug, CreatesFit, TypeOK
  <2>3. [local[h] EXCEPT !.slug = s].kind # "space"
    BY <2>2 DEF LocalType
  <2>4. QED
    BY <2>1, <2>3, CreatesGoto
<1>4. CASE UpdateSlug(h) \/ MoveSlug(h)
  BY <1>1, <1>4 DEF UpdateSlug, MoveSlug, ReadSlug, Return
<1>5. CASE \/ CreateInsert(h) \/ Link(h) \/ SpaceSlug(h) \/ SpaceInsert(h)
           \/ UpdateStart(h) \/ UpdateWrite(h)
  BY <1>1, <1>5
     DEF CreateInsert, Link, SpaceSlug, SpaceInsert, UpdateStart, UpdateWrite, Fail, Return
<1>6. CASE \/ RemoveStart(h) \/ RemoveMedia(h) \/ RemoveDelete(h)
           \/ OrphanRow(h) \/ UnlinkFile(h) \/ DeleteMedia(h)
  BY <1>1, <1>6
     DEF RemoveStart, RemoveMedia, RemoveDelete, OrphanRow, UnlinkFile, DeleteMedia,
         Fail, Return
<1>7. CASE \/ MoveStart(h) \/ MoveCheck(h) \/ MoveName(h) \/ MoveWrite(h)
           \/ UploadFile(h) \/ UploadRow(h) \/ UploadEnd(h) \/ Abandon(h)
  BY <1>1, <1>7
     DEF MoveStart, MoveCheck, MoveName, MoveWrite, UploadFile, UploadRow, UploadEnd,
         Abandon, Fail, Return
<1>8. QED
  BY <1>2, <1>3, <1>4, <1>5, <1>6, <1>7 DEF Step

LEMMA CreatesInit == Init => CreatesFit
  BY DEF Init, CreatesFit

LEMMA CreatesNext == ASSUME TypeOK, CreatesFit, [Next]_vars PROVE CreatesFit'
<1>1. CASE UNCHANGED <<pc, local>>
  BY <1>1 DEF CreatesFit
<1>2. QED
  BY <1>1, CreatesStep DEF Next, Mirror, vars

LEMMA SkeletonRows ==
  /\ DOMAIN Skeleton = DOMAIN nodes /\ DOMAIN Skeleton' = DOMAIN nodes'
  /\ \A n \in DOMAIN nodes :
       Skeleton[n] = [parent |-> nodes[n].parent, kind |-> nodes[n].kind]
  /\ \A n \in DOMAIN nodes' :
       Skeleton'[n] = [parent |-> nodes'[n].parent, kind |-> nodes'[n].kind]
  BY DEF Skeleton

LEMMA SkeletonBelow ==
  /\ \A id : Contract!Below(Skeleton, id) = Below(nodes, id)
  /\ \A id : Contract!Below(Skeleton', id) = Below(nodes', id)
<1>1. ASSUME NEW T, NEW id PROVE Contract!Below(T, id) = Below(T, id)
  BY DEF Contract!Below, Contract!Closed, Below, Closed
<1>2. \A id : Below(Skeleton, id) = Below(nodes, id) /\ Below(Skeleton', id) = Below(nodes', id)
  BY SkeletonRows, BelowSame
<1>3. QED
  BY <1>1, <1>2

\* New rows with new ids, each below p.
GrowsBelow(p) ==
  /\ p \in DOMAIN nodes /\ nodes[p].kind # "document"
  /\ DOMAIN nodes \subseteq DOMAIN nodes' /\ DOMAIN nodes' # DOMAIN nodes
  /\ \A n \in DOMAIN nodes : nodes'[n] = nodes[n]
  /\ \A n \in DOMAIN nodes' \ DOMAIN nodes :
       /\ n \in Nat /\ n >= nextId
       /\ nodes'[n].kind # "space"
       /\ n \in Below(nodes', p)
       /\ \/ nodes'[n].parent = p
          \/ /\ nodes'[n].parent \in DOMAIN nodes' \ DOMAIN nodes
             /\ nodes'[nodes'[n].parent].kind # "document"

LEMMA GraftIsWhole ==
  ASSUME TypeOK, TypeOK', nextId' >= nextId, NEW p, GrowsBelow(p)
  PROVE  Contract!Next
<1> DEFINE Fresh == DOMAIN nodes' \ DOMAIN nodes
<1>1. Contract!New = Fresh
  BY SkeletonRows DEF Contract!New
<1>2. /\ nextId \in Nat \ {0} /\ nextId' \in Nat /\ Fresh \subseteq 1..(nextId' - 1)
      /\ Contract!Null = 0
  BY DEF TypeOK, Contract!Null
<1>3. Contract!Grow
  <2>1. Fresh # {} /\ Fresh \cap ({Contract!Null} \cup 1..(nextId - 1)) = {}
    <3>1. Fresh # {} /\ \A n \in Fresh : n \in Nat /\ n >= nextId
      BY DEF GrowsBelow
    <3>2. QED
      BY <1>2, <3>1
  <2>2. 1..(nextId - 1) \cup Fresh \subseteq 1..(nextId' - 1)
    BY <1>2
  <2>3. \A n \in DOMAIN nodes : n \in DOMAIN nodes' /\ Skeleton'[n] = Skeleton[n]
    BY SkeletonRows DEF GrowsBelow
  <2>4. QED
    BY <1>1, <2>1, <2>2, <2>3, SkeletonRows DEF Contract!Grow
<1>4. ASSUME NEW n \in Fresh
      PROVE  /\ n \in Contract!Below(Skeleton', p)
             /\ Skeleton'[n].kind # "space"
             /\ Skeleton'[n].parent \in ({p} \cup Fresh) \cap Contract!Inside(Skeleton')
  <2>1. n \in DOMAIN nodes' /\ n \in Below(nodes', p) /\ nodes'[n].kind # "space"
    BY DEF GrowsBelow
  <2>2. nodes'[n].parent \in {p} \cup Fresh
    BY DEF GrowsBelow
  <2>3. nodes'[n].parent \in DOMAIN nodes' /\ nodes'[nodes'[n].parent].kind # "document"
    BY DEF GrowsBelow
  <2>4. QED
    BY <2>1, <2>2, <2>3, SkeletonRows, SkeletonBelow DEF Contract!Inside
<1>5. Contract!Graft(p)
  BY <1>1, <1>3, <1>4 DEF Contract!Graft
<1>6. p \in Contract!Inside(Skeleton)
  BY SkeletonRows DEF Contract!Inside, GrowsBelow
<1>7. QED
  BY <1>5, <1>6 DEF Contract!Next

LEMMA SpaceIsWhole ==
  ASSUME TypeOK, NEW h \in Handlers, InsertRow(h, "space"), local[h].parent = Null
  PROVE  Contract!Next
<1>1. nextId \in Nat /\ nextId \notin DOMAIN nodes /\ nextId' = nextId + 1
  BY BoundsAssumption DEF TypeOK, InsertRow, BoundsAssumption
<1>2. /\ DOMAIN nodes' = DOMAIN nodes \cup {nextId}
      /\ \A n \in DOMAIN nodes : nodes'[n] = nodes[n]
      /\ nodes'[nextId].parent = Null /\ nodes'[nextId].kind = "space"
  BY <1>1 DEF InsertRow
<1>3. Contract!New = {nextId}
  BY <1>1, <1>2, SkeletonRows DEF Contract!New
<1>4. /\ {nextId} \cap ({Contract!Null} \cup 1..(nextId - 1)) = {}
      /\ 1..(nextId - 1) \cup {nextId} \subseteq 1..(nextId' - 1)
  <2>1. nextId # 0 /\ Contract!Null = 0
    BY DEF TypeOK, Contract!Null
  <2>2. QED
    BY <1>1, <2>1
<1>5. Contract!Grow
  BY <1>2, <1>3, <1>4, SkeletonRows DEF Contract!Grow
<1>6. Skeleton'[nextId] = [parent |-> Contract!Null, kind |-> "space"]
  BY <1>2, SkeletonRows DEF Contract!Null, Null
<1>7. QED
  BY <1>3, <1>5, <1>6 DEF Contract!AddSpace, Contract!Next

LEMMA CutIsWhole ==
  ASSUME NEW id \in DOMAIN nodes, nextId' = nextId,
         nodes' = [n \in DOMAIN nodes \ Below(nodes, id) |-> nodes[n]]
  PROVE  Contract!Next
<1>1. Skeleton' = [n \in DOMAIN Skeleton \ Contract!Below(Skeleton, id) |-> Skeleton[n]]
  BY SkeletonRows, SkeletonBelow DEF Skeleton
<1>2. Contract!Cut(id)
  BY <1>1 DEF Contract!Cut
<1>3. QED
  BY <1>2, SkeletonRows DEF Contract!Next

LEMMA MoveIsWhole ==
  ASSUME TypeOK, nextId' = nextId,
         NEW id \in DOMAIN nodes, NEW p \in DOMAIN nodes, NEW slug,
         nodes' = [nodes EXCEPT ![id].parent = p, ![id].slug = slug],
         nodes[p].kind # "document", p \notin Below(nodes, id)
  PROVE  Contract!Next
<1>1. /\ DOMAIN nodes' = DOMAIN nodes
      /\ \A n \in DOMAIN nodes :
           /\ nodes'[n].kind = nodes[n].kind
           /\ nodes'[n].parent = IF n = id THEN p ELSE nodes[n].parent
  BY DEF TypeOK, Row
<1>2. Skeleton' = [Skeleton EXCEPT ![id].parent = p]
  BY <1>1 DEF Skeleton
<1>3. p \in Contract!Inside(Skeleton) /\ p \notin Contract!Below(Skeleton, id)
  BY SkeletonRows, SkeletonBelow DEF Contract!Inside
<1>4. QED
  BY <1>2, <1>3, SkeletonRows DEF Contract!Move, Contract!Next

LEMMA StutterIsWhole ==
  ASSUME TypeOK, nextId' = nextId, DOMAIN nodes' = DOMAIN nodes,
         \A n \in DOMAIN nodes :
           nodes'[n].parent = nodes[n].parent /\ nodes'[n].kind = nodes[n].kind
  PROVE  UNCHANGED Contract!contract
<1>1. Skeleton' = Skeleton
  BY DEF Skeleton
<1>2. QED
  BY <1>1 DEF Contract!contract

LEMMA StepIsWhole ==
  ASSUME TypeOK, TypeOK', LeafInv, RootInv, CreatesFit, NEW h \in Handlers, Step(h)
  PROVE  [Contract!Next]_Contract!contract
<1>1. CASE UNCHANGED <<nodes, nextId>>
  BY <1>1, StutterIsWhole
<1>2. SUFFICES ASSUME ~UNCHANGED <<nodes, nextId>>
               PROVE  [Contract!Next]_Contract!contract
  BY <1>1
<1>3. \/ CreateInsert(h) \/ SpaceInsert(h) \/ UpdateWrite(h)
      \/ MoveWrite(h) \/ RemoveDelete(h)
  BY <1>2 DEF Step, CreateStart, CreateSlug, Link, SpaceSlug, UpdateStart,
              UpdateSlug, RemoveStart, RemoveMedia, OrphanRow, DeleteRow,
              UnlinkFile, DeleteMedia, MoveStart, MoveCheck, MoveName,
              MoveSlug, UploadFile, UploadRow, UploadEnd, Abandon, Fail,
              ReadSlug, store
<1>4. CASE CreateInsert(h)
  <2> DEFINE p == local[h].parent
  <2>1. InsertRow(h, local[h].kind) /\ p \in DOMAIN nodes /\ local[h].kind # "space"
    BY <1>2, <1>4 DEF CreateInsert, Fail, store, CreatesFit
  <2>2. nodes[p].kind # "document"
    BY <1>4, <2>1 DEF CreateInsert, LeafInv, TargetsFit, Placing, LooksFit
  <2>3. nextId \in Nat /\ nextId \notin DOMAIN nodes /\ nextId' = nextId + 1
    BY <2>1, BoundsAssumption DEF TypeOK, InsertRow, BoundsAssumption
  <2>4. /\ DOMAIN nodes' = DOMAIN nodes \cup {nextId}
        /\ \A n \in DOMAIN nodes : nodes'[n] = nodes[n]
        /\ nodes'[nextId].parent = p /\ nodes'[nextId].kind # "space"
    BY <2>1, <2>3 DEF InsertRow
  <2>5. nextId \in Below(nodes', p)
    <3>1. p \in DOMAIN nodes' /\ nextId \in DOMAIN nodes'
      BY <2>1, <2>4
    <3>2. QED
      BY <2>4, <3>1, BelowLeast DEF Closed
  <2>6. GrowsBelow(p)
    BY <2>1, <2>2, <2>3, <2>4, <2>5 DEF GrowsBelow
  <2>7. QED
    BY <2>3, <2>6, GraftIsWhole
<1>5. CASE SpaceInsert(h)
  BY <1>5, SpaceIsWhole DEF SpaceInsert, LeafInv, TargetsFit
<1>6. CASE UpdateWrite(h)
  <2>1. /\ nextId' = nextId
        /\ nodes' = [nodes EXCEPT ![local[h].id].name = local[h].name,
                                  ![local[h].id].slug = local[h].slug,
                                  ![local[h].id].body = local[h].body]
    BY <1>2, <1>6 DEF UpdateWrite, Fail, store
  <2>2. QED
    BY <2>1, StutterIsWhole DEF TypeOK, Row
<1>7. CASE MoveWrite(h)
  <2> DEFINE l == local[h]
  <2>1. /\ l.id \in DOMAIN nodes /\ l.parent \in DOMAIN nodes /\ nextId' = nextId
        /\ nodes' = [nodes EXCEPT ![l.id].parent = l.parent, ![l.id].slug = l.slug]
    BY <1>2, <1>7 DEF MoveWrite, Fail, store
  <2>2. nodes[l.parent].kind # "document"
    BY <1>7, <2>1 DEF MoveWrite, LeafInv, TargetsFit, Placing, LooksFit
  <2>3. l.parent \notin Below(nodes, l.id)
    BY <1>7 DEF MoveWrite, RootInv, MovesClear, OutOf, Moving
  <2> HIDE DEF l
  <2>4. QED
    BY <2>1, <2>2, <2>3, MoveIsWhole
<1>8. CASE RemoveDelete(h)
  <2>1. /\ local[h].id \in DOMAIN nodes /\ nextId' = nextId
        /\ nodes' = [n \in DOMAIN nodes \ Below(nodes, local[h].id) |-> nodes[n]]
    BY <1>2, <1>8, BelowNodes DEF RemoveDelete, Fail, store
  <2>2. QED
    BY <2>1, CutIsWhole
<1>9. QED
  BY <1>3, <1>4, <1>5, <1>6, <1>7, <1>8

\* The seed is a tree to the contract.
LEMMA SeedIsTree == Init /\ SeedRooted => Contract!Init
<1> SUFFICES ASSUME Init, SeedRooted PROVE Contract!Init
  OBVIOUS
<1>1. PICK k \in 0..MaxNodes : DOMAIN Seed = 1..k
  BY SeedAssumption DEF SeedAssumption
<1>2. DOMAIN nodes = 1..(nextId - 1)
  <2>1. k \in Nat
    BY <1>1, BoundsAssumption DEF BoundsAssumption
  <2>2. Cardinality(1..k) = k
    BY <2>1, FS_Interval
  <2>3. QED
    BY <1>1, <2>1, <2>2 DEF Init
<1>3. ASSUME NEW n \in DOMAIN nodes
      PROVE  /\ nodes[n].parent \in {Null} \cup Contract!Inside(Skeleton)
             /\ nodes[n].parent = Null => nodes[n].kind = "space"
  BY SeedAssumption, SkeletonRows DEF SeedAssumption, Init, Contract!Inside
<1>4. ASSUME NEW n \in DOMAIN nodes
      PROVE  \E r \in DOMAIN nodes : nodes[r].parent = Null /\ n \in Below(nodes, r)
  BY DEF Init, SeedRooted, RootedIn
<1>5. Contract!Tree(Skeleton)
  <2>1. Null \notin DOMAIN nodes
    BY <1>2 DEF Null
  <2>2. QED
    BY <1>3, <1>4, <2>1, SkeletonRows, SkeletonBelow DEF Contract!Tree, Contract!Null, Null
<1>6. QED
  BY <1>2, <1>5, SkeletonRows DEF Contract!Init

(***************************************************************************)
(* The handlers of the web implement TreeContract: however they overlap    *)
(* and wherever they die, the tree changes by whole operations.            *)
(***************************************************************************)
THEOREM HandlersActWhole ==
  ASSUME OneMover, SeedRooted
  PROVE  Spec => WholeOperations
<1>1. Init => RootInv /\ Contract!Init
  BY RootInit, SeedIsTree
<1>2. TypeOK /\ AskedFor /\ [Next]_vars => AskedFor'
  BY AskedNext
<1>3. TypeOK /\ TypeOK' /\ LeafInv /\ [Next]_vars => LeafInv'
  BY NextLeaf
<1>4. TypeOK /\ TypeOK' /\ AskedFor /\ LeafInv /\ RootInv /\ [Next]_vars => RootInv'
  BY RootNext
<1>5. TypeOK /\ CreatesFit /\ [Next]_vars => CreatesFit'
  BY CreatesNext
<1>6. TypeOK /\ TypeOK' /\ LeafInv /\ RootInv /\ CreatesFit /\ [Next]_vars
        => [Contract!Next]_Contract!contract
  <2>1. SUFFICES ASSUME TypeOK, UNCHANGED <<nodes, nextId>>
                 PROVE  UNCHANGED Contract!contract
    BY StepIsWhole DEF Next, Mirror, vars
  <2>2. QED
    BY <2>1, StutterIsWhole
<1>7. QED
  BY <1>1, <1>2, <1>3, <1>4, <1>5, <1>6, AskedInit, InitLeaf, CreatesInit, TypeCorrect, PTL
     DEF Spec, WholeOperations, Contract!Spec

\* Trees in the words of this module.
LEMMA TreeWords ==
  ASSUME NEW T
  PROVE  Contract!Tree(T) <=>
           /\ Null \notin DOMAIN T /\ RootedIn(T)
           /\ \A n \in DOMAIN T :
                /\ T[n].parent \in {Null} \cup Contract!Inside(T)
                /\ T[n].parent = Null => T[n].kind = "space"
<1>1. \A id : Contract!Below(T, id) = Below(T, id)
  BY DEF Contract!Below, Contract!Closed, Below, Closed
<1>2. QED
  BY <1>1 DEF Contract!Tree, Contract!Null, Null, RootedIn

LEMMA ContractStep ==
  ASSUME Contract!Tree(Skeleton), Contract!Next
  PROVE  Contract!Tree(Skeleton')
<1> DEFINE T == Skeleton
           U == Skeleton'
<1>1. /\ Null \notin DOMAIN T /\ RootedIn(T)
      /\ \A n \in DOMAIN T :
           /\ T[n].parent \in {Null} \cup Contract!Inside(T)
           /\ T[n].parent = Null => T[n].kind = "space"
  BY TreeWords
<1>2. \A id : Contract!Below(T, id) = Below(T, id) /\ Contract!Below(U, id) = Below(U, id)
  BY DEF Contract!Below, Contract!Closed, Below, Closed
<1>3. /\ \A n \in DOMAIN T : T[n] = [parent |-> T[n].parent, kind |-> T[n].kind]
  BY SkeletonRows
<1> SUFFICES /\ Null \notin DOMAIN U /\ RootedIn(U)
             /\ \A n \in DOMAIN U :
                  /\ U[n].parent \in {Null} \cup Contract!Inside(U)
                  /\ U[n].parent = Null => U[n].kind = "space"
  BY TreeWords
<1> HIDE DEF T, U
<1>4. ASSUME Contract!Grow
      PROVE  /\ Null \notin DOMAIN U /\ DOMAIN T \subseteq DOMAIN U
             /\ Contract!New = DOMAIN U \ DOMAIN T
             /\ \A n \in DOMAIN T : U[n] = T[n]
             /\ Contract!Inside(T) \subseteq Contract!Inside(U)
  BY <1>1, <1>4 DEF Contract!Grow, Contract!New, Contract!Inside, Contract!Null, Null, T, U
<1>5. CASE Contract!AddSpace
  <2>1. PICK k \in DOMAIN U \ DOMAIN T :
          DOMAIN U = DOMAIN T \cup {k} /\ U[k] = [parent |-> Null, kind |-> "space"]
    BY <1>4, <1>5 DEF Contract!AddSpace, Contract!Null, Null, U
  <2>2. U[k].parent = Null /\ U[k].kind = "space"
    BY <2>1
  <2>3. /\ Null \notin DOMAIN U /\ Contract!Inside(T) \subseteq Contract!Inside(U)
        /\ \A n \in DOMAIN T : U[n] = T[n]
    BY <1>4, <1>5 DEF Contract!AddSpace
  <2>4. RootedIn(U)
    BY <1>1, <2>1, <2>2, <2>3, RootsAfterInsert
  <2>5. QED
    BY <1>1, <2>1, <2>2, <2>3, <2>4
<1>6. ASSUME NEW p \in Contract!Inside(T), Contract!Graft(p)
      PROVE  /\ Null \notin DOMAIN U /\ RootedIn(U)
             /\ \A n \in DOMAIN U :
                  /\ U[n].parent \in {Null} \cup Contract!Inside(U)
                  /\ U[n].parent = Null => U[n].kind = "space"
  <2>1. /\ Null \notin DOMAIN U /\ Contract!Inside(T) \subseteq Contract!Inside(U)
        /\ DOMAIN T \subseteq DOMAIN U
        /\ \A n \in DOMAIN T : U[n] = T[n]
    BY <1>4, <1>6 DEF Contract!Graft
  <2>2. \A n \in DOMAIN U \ DOMAIN T :
          n \in Below(U, p) /\ U[n].parent \in Contract!Inside(U)
    BY <1>2, <1>4, <1>6 DEF Contract!Graft, U
  <2>3. p \in DOMAIN T
    BY DEF Contract!Inside
  <2>4. RootedIn(U)
    <3>1. \A r : Below(T, r) \subseteq Below(U, r)
      BY <2>1, BelowGrows
    <3>2. PICK r \in DOMAIN T : T[r].parent = Null /\ p \in Below(T, r)
      BY <1>1, <2>3 DEF RootedIn
    <3>3. \A n \in DOMAIN U \ DOMAIN T : n \in Below(U, r)
      BY <2>2, <3>1, <3>2, BelowTrans
    <3>4. QED
      BY <1>1, <2>1, <3>1, <3>2, <3>3 DEF RootedIn
  <2>5. \A n \in Contract!Inside(U) : n # Null
    BY <2>1 DEF Contract!Inside
  <2>6. QED
    BY <1>1, <2>1, <2>2, <2>4, <2>5
<1>7. ASSUME NEW id \in DOMAIN T, Contract!Cut(id)
      PROVE  /\ Null \notin DOMAIN U /\ RootedIn(U)
             /\ \A n \in DOMAIN U :
                  /\ U[n].parent \in {Null} \cup Contract!Inside(U)
                  /\ U[n].parent = Null => U[n].kind = "space"
  <2>1. U = [n \in DOMAIN T \ Below(T, id) |-> T[n]]
    BY <1>2, <1>7 DEF Contract!Cut, T, U
  <2>2. RootedIn(U)
    BY <1>1, <2>1, RootsAfterDelete
  <2>3. \A n \in DOMAIN U : U[n].parent \notin Below(T, id)
    BY <2>1, BelowLeast DEF Closed
  <2>4. QED
    BY <1>1, <2>1, <2>2, <2>3 DEF Contract!Inside
<1>8. ASSUME NEW id \in DOMAIN T, NEW p \in Contract!Inside(T), Contract!Move(id, p)
      PROVE  /\ Null \notin DOMAIN U /\ RootedIn(U)
             /\ \A n \in DOMAIN U :
                  /\ U[n].parent \in {Null} \cup Contract!Inside(U)
                  /\ U[n].parent = Null => U[n].kind = "space"
  <2>1. U = [T EXCEPT ![id].parent = p] /\ p \notin Below(T, id)
    BY <1>2, <1>8 DEF Contract!Move, T, U
  <2>2. p \in DOMAIN T
    BY DEF Contract!Inside
  <2>3. /\ DOMAIN U = DOMAIN T /\ U[id].parent = p /\ U[id].kind = T[id].kind
        /\ \A n \in DOMAIN T \ {id} : U[n] = T[n]
    BY <1>3, <2>1
  <2>4. RootedIn(U)
    BY <1>1, <2>1, <2>2, <2>3, RootsAfterMove
  <2>5. Contract!Inside(U) = Contract!Inside(T)
    BY <2>3 DEF Contract!Inside
  <2>6. QED
    BY <1>1, <2>2, <2>3, <2>4, <2>5
<1>9. QED
  BY <1>5, <1>6, <1>7, <1>8 DEF Contract!Next, T

(***************************************************************************)
(* Whoever keeps the contract keeps a tree: every node hangs below a root, *)
(* a root is a space, nothing hangs below a document (nodes.rs:16, 594).   *)
(***************************************************************************)
THEOREM ContractKeepsTree == Contract!Spec => []Contract!Tree(Skeleton)
<1>1. Contract!Init => Contract!Tree(Skeleton)
  BY DEF Contract!Init
<1>2. Contract!Tree(Skeleton) /\ [Contract!Next]_Contract!contract => Contract!Tree(Skeleton)'
  <2>1. ASSUME Contract!Tree(Skeleton), UNCHANGED Contract!contract
        PROVE  Contract!Tree(Skeleton')
    <3>1. Skeleton' = Skeleton
      BY <2>1 DEF Contract!contract
    <3>2. QED
      BY <2>1, <3>1
  <2>2. Contract!Tree(Skeleton)' <=> Contract!Tree(Skeleton')
    BY DEF Contract!Tree, Contract!Inside, Contract!Below, Contract!Closed
  <2>3. QED
    BY <2>1, <2>2, ContractStep
<1>3. QED
  BY <1>1, <1>2, PTL DEF Contract!Spec

COROLLARY HandlersKeepTree ==
  ASSUME OneMover, SeedRooted
  PROVE  Spec => []Contract!Tree(Skeleton)
  BY HandlersActWhole, ContractKeepsTree, PTL DEF WholeOperations

=============================================================================
