----------------------------- MODULE RouteProofs -----------------------------
(***************************************************************************)
(* Proofs about the modules that put other handlers beside those of        *)
(* NodeTree, with any number of each at work at once.  Sharing: a link     *)
(* that was withdrawn stays withdrawn, only documents are shared, and what *)
(* a link serves stays served through a save.  SftpFiles: the tree keeps   *)
(* its shape.  Import: a failed import leaves nothing, one that succeeds   *)
(* hangs what it made below its target.  And what NodeTreeProofs shows of  *)
(* the tree's files and links, with these beside its handlers.             *)
(***************************************************************************)
EXTENDS Sharing, SftpFiles, Import, NodeTreeProofs, WellFoundedInduction

(***************************************************************************)
(*                               Share links                               *)
(***************************************************************************)
-----------------------------------------------------------------------------
(* Type correctness *)

LEMMA ReadLinkType ==
  ASSUME ShareTypeOK, NEW h \in Handlers, ShareRead(h)
  PROVE  ShareTypeOK'
<1> USE SecretsAssumption DEF ShareTypeOK, SecretsAssumption
<1>1. PICK n \in DOMAIN nodes :
        /\ Goto(h, "shareWrite", [Empty EXCEPT !.id = n])
        /\ IF n \in DOMAIN share
           THEN token' = [token EXCEPT ![h] = share[n].token] /\ UNCHANGED secrets
           ELSE /\ secrets < MaxSecrets
                /\ token' = [token EXCEPT ![h] = secrets + 1]
                /\ secrets' = secrets + 1
  BY DEF ShareRead
<1>2. n \in Nat /\ UNCHANGED <<store, share, given>>
  BY DEF ShareRead, TypeOK
<1>3. [Empty EXCEPT !.id = n] \in LocalType /\ "shareWrite" \in Labels
  BY <1>2, EmptyType DEF LocalType, Labels
<1>4. TypeOK'
  BY <1>1, <1>2, <1>3, ReadType
<1>5. secrets' \in Secrets /\ token' \in [Handlers -> Secrets]
  BY <1>1 DEF Secrets, ShareLink
<1>6. QED
  BY <1>2, <1>4, <1>5

\* What enable and disable leave in the node's columns.
LEMMA WriteLinkType ==
  ASSUME ShareTypeOK, NEW h \in Handlers, ShareWrite(h) \/ Unshare(h)
  PROVE  ShareTypeOK'
<1> USE SecretsAssumption DEF ShareTypeOK, SecretsAssumption
<1>1. UNCHANGED <<nodes, nextId, links, rows, files, listed>> /\ changed' \in BOOLEAN
  BY DEF ShareWrite, Unshare, TypeOK
<1>2. StoreType'
  BY <1>1 DEF ShareWrite, Unshare, Signal, StoreType, TypeOK
<1>3. TypeOK'
  BY <1>1, <1>2, ReturnType DEF ShareWrite, Unshare, StoreType, TypeOK
<1>4. CASE ShareWrite(h)
  <2> DEFINE link == [token |-> token[h], key |-> secrets + 1]
  <2>1. link \in ShareLink /\ secrets + 1 \in Secrets
    BY <1>4 DEF ShareWrite, ShareLink, Secrets
  <2>2. /\ \/ share' = share
           \/ share' = [s \in DOMAIN share \cup {local[h].id} |->
                          IF s = local[h].id THEN link ELSE share[s]]
        /\ given' = given \cup {link} /\ secrets' = secrets + 1 /\ token' = token
    BY <1>4 DEF ShareWrite
  <2> HIDE DEF link
  <2>3. share' \in [DOMAIN share' -> ShareLink]
    BY <2>1, <2>2
  <2>4. QED
    BY <1>3, <2>1, <2>2, <2>3
<1>5. CASE Unshare(h)
  BY <1>3, <1>5 DEF Unshare
<1>6. QED
  BY <1>4, <1>5

LEMMA ShareNextType ==
  ASSUME ShareTypeOK, [ShareNext]_shareVars
  PROVE  ShareTypeOK'
<1>1. CASE Web
  BY <1>1, NextType DEF Web, ShareTypeOK
<1>2. CASE UNCHANGED shareVars
  BY <1>2, NextType DEF shareVars, ShareTypeOK
<1>3. QED
  BY <1>1, <1>2, ReadLinkType, WriteLinkType DEF ShareNext

(***************************************************************************)
(* The columns hold a token and a key, and the tree keeps its types.       *)
(***************************************************************************)
THEOREM ShareTypeCorrect == ShareSpec => []ShareTypeOK
<1>1. ShareInit => ShareTypeOK
  BY InitType, SecretsAssumption
     DEF ShareInit, ShareTypeOK, Secrets, ShareLink, SecretsAssumption
<1>2. QED
  BY <1>1, ShareNextType, PTL DEF ShareSpec

-----------------------------------------------------------------------------
(* Dead links *)

\* The keys that were handed out are keys that were drawn.
KeysDrawn == \A x \in given : x.key \in 0..secrets

LEMMA NextKeys ==
  ASSUME ShareTypeOK, KeysDrawn, [ShareNext]_shareVars
  PROVE  KeysDrawn'
<1>1. secrets \in Nat
  BY DEF ShareTypeOK, Secrets
<1>2. ASSUME NEW h \in Handlers, ShareRead(h) PROVE KeysDrawn'
  BY <1>1, <1>2 DEF ShareRead, KeysDrawn
<1>3. ASSUME NEW h \in Handlers, ShareWrite(h) PROVE KeysDrawn'
  BY <1>1, <1>3 DEF ShareWrite, KeysDrawn
<1>4. QED
  BY <1>2, <1>3 DEF ShareNext, Unshare, Web, shareVars, KeysDrawn

\* A step makes no link that was handed out before open again.
LEMMA NoneRevived ==
  ASSUME ShareTypeOK, KeysDrawn, [ShareNext]_shareVars, NEW x \in given, Opens(x)'
  PROVE  Opens(x)
<1>1. CASE DOMAIN share' \subseteq DOMAIN share /\ \A n \in DOMAIN share' : share'[n] = share[n]
  BY <1>1 DEF Opens
<1>2. ASSUME NEW h \in Handlers, ShareWrite(h) PROVE Opens(x)
  <2> DEFINE link == [token |-> token[h], key |-> secrets + 1]
  <2>1. x # link
    BY DEF KeysDrawn, ShareTypeOK, Secrets
  <2>2. \/ share' = share
        \/ share' = [s \in DOMAIN share \cup {local[h].id} |->
                       IF s = local[h].id THEN link ELSE share[s]]
    BY <1>2 DEF ShareWrite
  <2> HIDE DEF link
  <2>3. QED
    BY <2>1, <2>2 DEF Opens
<1>3. CASE Web
  BY <1>1, <1>3 DEF Web
<1>4. ASSUME NEW h \in Handlers, Unshare(h) PROVE Opens(x)
  BY <1>1, <1>4 DEF Unshare
<1>5. CASE UNCHANGED share
  BY <1>5 DEF Opens
<1>6. QED
  BY <1>2, <1>3, <1>4, <1>5 DEF ShareNext, ShareRead, shareVars

(***************************************************************************)
(* Rotating or revoking kills a link for good: every enable draws a key no *)
(* link that was handed out can have, whichever token it found.            *)
(***************************************************************************)
THEOREM DeadForGood == ShareSpec => DeadLinksStayDead
<1>1. ShareInit => KeysDrawn
  BY DEF ShareInit, KeysDrawn
<1>2. ShareTypeOK /\ KeysDrawn /\ [ShareNext]_shareVars => KeysDrawn'
  BY NextKeys
<1>3. ShareTypeOK /\ KeysDrawn /\ [ShareNext]_shareVars =>
        [\A x \in given : Opens(x)' => Opens(x)]_shareVars
  BY NoneRevived
<1>4. QED
  BY <1>1, <1>2, <1>3, ShareTypeCorrect, PTL DEF ShareSpec, DeadLinksStayDead

-----------------------------------------------------------------------------
(***************************************************************************)
(* Only documents.  enable writes to an id it saw as a document; whatever  *)
(* happens before it writes, the id is that document or nothing.           *)
(***************************************************************************)
LooksShareable(n) ==
  /\ n \in 1..(nextId - 1)
  /\ n \in DOMAIN nodes => nodes[n].kind = "document"

PublishersFit ==
  \A h \in Handlers : pc[h] = "shareWrite" => LooksShareable(local[h].id)

ShareInv == OnlyDocumentsShared /\ PublishersFit

LEMMA ShareableKept ==
  ASSUME TypeOK, TypeOK', SameNodes, NEW n, LooksShareable(n)
  PROVE  /\ n \in 1..(nextId' - 1)
         /\ n \in DOMAIN nodes' => nodes'[n].kind = "document"
  BY DEF SameNodes, LooksShareable, TypeOK

\* Where handlers that are not the tree's own may be.
Elsewhere == {"shareWrite"} \cup Importing

\* No handler of the tree takes a label of enable's or of an import's.
LEMMA StepOffers ==
  ASSUME TypeOK, NEW h \in Handlers, Step(h)
  PROVE  /\ pc'[h] \notin Elsewhere
         /\ \A g \in Handlers \ {h} : pc'[g] = pc[g] /\ local'[g] = local[g]
<1> USE DEF Elsewhere, Importing
<1>1. ASSUME NEW label, NEW l, Goto(h, label, l), label \notin Elsewhere
      PROVE  /\ pc'[h] \notin Elsewhere
             /\ \A g \in Handlers \ {h} : pc'[g] = pc[g] /\ local'[g] = local[g]
  BY <1>1, GotoFrame
<1>2. \E label : label \notin Elsewhere /\ \E l : Goto(h, label, l)
  <2>1. CASE CreateStart(h) \/ CreateInsert(h) \/ SpaceSlug(h) \/ SpaceInsert(h) \/ Link(h)
    BY <2>1 DEF CreateStart, CreateInsert, SpaceSlug, SpaceInsert, Link, Fail, Return
  <2>2. CASE CreateSlug(h) \/ UpdateSlug(h) \/ MoveSlug(h)
    BY <2>2 DEF CreateSlug, UpdateSlug, MoveSlug, ReadSlug, Return
  <2>3. CASE UpdateStart(h)
    BY <2>3 DEF UpdateStart
  <2>4. CASE UpdateWrite(h) \/ RemoveStart(h) \/ RemoveMedia(h) \/ RemoveDelete(h)
    BY <2>4 DEF UpdateWrite, RemoveStart, RemoveMedia, RemoveDelete, Fail, Return
  <2>5. CASE OrphanRow(h) \/ UnlinkFile(h) \/ DeleteMedia(h)
    BY <2>5 DEF OrphanRow, UnlinkFile, DeleteMedia, Return
  <2>6. CASE MoveStart(h) \/ MoveCheck(h) \/ MoveName(h) \/ MoveWrite(h)
    BY <2>6 DEF MoveStart, MoveCheck, MoveName, MoveWrite, Fail, Return
  <2>7. CASE UploadFile(h) \/ UploadRow(h) \/ UploadEnd(h) \/ Abandon(h)
    BY <2>7 DEF UploadFile, UploadRow, UploadEnd, Abandon, Fail, Return
  <2>8. QED
    BY <2>1, <2>2, <2>3, <2>4, <2>5, <2>6, <2>7 DEF Step
<1>3. QED
  BY <1>1, <1>2

LEMMA WebShare ==
  ASSUME ShareTypeOK, ShareTypeOK', ShareInv, Web
  PROVE  ShareInv'
<1> USE DEF ShareTypeOK, ShareInv
<1>1. SameNodes
  BY IdentityStep DEF Web
<1>2. OnlyDocumentsShared'
  <2>1. \A n \in DOMAIN share' : n \in DOMAIN share /\ n \in DOMAIN nodes'
    BY DEF Web
  <2>2. ASSUME NEW n \in DOMAIN share'
        PROVE  nodes'[n].kind = "document"
    <3>1. n \in DOMAIN nodes /\ nodes[n].kind = "document" /\ n \in DOMAIN nodes'
      BY <2>1 DEF OnlyDocumentsShared
    <3>2. n \in 1..(nextId - 1)
      BY <3>1 DEF TypeOK
    <3>3. QED
      BY <1>1, <3>1, <3>2 DEF SameNodes
  <2>3. QED
    BY <2>1, <2>2 DEF OnlyDocumentsShared
<1>3. PublishersFit'
  <2>1. ASSUME NEW h \in Handlers, Step(h) PROVE PublishersFit'
    <3>1. ASSUME NEW g \in Handlers, pc'[g] = "shareWrite"
          PROVE  LooksShareable(local[g].id) /\ local'[g] = local[g]
      BY <2>1, <3>1, StepOffers DEF PublishersFit, Elsewhere
    <3>2. QED
      BY <1>1, <3>1, ShareableKept DEF PublishersFit, LooksShareable
  <2>2. CASE Mirror
    BY <2>2 DEF Mirror, PublishersFit, LooksShareable
  <2>3. QED
    BY <2>1, <2>2 DEF Web, Next
<1>4. QED
  BY <1>2, <1>3

LEMMA NextShare ==
  ASSUME ShareTypeOK, ShareTypeOK', ShareInv, [ShareNext]_shareVars
  PROVE  ShareInv'
<1> USE DEF ShareTypeOK, ShareInv
<1>1. ASSUME NEW h \in Handlers, ShareRead(h) PROVE ShareInv'
  <2>1. PICK n \in DOMAIN nodes :
          nodes[n].kind = "document" /\ Goto(h, "shareWrite", [Empty EXCEPT !.id = n])
    BY <1>1 DEF ShareRead
  <2>2. /\ pc'[h] = "shareWrite" /\ local'[h].id = n
        /\ \A g \in Handlers \ {h} : pc'[g] = pc[g] /\ local'[g] = local[g]
    BY <2>1, GotoFrame, EmptyType DEF LocalType
  <2>3. UNCHANGED <<nodes, nextId, share>>
    BY <1>1 DEF ShareRead, store
  <2>4. n \in 1..(nextId - 1)
    BY DEF TypeOK
  <2>5. PublishersFit'
    BY <2>1, <2>2, <2>3, <2>4 DEF PublishersFit, LooksShareable
  <2>6. QED
    BY <2>3, <2>5 DEF OnlyDocumentsShared
<1>2. ASSUME NEW h \in Handlers, ShareWrite(h) PROVE ShareInv'
  <2>1. /\ UNCHANGED <<nodes, nextId>> /\ Return(h)
        /\ \A n \in DOMAIN share' :
              n \in DOMAIN share \/ (n = local[h].id /\ n \in DOMAIN nodes)
    BY <1>2 DEF ShareWrite
  <2>2. LooksShareable(local[h].id)
    BY <1>2 DEF ShareWrite, PublishersFit
  <2>3. OnlyDocumentsShared'
    BY <2>1, <2>2 DEF OnlyDocumentsShared, LooksShareable
  <2>4. /\ pc'[h] = "idle"
        /\ \A g \in Handlers \ {h} : pc'[g] = pc[g] /\ local'[g] = local[g]
    BY <2>1, GotoFrame DEF Return
  <2>5. PublishersFit'
    BY <2>1, <2>4 DEF PublishersFit, LooksShareable
  <2>6. QED
    BY <2>3, <2>5
<1>3. ASSUME NEW h \in Handlers, Unshare(h) PROVE ShareInv'
  BY <1>3 DEF Unshare, OnlyDocumentsShared, PublishersFit, LooksShareable
<1>4. CASE UNCHANGED shareVars
  BY <1>4 DEF shareVars, vars, OnlyDocumentsShared, PublishersFit, LooksShareable
<1>5. QED
  BY <1>1, <1>2, <1>3, <1>4, WebShare DEF ShareNext

(***************************************************************************)
(* Only a document is ever shared, however late enable writes.             *)
(***************************************************************************)
THEOREM SharesAreDocuments == ShareSpec => []OnlyDocumentsShared
<1>1. ShareInit => ShareInv
  BY DEF ShareInit, Init, ShareInv, OnlyDocumentsShared, PublishersFit
<1>2. ShareTypeOK /\ ShareTypeOK' /\ ShareInv /\ [ShareNext]_shareVars => ShareInv'
  BY NextShare
<1>3. ShareInv => OnlyDocumentsShared
  BY DEF ShareInv
<1>4. QED
  BY <1>1, <1>2, <1>3, ShareTypeCorrect, PTL DEF ShareSpec

-----------------------------------------------------------------------------
(***************************************************************************)
(* What the tree keeps with sharing beside it.  A step of enable or        *)
(* disable leaves the tables of the tree alone, signals what it changed    *)
(* and comes between two statements of the other handlers.                 *)
(***************************************************************************)
LEMMA ShareStep ==
  ASSUME ShareTypeOK, [ShareNext]_shareVars
  PROVE  \/ [Next]_vars
         \/ \E h \in Handlers :
              /\ UNCHANGED <<nodes, nextId, links, rows, files, listed>>
              /\ \/ \E l : /\ Goto(h, "shareWrite", l) /\ UNCHANGED <<dirty, changed>>
                           /\ pc[h] = "idle" /\ l.file = {}
                 \/ Signal /\ Return(h) /\ pc[h] = "shareWrite"
                 \/ Signal /\ UNCHANGED <<pc, local>>
<1>1. CASE Web \/ UNCHANGED shareVars
  BY <1>1 DEF Web, shareVars
<1>2. ASSUME NEW h \in Handlers, ShareRead(h)
      PROVE  /\ UNCHANGED store /\ pc[h] = "idle"
             /\ \E l : Goto(h, "shareWrite", l) /\ l.file = {}
  <2>1. PICK n : Goto(h, "shareWrite", [Empty EXCEPT !.id = n])
    BY <1>2 DEF ShareRead
  <2>2. [Empty EXCEPT !.id = n].file = {}
    BY DEF Empty
  <2>3. QED
    BY <1>2, <2>1, <2>2 DEF ShareRead, Asked
<1>3. ASSUME NEW h \in Handlers, ShareWrite(h)
      PROVE  /\ UNCHANGED <<nodes, nextId, links, rows, files, listed>>
             /\ Signal /\ Return(h) /\ pc[h] = "shareWrite"
  BY <1>3 DEF ShareWrite
<1>4. ASSUME NEW h \in Handlers, Unshare(h)
      PROVE  /\ UNCHANGED <<nodes, nextId, links, rows, files, listed>>
             /\ Signal /\ UNCHANGED <<pc, local>>
  BY <1>4 DEF Unshare
<1>5. CASE \E h \in Handlers : ShareRead(h)
  BY <1>2, <1>5 DEF store
<1>6. CASE \E h \in Handlers : ShareWrite(h)
  BY <1>3, <1>6
<1>7. CASE \E h \in Handlers : Unshare(h)
  BY <1>4, <1>7
<1>8. QED
  BY <1>1, <1>5, <1>6, <1>7 DEF ShareNext

\* Sharing is none of the operations that save, remove, move or upload.
LEMMA ShareAsked ==
  ASSUME ShareTypeOK, AskedFor, [ShareNext]_shareVars
  PROVE  AskedFor'
<1>1. TypeOK
  BY DEF ShareTypeOK
<1>2. ASSUME NEW h \in Handlers, NEW l, Goto(h, "shareWrite", l) PROVE AskedFor'
  BY <1>1, <1>2, AskedGoto DEF Justified, Saving, Removing, Moving, Uploading
<1>3. ASSUME NEW h \in Handlers, Return(h) PROVE AskedFor'
  BY <1>1, <1>3, AskedOn DEF Return
<1>4. CASE UNCHANGED <<pc, local>>
  BY <1>4 DEF AskedFor, Justified, Saves
<1>5. QED
  BY <1>1, <1>2, <1>3, <1>4, ShareStep, AskedNext

LEMMA ShareStray ==
  ASSUME ShareTypeOK, StrayInv, ~Cancellation, [ShareNext]_shareVars
  PROVE  StrayInv'
<1>1. TypeOK
  BY DEF ShareTypeOK
<1>2. ASSUME NEW h \in Handlers, UNCHANGED <<rows, files>>, NEW l,
             Goto(h, "shareWrite", l), pc[h] = "idle", l.file = {}
      PROVE  StrayInv'
  BY <1>1, <1>2, StrayQuiet
<1>3. ASSUME NEW h \in Handlers, UNCHANGED <<rows, files>>, Return(h), pc[h] = "shareWrite"
      PROVE  StrayInv'
  BY <1>1, <1>3, StrayQuiet DEF Return, Empty
<1>4. CASE UNCHANGED <<rows, files, pc, local>>
  BY <1>4 DEF StrayInv, NoStrayFile, FileHeld
<1>5. QED
  BY <1>1, <1>2, <1>3, <1>4, ShareStep, StrayNext

(***************************************************************************)
(* Handlers that run to their end leave no file without a row behind,      *)
(* while documents are shared and withdrawn.                               *)
(***************************************************************************)
THEOREM SharingStraysNothing == ASSUME ~Cancellation PROVE ShareSpec => []NoStrayFile
<1>1. ShareInit => StrayInv
  BY StrayInit DEF ShareInit
<1>2. ShareTypeOK /\ StrayInv /\ [ShareNext]_shareVars => StrayInv'
  BY ShareStray
<1>3. StrayInv => NoStrayFile
  BY DEF StrayInv
<1>4. QED
  BY <1>1, <1>2, <1>3, ShareTypeCorrect, PTL DEF ShareSpec

LEMMA ShareSignal ==
  ASSUME ShareTypeOK, SignalInv, AskedFor, ~Cancellation,
         \A g \in Handlers : "upload" \notin Operations[g], [ShareNext]_shareVars
  PROVE  SignalInv'
<1>1. TypeOK
  BY DEF ShareTypeOK
<1>2. ASSUME NEW h \in Handlers, UNCHANGED <<nodes, dirty, changed>>, NEW l,
             Goto(h, "shareWrite", l), pc[h] = "idle"
      PROVE  SignalInv'
  BY <1>1, <1>2, SignalQuiet DEF Owing
<1>3. CASE Signal
  BY <1>3 DEF Signal, SignalInv
<1>4. QED
  BY <1>1, <1>2, <1>3, ShareStep, SignalNext

(***************************************************************************)
(* The backup is told of every change that saving, moving, deleting and    *)
(* sharing make.                                                           *)
(***************************************************************************)
THEOREM SharingSignals ==
  ASSUME ~Cancellation, \A h \in Handlers : "upload" \notin Operations[h]
  PROVE  ShareSpec => []ChangesSignalled
<1>1. ShareInit => AskedFor /\ SignalInv
  BY AskedInit, SignalInit DEF ShareInit
<1>2. ShareTypeOK /\ AskedFor /\ [ShareNext]_shareVars => AskedFor'
  BY ShareAsked
<1>3. ShareTypeOK /\ AskedFor /\ SignalInv /\ [ShareNext]_shareVars => SignalInv'
  BY ShareSignal
<1>4. QED
  BY <1>1, <1>2, <1>3, OwingIsBusy, ShareTypeCorrect, PTL DEF ShareSpec

LEMMA ShareBody ==
  ASSUME ShareTypeOK, ShareTypeOK', BodyInv, AskedFor, OneSaver,
         [ShareNext]_shareVars
  PROVE  BodyInv'
<1>1. TypeOK /\ TypeOK'
  BY DEF ShareTypeOK
<1>2. ASSUME NEW h \in Handlers, UNCHANGED <<nodes, nextId, links>>, pc[h] # "link",
             NEW label, label # "link", NEW l, Goto(h, label, l)
      PROVE  BodyInv'
  BY <1>1, <1>2, BodyQuiet DEF TypeOK
<1>3. CASE UNCHANGED <<nodes, nextId, links, pc, local>>
  BY <1>3 DEF BodyInv, LinksCurrent, BodiesSaved, SavedBody, Relinking
<1>4. QED
  BY <1>1, <1>2, <1>3, ShareStep, BodyNext DEF Return

(***************************************************************************)
(* A document nobody is saving is attached to no file its body no longer   *)
(* mentions, so its share link serves none, while one handler saves.       *)
(***************************************************************************)
THEOREM SharedLinksFollowBody ==
  ASSUME ~Cancellation, OneSaver, SeedMatches
  PROVE  ShareSpec => []LinksMatchBody
<1>1. ShareInit => AskedFor /\ BodyInv
  BY AskedInit, BodyInit DEF ShareInit
<1>2. ShareTypeOK /\ AskedFor /\ [ShareNext]_shareVars => AskedFor'
  BY ShareAsked
<1>3. ShareTypeOK /\ ShareTypeOK' /\ AskedFor /\ BodyInv /\ [ShareNext]_shareVars => BodyInv'
  BY ShareBody
<1>4. QED
  BY <1>1, <1>2, <1>3, CurrentMatches, ShareTypeCorrect, PTL DEF ShareSpec

LEMMA ShareForeseen ==
  ASSUME ShareTypeOK, AskedFor, OneAuthor, RemovalsForeseen, [ShareNext]_shareVars
  PROVE  RemovalsForeseen'
<1>1. TypeOK
  BY DEF ShareTypeOK
<1>2. ASSUME NEW h \in Handlers, UNCHANGED <<nodes, links>>, NEW label,
             label \in {"idle", "shareWrite"}, NEW l, Goto(h, label, l)
      PROVE  RemovalsForeseen'
  BY <1>1, <1>2, ForeseenQuiet DEF Foreseen
<1>3. CASE UNCHANGED <<nodes, links, pc, local>>
  BY <1>3 DEF RemovalsForeseen
<1>4. QED
  BY <1>1, <1>2, <1>3, ShareStep, ForeseenNext DEF Return

(***************************************************************************)
(* Deleting a document takes no file away from another that embeds it,     *)
(* shared or not, while one handler at a time saves, moves and removes.    *)
(***************************************************************************)
THEOREM SharedFilesStay == ASSUME OneAuthor PROVE ShareSpec => SharedFilesSurvive
<1>1. ShareInit => AskedFor /\ RemovalsForeseen
  BY AskedInit, ForeseenInit DEF ShareInit
<1>2. ShareTypeOK /\ AskedFor /\ [ShareNext]_shareVars => AskedFor'
  BY ShareAsked
<1>3. ShareTypeOK /\ AskedFor /\ RemovalsForeseen /\ [ShareNext]_shareVars => RemovalsForeseen'
  BY ShareForeseen
<1>4. RemovalsForeseen /\ [ShareNext]_shareVars =>
        [\A h \in Handlers : OrphanRow(h) =>
           \A m \in rows \ rows' : \A n \in DOMAIN nodes : <<n, m>> \notin links]_vars
  BY ForeseenSpares
<1>5. QED
  BY <1>1, <1>2, <1>3, <1>4, AskedInit, ShareTypeCorrect, PTL DEF ShareSpec, SharedFilesSurvive

\* A step of enable or disable moves nothing, and places nothing.
LEMMA ShareTree ==
  ASSUME ShareTypeOK, ShareTypeOK', AskedFor, OneMover, LeafInv, RootInv, CreatesFit,
         [ShareNext]_shareVars
  PROVE  LeafInv' /\ RootInv' /\ CreatesFit' /\ [Contract!Next]_Contract!contract
<1>1. TypeOK /\ TypeOK' /\ nextId \in Nat
  BY BoundsAssumption DEF ShareTypeOK, TypeOK, BoundsAssumption
<1>2. CASE [Next]_vars
  <2>1. [Contract!Next]_Contract!contract
    BY <1>1, <1>2, StepIsWhole, StutterIsWhole DEF Next, Mirror, vars
  <2>2. QED
    BY <1>1, <1>2, <2>1, NextLeaf, RootNext, CreatesNext
<1>3. ASSUME UNCHANGED <<nodes, nextId>>
      PROVE  /\ SameNodes /\ TreeKept /\ [Contract!Next]_Contract!contract
             /\ DocumentsAreLeaves' /\ Rooted'
  BY <1>1, <1>3, StutterIsWhole, RootedNodes
     DEF SameNodes, TreeKept, TypeOK, DocumentsAreLeaves, LeafInv, RootInv
<1>4. ASSUME UNCHANGED <<nodes, nextId>>, NEW h \in Handlers, NEW label \in {"idle", "shareWrite"},
             NEW l, Goto(h, label, l)
      PROVE  TargetsFit' /\ MovesClear' /\ CreatesFit'
  <2>1. label \notin Placing /\ label \notin Moving /\ label # "spaceInsert"
    BY DEF Placing, Moving
  <2>2. label \notin {"createSlug", "createInsert"} /\ nextId' >= nextId /\ nextId' \in Nat
    BY <1>1, <1>4
  <2>3. TargetsFit'
    BY <1>1, <1>3, <1>4, <2>1, TargetsStep DEF LeafInv
  <2>4. MovesClear'
    BY <1>1, <1>3, <1>4, <2>1, <2>2, ClearGoto
  <2>5. QED
    BY <1>1, <1>4, <2>2, <2>3, <2>4, CreatesGoto
<1>5. ASSUME UNCHANGED <<nodes, nextId, pc, local>>
      PROVE  TargetsFit' /\ MovesClear' /\ CreatesFit'
  BY <1>5 DEF TargetsFit, LooksFit, MovesClear, OutOf, CreatesFit, LeafInv, RootInv
<1>6. QED
  BY <1>2, <1>3, <1>4, <1>5, ShareStep DEF Return, LeafInv, RootInv

(***************************************************************************)
(* Publishing and withdrawing links changes no tree: with sharing beside   *)
(* them the handlers still implement TreeContract.                         *)
(***************************************************************************)
THEOREM SharingActsWhole ==
  ASSUME OneMover, SeedRooted
  PROVE  ShareSpec => WholeOperations
<1>1. ShareInit => /\ AskedFor /\ LeafInv /\ RootInv /\ CreatesFit /\ Contract!Init
  BY AskedInit, InitLeaf, RootInit, CreatesInit, SeedIsTree DEF ShareInit
<1>2. ShareTypeOK /\ AskedFor /\ [ShareNext]_shareVars => AskedFor'
  BY ShareAsked
<1>3. ShareTypeOK /\ ShareTypeOK' /\ AskedFor /\ LeafInv /\ RootInv /\ CreatesFit
        /\ [ShareNext]_shareVars
        => LeafInv' /\ RootInv' /\ CreatesFit' /\ [Contract!Next]_Contract!contract
  BY ShareTree
<1>4. QED
  BY <1>1, <1>2, <1>3, ShareTypeCorrect, PTL DEF ShareSpec, WholeOperations, Contract!Spec

-----------------------------------------------------------------------------
(***************************************************************************)
(* Pictures stay.  A link names one document, because a key is drawn for   *)
(* each; what takes a file away from it is a deletion of either, or a save *)
(* whose body has no such file.                                            *)
(***************************************************************************)
LinksApart ==
  /\ \A n \in DOMAIN share : share[n].key \in 0..secrets
  /\ \A n, k \in DOMAIN share : share[n].key = share[k].key => n = k

LEMMA ShareApart ==
  ASSUME ShareTypeOK, LinksApart, [ShareNext]_shareVars
  PROVE  LinksApart'
<1>1. secrets \in Nat
  BY DEF ShareTypeOK, Secrets
<1>2. ASSUME secrets' \in Nat, secrets' >= secrets, DOMAIN share' \subseteq DOMAIN share,
             \A n \in DOMAIN share' : share'[n] = share[n]
      PROVE  LinksApart'
  BY <1>1, <1>2 DEF LinksApart
<1>3. ASSUME NEW h \in Handlers, ShareWrite(h) PROVE LinksApart'
  <2> DEFINE link == [token |-> token[h], key |-> secrets + 1]
  <2>1. /\ secrets' = secrets + 1
        /\ \/ share' = share
           \/ share' = [s \in DOMAIN share \cup {local[h].id} |->
                          IF s = local[h].id THEN link ELSE share[s]]
    BY <1>3 DEF ShareWrite
  <2>2. link.key = secrets + 1
    OBVIOUS
  <2> HIDE DEF link
  <2>3. QED
    BY <1>1, <2>1, <2>2 DEF LinksApart
<1>4. CASE Web
  BY <1>1, <1>2, <1>4 DEF Web
<1>5. ASSUME NEW h \in Handlers, Unshare(h) PROVE LinksApart'
  BY <1>1, <1>2, <1>5 DEF Unshare
<1>6. ASSUME NEW h \in Handlers, ShareRead(h) PROVE LinksApart'
  BY <1>1, <1>2, <1>6 DEF ShareRead
<1>7. CASE UNCHANGED shareVars
  BY <1>1, <1>2, <1>7 DEF shareVars
<1>8. QED
  BY <1>3, <1>4, <1>5, <1>6, <1>7 DEF ShareNext

\* A link handed out before that opens after a step opened the same document.
LEMMA SameDocument ==
  ASSUME ShareTypeOK, KeysDrawn, [ShareNext]_shareVars, NEW x \in given,
         NEW n \in DOMAIN share', share'[n] = x
  PROVE  n \in DOMAIN share /\ share[n] = x
<1>1. CASE DOMAIN share' \subseteq DOMAIN share /\ \A k \in DOMAIN share' : share'[k] = share[k]
  BY <1>1
<1>2. ASSUME NEW h \in Handlers, ShareWrite(h) PROVE n \in DOMAIN share /\ share[n] = x
  <2> DEFINE link == [token |-> token[h], key |-> secrets + 1]
  <2>1. x # link
    BY DEF KeysDrawn, ShareTypeOK, Secrets
  <2>2. \/ share' = share
        \/ share' = [s \in DOMAIN share \cup {local[h].id} |->
                       IF s = local[h].id THEN link ELSE share[s]]
    BY <1>2 DEF ShareWrite
  <2> HIDE DEF link
  <2>3. QED
    BY <2>1, <2>2
<1>3. QED
  BY <1>1, <1>2 DEF ShareNext, Web, ShareRead, Unshare, shareVars

\* What a handler of the tree may take a file away with.
LEMMA LinkLost ==
  ASSUME TypeOK, NEW h \in Handlers, Step(h), NEW n \in DOMAIN nodes', NEW m \in rows',
         <<n, m>> \in links, <<n, m>> \notin links'
  PROVE  pc[h] = "link" /\ local[h].id = n /\ m \notin local[h].body
<1>1. CASE Link(h)
  <2>1. links' = {y \in links : y[1] # local[h].id}
                   \cup ({local[h].id} \X (local[h].body \cap rows))
        /\ rows' = rows
    BY <1>1 DEF Link, Fail, store
  <2>2. QED
    BY <1>1, <2>1 DEF Link
<1>2. CASE RemoveDelete(h)
  BY <1>2 DEF RemoveDelete, Fail, store
<1>3. CASE OrphanRow(h) \/ DeleteMedia(h)
  BY <1>3 DEF OrphanRow, DeleteMedia, DeleteRow
<1>4. CASE \/ CreateInsert(h) \/ SpaceInsert(h) \/ UpdateWrite(h) \/ MoveWrite(h)
           \/ UnlinkFile(h) \/ UploadFile(h) \/ UploadRow(h) \/ UploadEnd(h)
  BY <1>4 DEF CreateInsert, SpaceInsert, UpdateWrite, MoveWrite, UnlinkFile, UploadFile,
              UploadRow, UploadEnd, Fail, store
<1>5. CASE UNCHANGED store
  BY <1>5 DEF store
<1>6. QED
  BY <1>1, <1>2, <1>3, <1>4, <1>5
     DEF Step, CreateStart, CreateSlug, SpaceSlug, UpdateStart, UpdateSlug, RemoveStart,
         RemoveMedia, MoveStart, MoveCheck, MoveName, MoveSlug, Abandon, Fail, ReadSlug

LEMMA PictureStays ==
  ASSUME ShareTypeOK, ShareTypeOK', KeysDrawn, LinksApart, ShareInv, BodyInv,
         [ShareNext]_shareVars, NEW x \in given, NEW m, Serves(x, m), Opens(x)',
         \A n \in DOMAIN share : share[n] = x => m \in nodes[n].body /\ m \in rows'
  PROVE  Serves(x, m)'
<1>1. PICK n \in DOMAIN share : share[n] = x /\ <<n, m>> \in links /\ m \in rows
  BY DEF Serves
<1>2. n \in DOMAIN share' /\ share'[n] = x
  <2>1. PICK k \in DOMAIN share' : share'[k] = x
    BY DEF Opens
  <2>2. k \in DOMAIN share /\ share[k] = x
    BY <2>1, SameDocument
  <2>3. k = n
    BY <1>1, <2>2 DEF LinksApart
  <2>4. QED
    BY <2>1, <2>3
<1>3. m \in rows' /\ m \in nodes[n].body /\ n \in DOMAIN nodes
  BY <1>1 DEF ShareInv, OnlyDocumentsShared
<1>4. <<n, m>> \in links'
  <2>1. CASE links' = links
    BY <1>1, <2>1
  <2>2. ASSUME NEW h \in Handlers, Step(h), Web, <<n, m>> \notin links' PROVE FALSE
    <3>1. n \in DOMAIN nodes' /\ TypeOK
      BY <1>2, <2>2 DEF Web, ShareTypeOK
    <3>2. pc[h] = "link" /\ local[h].id = n /\ m \notin local[h].body
      BY <1>1, <1>3, <2>2, <3>1, LinkLost
    <3>3. QED
      BY <1>3, <3>2 DEF BodyInv, BodiesSaved, SavedBody
  <2>3. QED
    BY <2>1, <2>2
       DEF ShareNext, Web, Next, Mirror, ShareRead, ShareWrite, Unshare, shareVars, vars, store
<1>5. QED
  BY <1>2, <1>3, <1>4 DEF Serves

(***************************************************************************)
(* A document is never momentarily attached to nothing: what a link serves *)
(* and the body keeps is served through every statement of a save, while   *)
(* one handler at a time saves.                                            *)
(***************************************************************************)
THEOREM NothingBlanks ==
  ASSUME OneSaver, SeedMatches
  PROVE  ShareSpec => PicturesStay
<1>1. ShareInit => AskedFor /\ BodyInv /\ KeysDrawn /\ LinksApart /\ ShareInv
  <2>1. ShareInit => AskedFor /\ BodyInv
    BY AskedInit, BodyInit DEF ShareInit
  <2>2. ShareInit => KeysDrawn /\ LinksApart /\ ShareInv
    BY DEF ShareInit, Init, KeysDrawn, LinksApart, ShareInv, OnlyDocumentsShared, PublishersFit
  <2>3. QED
    BY <2>1, <2>2
<1>2. ShareTypeOK /\ AskedFor /\ [ShareNext]_shareVars => AskedFor'
  BY ShareAsked
<1>3. ShareTypeOK /\ ShareTypeOK' /\ AskedFor /\ BodyInv /\ [ShareNext]_shareVars => BodyInv'
  BY ShareBody
<1>4. ShareTypeOK /\ KeysDrawn /\ [ShareNext]_shareVars => KeysDrawn'
  BY NextKeys
<1>5. ShareTypeOK /\ LinksApart /\ [ShareNext]_shareVars => LinksApart'
  BY ShareApart
<1>6. ShareTypeOK /\ ShareTypeOK' /\ ShareInv /\ [ShareNext]_shareVars => ShareInv'
  BY NextShare
<1>7. /\ ShareTypeOK /\ ShareTypeOK' /\ KeysDrawn /\ LinksApart /\ ShareInv /\ BodyInv
      /\ [ShareNext]_shareVars
      => [\A x \in given, m \in Media :
            /\ Serves(x, m) /\ Opens(x)'
            /\ \A n \in DOMAIN share : share[n] = x =>
                  m \in nodes[n].body /\ m \in nodes'[n].body /\ m \in rows'
            => Serves(x, m)']_shareVars
  BY PictureStays
<1>8. QED
  BY <1>1, <1>2, <1>3, <1>4, <1>5, <1>6, <1>7, ShareTypeCorrect, PTL DEF ShareSpec, PicturesStay

(***************************************************************************)
(*                              The SFTP view                              *)
(***************************************************************************)
-----------------------------------------------------------------------------
(* Type correctness *)

LEMMA HandleStep ==
  ASSUME TypeOK, StoreType', NEW h \in Handlers,
         NEW label \in Labels, NEW l \in LocalType,
         Goto(h, label, l) \/ Return(h)
  PROVE  TypeOK'
  BY GotoType, ReturnType DEF StoreType, TypeOK

LEMMA PlaceType ==
  ASSUME TypeOK, UNCHANGED store, NEW h \in Handlers, NEW label \in Labels,
         NEW l \in LocalType, NEW base \in Bases, NEW except,
         Place(h, label, l, base, except)
  PROVE  TypeOK'
<1>1. PICK s \in NextSlug(SiblingSlugs(l.parent, except), base) :
         Goto(h, label, [l EXCEPT !.slug = s])
  BY DEF Place
<1>2. s \in Slugs
  BY NextSlugFree
<1>3. [l EXCEPT !.slug = s] \in LocalType
  BY <1>2 DEF LocalType
<1>4. QED
  BY <1>1, <1>3, ReadType

\* A copy of a document's text, or of nothing.
LEMMA OpenType ==
  ASSUME FsTypeOK, NEW h \in Handlers, Open(h)
  PROVE  held' \in [Handlers -> SUBSET OpenHandle]
<1>1. Directories \subseteq Nat
  BY DEF FsTypeOK, TypeOK, Directories
<1>2. ASSUME NEW p \in Directories, NEW d \in Documents(p), NEW b \in {nodes[d].body, {}},
             held' = [held EXCEPT ![h] = {[id |-> d, parent |-> p,
                                           name |-> nodes[d].name, buf |-> b]}]
      PROVE  held' \in [Handlers -> SUBSET OpenHandle]
  <2>1. d \in Nat /\ nodes[d] \in Row
    BY DEF FsTypeOK, TypeOK, Documents, Children
  <2>2. [id |-> d, parent |-> p, name |-> nodes[d].name, buf |-> b] \in OpenHandle
    BY <1>1, <2>1 DEF OpenHandle, Row
  <2>3. QED
    BY <1>2, <2>2 DEF FsTypeOK
<1>3. ASSUME NEW p \in Directories, NEW n \in Names,
             held' = [held EXCEPT ![h] = {[id |-> 0, parent |-> p, name |-> n, buf |-> {}]}]
      PROVE  held' \in [Handlers -> SUBSET OpenHandle]
  <2>1. [id |-> 0, parent |-> p, name |-> n, buf |-> {}] \in OpenHandle
    BY <1>1 DEF OpenHandle
  <2>2. QED
    BY <1>3, <2>1 DEF FsTypeOK
<1>4. QED
  BY <1>2, <1>3 DEF Open

LEMMA HeldType ==
  ASSUME FsTypeOK, NEW h \in Handlers, Call(h)
  PROVE  held' \in [Handlers -> SUBSET OpenHandle]
<1>1. CASE Write(h)
  <2>1. PICK k \in held[h], b \in Bodies : held' = [held EXCEPT ![h] = {[k EXCEPT !.buf = b]}]
    BY <1>1 DEF Write
  <2>2. [k EXCEPT !.buf = b] \in OpenHandle
    BY DEF FsTypeOK, TypeOK, Bodies, OpenHandle
  <2>3. QED
    BY <2>1, <2>2 DEF FsTypeOK
<1>2. CASE Disconnect(h) \/ CloseKnown(h) \/ CloseNew(h)
  BY <1>2 DEF Disconnect, CloseKnown, CloseNew, FsTypeOK
<1>3. CASE UNCHANGED held
  BY <1>3 DEF FsTypeOK
<1>4. QED
  BY <1>1, <1>2, <1>3, OpenType
     DEF Call, CloseLink, CloseInsert, RemoveLook, Erase, Mkdir, MkdirInsert, Rename, RenameWrite

\* The calls that only look.
LEMMA LookCallType ==
  ASSUME FsTypeOK, NEW h \in Handlers,
         \/ Open(h) \/ Write(h) \/ Disconnect(h)
         \/ CloseNew(h) \/ RemoveLook(h) \/ Mkdir(h) \/ Rename(h)
  PROVE  TypeOK'
<1> USE EmptyType, VerbatimAssumption, BoundsAssumption DEF FsTypeOK
<1>1. Directories \subseteq Nat /\ DOMAIN nodes \subseteq Nat
  BY DEF TypeOK, Directories
<1>2. CASE Open(h) \/ Write(h) \/ Disconnect(h)
  BY <1>2 DEF Open, Write, Disconnect, vars, TypeOK
<1>3. CASE CloseNew(h)
  <2>1. PICK k \in held[h] :
          Place(h, "closeInsert",
                [Empty EXCEPT !.parent = k.parent, !.name = k.name, !.body = k.buf],
                Verbatim[k.name], Null)
    BY <1>3 DEF CloseNew
  <2>2. k \in OpenHandle
    OBVIOUS
  <2>3. /\ [Empty EXCEPT !.parent = k.parent, !.name = k.name, !.body = k.buf] \in LocalType
        /\ Verbatim[k.name] \in Bases
    BY <2>2 DEF OpenHandle, LocalType, VerbatimAssumption
  <2>4. UNCHANGED store /\ "closeInsert" \in Labels
    BY <1>3 DEF CloseNew, Labels
  <2>5. QED
    BY <2>1, <2>3, <2>4, PlaceType
<1>4. CASE RemoveLook(h)
  <2>1. PICK id \in DOMAIN nodes, label \in {"eraseFile", "rmdirDelete"} :
          Goto(h, label, [Empty EXCEPT !.id = id])
    BY <1>4 DEF RemoveLook
  <2>2. [Empty EXCEPT !.id = id] \in LocalType /\ label \in Labels
    BY <1>1 DEF LocalType, Labels
  <2>3. UNCHANGED store
    BY <1>4 DEF RemoveLook
  <2>4. QED
    BY <2>1, <2>2, <2>3, ReadType
<1>5. CASE Mkdir(h)
  <2>1. PICK p \in Directories, n \in Names :
          Place(h, "mkdirInsert", [Empty EXCEPT !.parent = p, !.name = n], Slugify[n], Null)
    BY <1>5 DEF Mkdir
  <2>2. /\ [Empty EXCEPT !.parent = p, !.name = n] \in LocalType
        /\ Slugify[n] \in Bases /\ "mkdirInsert" \in Labels
    BY <1>1 DEF LocalType, BoundsAssumption, Labels
  <2>3. UNCHANGED store
    BY <1>5 DEF Mkdir
  <2>4. QED
    BY <2>1, <2>2, <2>3, PlaceType
<1>6. CASE Rename(h)
  <2>1. PICK id \in DOMAIN nodes, p \in Directories, n \in Names :
          Place(h, "renameWrite",
                [Empty EXCEPT !.id = id, !.parent = p, !.name = n], Slugify[n], id)
    BY <1>6 DEF Rename
  <2>2. /\ [Empty EXCEPT !.id = id, !.parent = p, !.name = n] \in LocalType
        /\ Slugify[n] \in Bases /\ "renameWrite" \in Labels
    BY <1>1 DEF LocalType, BoundsAssumption, Labels
  <2>3. UNCHANGED store
    BY <1>6 DEF Rename
  <2>4. QED
    BY <2>1, <2>2, <2>3, PlaceType
<1>7. QED
  BY <1>2, <1>3, <1>4, <1>5, <1>6

\* The statements that write.
LEMMA WriteCallType ==
  ASSUME FsTypeOK, NEW h \in Handlers,
         \/ CloseKnown(h) \/ CloseLink(h) \/ CloseInsert(h)
         \/ Erase(h) \/ MkdirInsert(h) \/ RenameWrite(h)
  PROVE  TypeOK'
<1> USE DEF FsTypeOK
<1>0. local[h] \in LocalType /\ Empty \in LocalType /\ TypeOK
  BY EmptyType DEF TypeOK
<1>1. CASE CloseKnown(h)
  <2>1. PICK k \in held[h] :
          /\ IF k.id \in DOMAIN nodes
             THEN nodes' = [nodes EXCEPT ![k.id].body = k.buf] /\ changed' = TRUE
             ELSE UNCHANGED <<nodes, changed>>
          /\ Goto(h, "closeLink", [Empty EXCEPT !.id = k.id, !.body = k.buf])
    BY <1>1 DEF CloseKnown
  <2>2. k \in OpenHandle
    OBVIOUS
  <2>3. [Empty EXCEPT !.id = k.id, !.body = k.buf] \in LocalType /\ "closeLink" \in Labels
    BY <1>0, <2>2 DEF OpenHandle, LocalType, Labels
  <2>4. DOMAIN nodes' = DOMAIN nodes /\ nodes' \in [DOMAIN nodes' -> Row] /\ changed' \in BOOLEAN
    <3>1. CASE k.id \in DOMAIN nodes
      <4>1. nodes[k.id] \in Row
        BY <1>0, <3>1 DEF TypeOK
      <4>2. [nodes[k.id] EXCEPT !.body = k.buf] \in Row
        BY <2>2, <4>1 DEF OpenHandle, Row
      <4>3. nodes' = [nodes EXCEPT ![k.id] = [nodes[k.id] EXCEPT !.body = k.buf]]
        BY <2>1, <3>1
      <4>4. nodes' \in [DOMAIN nodes -> Row]
        BY <1>0, <4>2, <4>3 DEF TypeOK
      <4>5. QED
        BY <2>1, <3>1, <4>4
    <3>2. CASE k.id \notin DOMAIN nodes
      BY <1>0, <2>1, <3>2 DEF TypeOK
    <3>3. QED
      BY <3>1, <3>2
  <2>5. StoreType'
    BY <1>1, <2>4 DEF CloseKnown, StoreType, TypeOK
  <2>6. QED
    BY <2>1, <2>3, <2>5, HandleStep
<1>2. CASE CloseLink(h)
  <2>1. links' \subseteq (DOMAIN nodes) \X rows
    BY <1>2 DEF CloseLink, TypeOK
  <2>2. changed' \in BOOLEAN
    BY <1>2 DEF CloseLink, TypeOK
  <2>3. StoreType'
    BY <1>2, <2>1, <2>2 DEF CloseLink, Signal, StoreType, TypeOK
  <2>4. QED
    BY <1>0, <1>2, <2>3, HandleStep DEF CloseLink, Labels
<1>3. ASSUME NEW kind \in {"document", "folder"}, InsertRow(h, kind),
             UNCHANGED <<links, rows, files, listed>>, dirty' \in BOOLEAN
      PROVE  StoreType'
  BY <1>3, InsertRowType DEF StoreType, TypeOK, Kinds
<1>4. CASE CloseInsert(h)
  <2>1. CASE Fail(h)
    BY <1>0, <2>1, ReadType DEF Fail, Labels
  <2>2. CASE InsertRow(h, "document") /\ ~Fail(h)
    <3>1. /\ Goto(h, "closeLink", [local[h] EXCEPT !.id = nextId])
          /\ UNCHANGED <<links, rows, files, listed, dirty>>
      BY <1>4, <2>2 DEF CloseInsert
    <3>2. [local[h] EXCEPT !.id = nextId] \in LocalType
      BY <1>0 DEF LocalType, TypeOK
    <3>3. dirty' \in BOOLEAN
      BY <3>1 DEF TypeOK
    <3>4. StoreType'
      BY <1>3, <2>2, <3>1, <3>3
    <3>5. QED
      BY <3>1, <3>2, <3>4, HandleStep DEF Labels
  <2>3. QED
    BY <1>4, <2>1, <2>2 DEF CloseInsert
<1>5. CASE MkdirInsert(h)
  <2>1. CASE Fail(h)
    BY <1>0, <2>1, ReadType DEF Fail, Labels
  <2>2. CASE ~Fail(h)
    <3>1. /\ InsertRow(h, "folder") /\ Return(h) /\ dirty' \in BOOLEAN
          /\ UNCHANGED <<links, rows, files, listed>>
      BY <1>5, <2>2 DEF MkdirInsert, Signal
    <3>2. StoreType'
      BY <1>3, <3>1
    <3>3. QED
      BY <1>0, <3>1, <3>2, HandleStep DEF Labels
  <2>3. QED
    BY <2>1, <2>2
<1>6. CASE Erase(h)
  <2>1. nodes' \in [DOMAIN nodes' -> Row] /\ DOMAIN nodes' \subseteq DOMAIN nodes
    BY <1>6 DEF Erase, TypeOK
  <2>2. links' \subseteq (DOMAIN nodes') \X rows
    BY <1>6 DEF Erase, TypeOK
  <2>3. changed' \in BOOLEAN /\ dirty' \in BOOLEAN
    BY <1>6 DEF Erase, Signal, TypeOK
  <2>4. StoreType'
    BY <1>6, <2>1, <2>2, <2>3 DEF Erase, StoreType, TypeOK
  <2>5. QED
    BY <1>0, <1>6, <2>4, HandleStep DEF Erase, Labels
<1>7. CASE RenameWrite(h)
  <2>1. CASE Fail(h)
    BY <1>0, <2>1, ReadType DEF Fail, Labels
  <2>2. CASE ~Fail(h)
    <3>1. /\ nodes' = IF local[h].id \in DOMAIN nodes
                      THEN [nodes EXCEPT ![local[h].id].parent = local[h].parent,
                                         ![local[h].id].name = local[h].name,
                                         ![local[h].id].slug = local[h].slug]
                      ELSE nodes
          /\ changed' = (changed \/ local[h].id \in DOMAIN nodes)
          /\ dirty' = TRUE /\ Return(h)
          /\ UNCHANGED <<nextId, links, rows, files, listed>>
      BY <1>7, <2>2 DEF RenameWrite, Signal
    <3>2. DOMAIN nodes' = DOMAIN nodes /\ nodes' \in [DOMAIN nodes' -> Row]
      <4> DEFINE l == local[h]
                 row == [nodes[l.id] EXCEPT !.parent = l.parent, !.name = l.name,
                                            !.slug = l.slug]
      <4>1. CASE l.id \in DOMAIN nodes
        <5>1. nodes[l.id] \in Row /\ l \in LocalType
          BY <1>0, <4>1 DEF TypeOK
        <5>2. row \in Row
          BY <5>1 DEF Row, LocalType
        <5>3. nodes' = [nodes EXCEPT ![l.id] = row]
          BY <3>1, <4>1
        <5> HIDE DEF row
        <5>4. nodes' \in [DOMAIN nodes -> Row]
          BY <1>0, <5>2, <5>3 DEF TypeOK
        <5>5. QED
          BY <5>4
      <4>2. CASE l.id \notin DOMAIN nodes
        BY <1>0, <3>1, <4>2 DEF TypeOK
      <4>3. QED
        BY <4>1, <4>2
    <3>3. changed' \in BOOLEAN
      BY <3>1 DEF TypeOK
    <3>4. StoreType'
      BY <3>1, <3>2, <3>3 DEF StoreType, TypeOK
    <3>5. QED
      BY <1>0, <3>1, <3>4, HandleStep DEF Labels
  <2>3. QED
    BY <2>1, <2>2
<1>8. QED
  BY <1>1, <1>2, <1>4, <1>5, <1>6, <1>7

LEMMA FsNextType ==
  ASSUME FsTypeOK, [FsNext]_fsVars
  PROVE  FsTypeOK'
<1>1. CASE Next /\ UNCHANGED held
  BY <1>1, NextType DEF FsTypeOK
<1>2. ASSUME NEW h \in Handlers, Call(h) PROVE FsTypeOK'
  BY <1>2, HeldType, LookCallType, WriteCallType DEF Call, FsTypeOK
<1>3. CASE UNCHANGED fsVars
  BY <1>3, NextType DEF fsVars, FsTypeOK
<1>4. QED
  BY <1>1, <1>2, <1>3 DEF FsNext

(***************************************************************************)
(* The tree's tables keep their types, and so do the open handles.         *)
(***************************************************************************)
THEOREM FsTypeCorrect == FsSpec => []FsTypeOK
<1>1. FsInit => FsTypeOK
  BY InitType DEF FsInit, FsTypeOK
<1>2. QED
  BY <1>1, FsNextType, PTL DEF FsSpec

-----------------------------------------------------------------------------
(***************************************************************************)
(* The shape of the tree.  A call, too, places a node below a directory it *)
(* looked at some statements or, with an open handle, some calls ago.      *)
(***************************************************************************)
CallPlaces == {"closeInsert", "mkdirInsert", "renameWrite"}

CallsFit ==
  \A h \in Handlers :
    /\ pc[h] \in CallPlaces => LooksFit(local[h].parent)
    /\ \A k \in held[h] : LooksFit(k.parent)

ShapeInv == LeafInv /\ CallsFit /\ RootHoldsSpaces

FitParent(h) ==
  local[h].parent \in DOMAIN nodes /\ nodes[local[h].parent].kind # "document"

\* All that a call may do to the table nodes.
Placed(h) == \E kind \in {"document", "folder"} : InsertRow(h, kind) /\ FitParent(h)

Pruned ==
  /\ nextId' = nextId
  /\ \E id : nodes' = [n \in DOMAIN nodes \ Descendants(id) |-> nodes[n]]

Rearranged(h) ==
  /\ nextId' = nextId /\ DOMAIN nodes' = DOMAIN nodes
  /\ \A n \in DOMAIN nodes :
        /\ nodes'[n].kind = nodes[n].kind
        /\ \/ nodes'[n].parent = nodes[n].parent
           \/ FitParent(h) /\ nodes'[n].parent = local[h].parent

\* A directory of now is one the ids of which never come to mean a document.
LEMMA DirectoryFits == ASSUME TypeOK, NEW p \in Directories PROVE LooksFit(p)
  BY DEF Directories, LooksFit, TypeOK

LEMMA CloseKnownShape ==
  ASSUME TypeOK, NEW h \in Handlers, CloseKnown(h)
  PROVE  /\ nextId' = nextId /\ DOMAIN nodes' = DOMAIN nodes
         /\ \A n \in DOMAIN nodes : Shape(n)' = Shape(n)
<1>1. PICK k \in held[h] :
        IF k.id \in DOMAIN nodes
        THEN nodes' = [nodes EXCEPT ![k.id].body = k.buf]
        ELSE nodes' = nodes
  BY DEF CloseKnown
<1>2. ASSUME NEW n \in DOMAIN nodes
      PROVE  Shape(n)' = Shape(n)
  <2>1. nodes[n] \in Row
    BY DEF TypeOK
  <2>2. nodes'[n] = nodes[n] \/ nodes'[n] = [nodes[n] EXCEPT !.body = k.buf]
    BY <1>1
  <2>3. [[nodes[n] EXCEPT !.body = k.buf] EXCEPT !.body = {}] = [nodes[n] EXCEPT !.body = {}]
    BY <2>1 DEF Row
  <2>4. QED
    BY <2>2, <2>3 DEF Shape
<1>3. QED
  BY <1>1, <1>2 DEF CloseKnown

LEMMA CallEffect ==
  ASSUME TypeOK, CallsFit, NEW h \in Handlers, Call(h)
  PROVE  UNCHANGED <<nodes, nextId>> \/ Placed(h) \/ Pruned \/ Rearranged(h)
<1>1. CASE CloseInsert(h) \/ MkdirInsert(h)
  <2>1. LooksFit(local[h].parent)
    BY <1>1 DEF CloseInsert, MkdirInsert, CallsFit, CallPlaces
  <2>2. Accepted(h) => FitParent(h)
    BY <2>1 DEF Accepted, FitParent, LooksFit, Null
  <2>3. QED
    BY <1>1, <2>2 DEF CloseInsert, MkdirInsert, Placed, Fail, store
<1>2. CASE CloseKnown(h)
  <2>1. \A n \in DOMAIN nodes : nodes[n] \in Row
    BY DEF TypeOK
  <2>2. PICK k \in held[h] :
          IF k.id \in DOMAIN nodes
          THEN nodes' = [nodes EXCEPT ![k.id].body = k.buf]
          ELSE nodes' = nodes
    BY <1>2 DEF CloseKnown
  <2>3. \A n \in DOMAIN nodes :
          nodes'[n].kind = nodes[n].kind /\ nodes'[n].parent = nodes[n].parent
    BY <2>1, <2>2 DEF Row
  <2>4. QED
    BY <1>2, <2>2, <2>3 DEF CloseKnown, Rearranged
<1>3. CASE Erase(h)
  BY <1>3 DEF Erase, Pruned
<1>4. CASE RenameWrite(h)
  <2>1. CASE UNCHANGED <<nodes, nextId>>
    BY <2>1
  <2>2. CASE /\ nodes' = [nodes EXCEPT ![local[h].id].parent = local[h].parent,
                                       ![local[h].id].name = local[h].name,
                                       ![local[h].id].slug = local[h].slug]
             /\ nextId' = nextId /\ local[h].parent \in DOMAIN nodes
    <3>1. LooksFit(local[h].parent)
      BY <1>4 DEF RenameWrite, CallsFit, CallPlaces
    <3>2. FitParent(h)
      BY <2>2, <3>1 DEF LooksFit, FitParent
    <3>3. \A n \in DOMAIN nodes :
            /\ nodes'[n].kind = nodes[n].kind
            /\ nodes'[n].parent \in {nodes[n].parent, local[h].parent}
      BY <2>2 DEF TypeOK, Row
    <3>4. QED
      BY <2>2, <3>2, <3>3 DEF Rearranged
  <2>3. QED
    BY <1>4, <2>1, <2>2 DEF RenameWrite, Fail, store
<1>5. CASE \/ Open(h) \/ Write(h) \/ Disconnect(h) \/ CloseNew(h) \/ RemoveLook(h)
           \/ Mkdir(h) \/ Rename(h) \/ CloseLink(h)
  BY <1>5 DEF Open, Write, Disconnect, CloseNew, RemoveLook, Mkdir, Rename, CloseLink,
              vars, store
<1>6. QED
  BY <1>1, <1>2, <1>3, <1>4, <1>5 DEF Call

\* Whatever it does, ids stay what they are.
LEMMA CallNodes ==
  ASSUME TypeOK, CallsFit, NEW h \in Handlers, Call(h)
  PROVE  SameNodes
<1>1. CASE UNCHANGED <<nodes, nextId>>
  BY <1>1 DEF SameNodes, TypeOK
<1>2. CASE Placed(h)
  BY <1>2 DEF Placed, InsertRow, SameNodes, TypeOK
<1>3. CASE Pruned
  BY <1>3 DEF Pruned, SameNodes, TypeOK
<1>4. CASE Rearranged(h)
  BY <1>4 DEF Rearranged, SameNodes, TypeOK
<1>5. QED
  BY <1>1, <1>2, <1>3, <1>4, CallEffect

\* Nothing hangs below a document, and only spaces below nothing.
LEMMA CallLeaves ==
  ASSUME TypeOK, ShapeInv, NEW h \in Handlers, Call(h)
  PROVE  DocumentsAreLeaves' /\ RootHoldsSpaces'
<1> USE DEF ShapeInv, LeafInv
<1>1. CASE UNCHANGED <<nodes, nextId>>
  BY <1>1 DEF DocumentsAreLeaves, RootHoldsSpaces
<1>2. CASE Placed(h)
  <2>1. PICK kind \in {"document", "folder"} : InsertRow(h, kind) /\ FitParent(h)
    BY <1>2 DEF Placed
  <2>2. /\ nextId \notin DOMAIN nodes /\ DOMAIN nodes' = DOMAIN nodes \cup {nextId}
        /\ nodes'[nextId].parent = local[h].parent
    BY <2>1 DEF InsertRow, TypeOK
  <2>3. \A n \in DOMAIN nodes : nodes'[n] = nodes[n]
    BY <2>1, <2>2 DEF InsertRow
  <2>4. local[h].parent # Null
    BY <2>1 DEF FitParent, TypeOK, Null
  <2>5. QED
    BY <2>1, <2>2, <2>3, <2>4 DEF DocumentsAreLeaves, RootHoldsSpaces, FitParent
<1>3. CASE Pruned
  <2>1. PICK id : nodes' = [n \in DOMAIN nodes \ Descendants(id) |-> nodes[n]]
    BY <1>3 DEF Pruned
  <2>2. \A n \in DOMAIN nodes \ Descendants(id) : nodes[n].parent \notin Descendants(id)
    BY SubtreeClosed DEF Descendants
  <2>3. QED
    BY <2>1, <2>2 DEF DocumentsAreLeaves, RootHoldsSpaces
<1>4. CASE Rearranged(h)
  <2>1. FitParent(h) => local[h].parent # Null
    BY DEF FitParent, TypeOK, Null
  <2>2. QED
    BY <1>4, <2>1 DEF Rearranged, FitParent, DocumentsAreLeaves, RootHoldsSpaces
<1>5. QED
  BY <1>1, <1>2, <1>3, <1>4, CallEffect

\* Only the caller can come to hold an unfit directory.
LEMMA CallsFitStep ==
  ASSUME TypeOK, TypeOK', SameNodes, CallsFit, NEW h \in Handlers,
         \A g \in Handlers \ {h} : pc'[g] = pc[g] /\ local'[g] = local[g] /\ held'[g] = held[g],
         pc'[h] \in CallPlaces => LooksFit(local'[h].parent),
         \A k \in held'[h] : LooksFit(k.parent)
  PROVE  CallsFit'
<1>1. SUFFICES ASSUME NEW g \in Handlers
               PROVE  /\ pc'[g] \in CallPlaces => LooksFit(local'[g].parent)
                      /\ \A k \in held'[g] : LooksFit(k.parent)
  BY FitKept DEF CallsFit, LooksFit
<1>2. CASE g = h
  BY <1>2
<1>3. CASE g # h
  BY <1>3 DEF CallsFit
<1>4. QED
  BY <1>2, <1>3

\* A web request takes no label of a call, and no handle.
LEMMA StepLabels ==
  ASSUME TypeOK, NEW h \in Handlers, Step(h)
  PROVE  /\ pc'[h] \notin CallPlaces
         /\ \A g \in Handlers \ {h} : pc'[g] = pc[g] /\ local'[g] = local[g]
<1>1. ASSUME NEW label, NEW l, Goto(h, label, l), label \notin CallPlaces
      PROVE  /\ pc'[h] \notin CallPlaces
             /\ \A g \in Handlers \ {h} : pc'[g] = pc[g] /\ local'[g] = local[g]
  BY <1>1, GotoFrame
<1>2. \E label : label \notin CallPlaces /\ \E l : Goto(h, label, l)
  <2>1. CASE CreateStart(h) \/ CreateInsert(h) \/ SpaceSlug(h) \/ SpaceInsert(h) \/ Link(h)
    BY <2>1 DEF CreateStart, CreateInsert, SpaceSlug, SpaceInsert, Link, Fail, Return, CallPlaces
  <2>2. CASE CreateSlug(h) \/ UpdateSlug(h) \/ MoveSlug(h)
    BY <2>2 DEF CreateSlug, UpdateSlug, MoveSlug, ReadSlug, Return, CallPlaces
  <2>3. CASE UpdateStart(h)
    BY <2>3 DEF UpdateStart, CallPlaces
  <2>4. CASE UpdateWrite(h) \/ RemoveStart(h) \/ RemoveMedia(h) \/ RemoveDelete(h)
    BY <2>4 DEF UpdateWrite, RemoveStart, RemoveMedia, RemoveDelete, Fail, Return, CallPlaces
  <2>5. CASE OrphanRow(h) \/ UnlinkFile(h) \/ DeleteMedia(h)
    BY <2>5 DEF OrphanRow, UnlinkFile, DeleteMedia, Return, CallPlaces
  <2>6. CASE MoveStart(h) \/ MoveCheck(h) \/ MoveName(h) \/ MoveWrite(h)
    BY <2>6 DEF MoveStart, MoveCheck, MoveName, MoveWrite, Fail, Return, CallPlaces
  <2>7. CASE UploadFile(h) \/ UploadRow(h) \/ UploadEnd(h) \/ Abandon(h)
    BY <2>7 DEF UploadFile, UploadRow, UploadEnd, Abandon, Fail, Return, CallPlaces
  <2>8. QED
    BY <2>1, <2>2, <2>3, <2>4, <2>5, <2>6, <2>7 DEF Step
<1>3. QED
  BY <1>1, <1>2

\* On the web, too, what is placed below nothing is a space.
LEMMA StepRoots ==
  ASSUME TypeOK, RootHoldsSpaces, NEW h \in Handlers, Step(h)
  PROVE  RootHoldsSpaces'
<1>1. CASE UNCHANGED nodes
  BY <1>1 DEF RootHoldsSpaces
<1>2. ASSUME NEW kind, InsertRow(h, kind), kind = "space" \/ local[h].parent # Null
      PROVE  RootHoldsSpaces'
  BY <1>2 DEF InsertRow, RootHoldsSpaces
<1>3. CASE CreateInsert(h)
  <2>1. Null \notin DOMAIN nodes
    BY DEF TypeOK, Null
  <2>2. QED
    BY <1>1, <1>2, <1>3, <2>1 DEF CreateInsert, Fail, store
<1>4. CASE SpaceInsert(h)
  BY <1>2, <1>4 DEF SpaceInsert
<1>5. CASE UpdateWrite(h)
  BY <1>1, <1>5 DEF UpdateWrite, Fail, store, RootHoldsSpaces, TypeOK, Row
<1>6. CASE MoveWrite(h)
  <2>1. SUFFICES ASSUME nodes' # nodes PROVE RootHoldsSpaces'
    BY <1>1
  <2>2. /\ nodes' = [nodes EXCEPT ![local[h].id].parent = local[h].parent,
                                  ![local[h].id].slug = local[h].slug]
        /\ local[h].parent \in DOMAIN nodes
    BY <1>6, <2>1 DEF MoveWrite, Fail, store
  <2>3. local[h].parent # Null
    BY <2>2 DEF TypeOK, Null
  <2>4. /\ DOMAIN nodes' = DOMAIN nodes
        /\ \A n \in DOMAIN nodes :
              /\ nodes'[n].parent \in {nodes[n].parent, local[h].parent}
              /\ nodes'[n].kind = nodes[n].kind
    BY <2>2 DEF TypeOK, Row
  <2>5. QED
    BY <2>3, <2>4 DEF RootHoldsSpaces
<1>7. CASE RemoveDelete(h)
  BY <1>1, <1>7 DEF RemoveDelete, Fail, store, RootHoldsSpaces
<1>8. QED
  <2>1. SUFFICES ASSUME nodes' # nodes
                 PROVE  \/ CreateInsert(h) \/ SpaceInsert(h) \/ UpdateWrite(h)
                        \/ MoveWrite(h) \/ RemoveDelete(h)
    BY <1>1, <1>3, <1>4, <1>5, <1>6, <1>7
  <2>2. QED
    BY <2>1 DEF Step, CreateStart, CreateSlug, Link, SpaceSlug, UpdateStart,
                UpdateSlug, RemoveStart, RemoveMedia, OrphanRow, DeleteRow,
                UnlinkFile, DeleteMedia, MoveStart, MoveCheck, MoveName,
                MoveSlug, UploadFile, UploadRow, UploadEnd, Abandon, Fail,
                ReadSlug, store

LEMMA StepShape ==
  ASSUME FsTypeOK, FsTypeOK', ShapeInv, NEW h \in Handlers, Step(h), UNCHANGED held
  PROVE  ShapeInv'
<1>1. TypeOK /\ TypeOK' /\ LeafInv /\ CallsFit /\ RootHoldsSpaces
  BY DEF FsTypeOK, ShapeInv
<1>2. [Next]_vars
  BY DEF Next
<1>3. SameNodes /\ LeafInv'
  BY <1>1, <1>2, IdentityStep, NextLeaf
<1>4. /\ pc'[h] \notin CallPlaces
      /\ \A g \in Handlers \ {h} : pc'[g] = pc[g] /\ local'[g] = local[g]
  BY <1>1, StepLabels
<1>5. \A k \in held'[h] : LooksFit(k.parent)
  BY <1>1 DEF CallsFit
<1>6. CallsFit'
  BY <1>1, <1>3, <1>4, <1>5, CallsFitStep
<1>7. QED
  BY <1>1, <1>3, <1>6, StepRoots DEF ShapeInv

\* What a call holds and goes on with.
LEMMA CallTargets ==
  ASSUME FsTypeOK, FsTypeOK', ShapeInv, SameNodes, NEW h \in Handlers, Call(h)
  PROVE  TargetsFit' /\ CallsFit'
<1>0. TypeOK /\ TypeOK' /\ TargetsFit /\ CallsFit /\ Empty \in LocalType
  BY EmptyType DEF FsTypeOK, ShapeInv, LeafInv
<1>1. ASSUME NEW label, NEW l, Goto(h, label, l),
             label \notin Placing \cup {"spaceInsert"},
             label \in CallPlaces => LooksFit(l.parent),
             \A g \in Handlers \ {h} : held'[g] = held[g],
             \A k \in held'[h] : LooksFit(k.parent)
      PROVE  TargetsFit' /\ CallsFit'
  <2>1. TargetsFit'
    BY <1>0, <1>1, TargetsStep
  <2>2. CallsFit'
    BY <1>0, <1>1, GotoFrame, CallsFitStep
  <2>3. QED
    BY <2>1, <2>2
<1>2. CASE Open(h)
  <2>1. \A k \in held'[h] : k.parent \in Directories
    BY <1>2 DEF Open, FsTypeOK
  <2>2. \A g \in Handlers \ {h} : held'[g] = held[g]
    BY <1>2 DEF Open, FsTypeOK
  <2>3. UNCHANGED <<nodes, nextId, pc, local>>
    BY <1>2 DEF Open, vars
  <2>4. pc'[h] \notin CallPlaces
    BY <1>2, <2>3 DEF Open, Asked, CallPlaces
  <2>5. TargetsFit'
    BY <1>0, <2>3 DEF TargetsFit, LooksFit
  <2>6. QED
    BY <1>0, <2>1, <2>2, <2>3, <2>4, <2>5, DirectoryFits, CallsFitStep
<1>3. CASE Write(h) \/ Disconnect(h)
  <2>1. UNCHANGED <<nodes, nextId, pc, local>> /\ pc[h] = "idle"
    BY <1>3 DEF Write, Disconnect, vars
  <2>2. \A g \in Handlers \ {h} : held'[g] = held[g]
    BY <1>3 DEF Write, Disconnect, FsTypeOK
  <2>3. \A k \in held'[h] : LooksFit(k.parent)
    <3>1. CASE Write(h)
      <4>1. PICK k \in held[h], b \in Bodies : held' = [held EXCEPT ![h] = {[k EXCEPT !.buf = b]}]
        BY <3>1 DEF Write
      <4>2. k \in OpenHandle /\ LooksFit(k.parent)
        BY <1>0 DEF FsTypeOK, CallsFit
      <4>3. [k EXCEPT !.buf = b].parent = k.parent
        BY <4>2 DEF OpenHandle
      <4>4. QED
        BY <4>1, <4>2, <4>3 DEF FsTypeOK
    <3>2. CASE Disconnect(h)
      BY <3>2 DEF Disconnect, FsTypeOK
    <3>3. QED
      BY <1>3, <3>1, <3>2
  <2>4. TargetsFit'
    BY <1>0, <2>1 DEF TargetsFit, LooksFit
  <2>5. pc'[h] \notin CallPlaces
    BY <2>1 DEF CallPlaces
  <2>6. QED
    BY <1>0, <2>1, <2>2, <2>3, <2>4, <2>5, CallsFitStep
<1>4. CASE CloseKnown(h)
  <2>1. PICK l : Goto(h, "closeLink", l)
    BY <1>4 DEF CloseKnown
  <2>2. held' = [held EXCEPT ![h] = {}]
    BY <1>4 DEF CloseKnown
  <2>3. QED
    BY <1>1, <2>1, <2>2 DEF FsTypeOK, Placing, CallPlaces
<1>5. CASE CloseNew(h)
  <2> DEFINE L(k) == [Empty EXCEPT !.parent = k.parent, !.name = k.name, !.body = k.buf]
  <2>1. PICK k \in held[h] : Place(h, "closeInsert", L(k), Verbatim[k.name], Null)
    BY <1>5 DEF CloseNew
  <2>2. PICK s : Goto(h, "closeInsert", [L(k) EXCEPT !.slug = s])
    BY <2>1 DEF Place
  <2>3. [L(k) EXCEPT !.slug = s].parent = k.parent
    BY <1>0 DEF LocalType
  <2>4. LooksFit(k.parent)
    BY <1>0 DEF CallsFit
  <2>5. held' = [held EXCEPT ![h] = {}]
    BY <1>5 DEF CloseNew
  <2> HIDE DEF L
  <2>6. QED
    BY <1>1, <2>2, <2>3, <2>4, <2>5 DEF FsTypeOK, Placing, CallPlaces
<1>6. ASSUME NEW label, NEW p \in Directories, NEW l \in LocalType, NEW base, NEW except,
             Place(h, label, l, base, except), l.parent = p,
             label \in CallPlaces, UNCHANGED held
      PROVE  TargetsFit' /\ CallsFit'
  <2>1. PICK s : Goto(h, label, [l EXCEPT !.slug = s])
    BY <1>6 DEF Place
  <2>2. [l EXCEPT !.slug = s].parent = p
    BY <1>6 DEF LocalType
  <2>3. \A k \in held'[h] : LooksFit(k.parent)
    BY <1>0, <1>6 DEF CallsFit
  <2>4. QED
    BY <1>0, <1>1, <1>6, <2>1, <2>2, <2>3, DirectoryFits DEF Placing, CallPlaces
<1>7. CASE Mkdir(h)
  <2>1. PICK p \in Directories, n \in Names :
          Place(h, "mkdirInsert", [Empty EXCEPT !.parent = p, !.name = n], Slugify[n], Null)
    BY <1>7 DEF Mkdir
  <2>2. /\ [Empty EXCEPT !.parent = p, !.name = n] \in LocalType
        /\ [Empty EXCEPT !.parent = p, !.name = n].parent = p
    <3>1. p \in Nat
      BY <1>0 DEF Directories, TypeOK
    <3>2. QED
      BY <1>0, <3>1 DEF LocalType
  <2>3. QED
    BY <1>6, <1>7, <2>1, <2>2 DEF Mkdir, CallPlaces
<1>8. CASE Rename(h)
  <2>1. PICK id \in DOMAIN nodes, p \in Directories, n \in Names :
          Place(h, "renameWrite",
                [Empty EXCEPT !.id = id, !.parent = p, !.name = n], Slugify[n], id)
    BY <1>8 DEF Rename
  <2>2. /\ [Empty EXCEPT !.id = id, !.parent = p, !.name = n] \in LocalType
        /\ [Empty EXCEPT !.id = id, !.parent = p, !.name = n].parent = p
    <3>1. p \in Nat /\ id \in Nat
      BY <1>0 DEF Directories, TypeOK
    <3>2. QED
      BY <1>0, <3>1 DEF LocalType
  <2>3. QED
    BY <1>6, <1>8, <2>1, <2>2 DEF Rename, CallPlaces
<1>9. CASE CloseLink(h) \/ CloseInsert(h) \/ RemoveLook(h) \/ Erase(h)
           \/ MkdirInsert(h) \/ RenameWrite(h)
  <2>1. \A k \in held'[h] : LooksFit(k.parent)
    BY <1>0, <1>9 DEF CallsFit, CloseLink, CloseInsert, RemoveLook, Erase, MkdirInsert,
                      RenameWrite
  <2>2. \A g \in Handlers \ {h} : held'[g] = held[g]
    BY <1>9 DEF CloseLink, CloseInsert, RemoveLook, Erase, MkdirInsert, RenameWrite
  <2>3. \E label : /\ label \notin Placing \cup {"spaceInsert"} \cup CallPlaces
                   /\ \E l : Goto(h, label, l)
    BY <1>9 DEF CloseLink, CloseInsert, RemoveLook, Erase, MkdirInsert, RenameWrite,
                Fail, Return, Placing, CallPlaces
  <2>4. QED
    BY <1>1, <2>1, <2>2, <2>3
<1>10. QED
  BY <1>2, <1>3, <1>4, <1>5, <1>7, <1>8, <1>9 DEF Call

LEMMA NextShape ==
  ASSUME FsTypeOK, FsTypeOK', ShapeInv, [FsNext]_fsVars
  PROVE  ShapeInv' /\ SameNodes
<1>0. TypeOK /\ TypeOK' /\ CallsFit
  BY DEF FsTypeOK, ShapeInv
<1>1. ASSUME NEW h \in Handlers, Call(h) PROVE ShapeInv' /\ SameNodes
  <2>1. SameNodes
    BY <1>0, <1>1, CallNodes
  <2>2. QED
    BY <1>0, <1>1, <2>1, CallTargets, CallLeaves DEF ShapeInv, LeafInv
<1>2. ASSUME NEW h \in Handlers, Step(h), UNCHANGED held PROVE ShapeInv' /\ SameNodes
  <2>1. [Next]_vars
    BY <1>2 DEF Next
  <2>2. QED
    BY <1>0, <1>2, <2>1, StepShape, IdentityStep
<1>3. CASE UNCHANGED <<nodes, nextId, pc, local, held>>
  <2>1. SameNodes
    BY <1>0, <1>3 DEF SameNodes, TypeOK
  <2>2. QED
    BY <1>3, <2>1 DEF ShapeInv, LeafInv, DocumentsAreLeaves, TargetsFit, LooksFit, CallsFit,
                      RootHoldsSpaces
<1>4. QED
  BY <1>1, <1>2, <1>3 DEF FsNext, Next, Mirror, fsVars, vars

LEMMA InitShape == FsInit => ShapeInv
<1> SUFFICES ASSUME FsInit PROVE ShapeInv
  OBVIOUS
<1>1. LeafInv
  BY InitLeaf DEF FsInit
<1>2. CallsFit
  BY DEF FsInit, Init, CallsFit, CallPlaces
<1>3. RootHoldsSpaces
  BY SeedAssumption DEF FsInit, Init, RootHoldsSpaces, SeedAssumption
<1>4. QED
  BY <1>1, <1>2, <1>3 DEF ShapeInv

LEMMA ShapeKept == FsSpec => []ShapeInv
<1>1. FsTypeOK /\ FsTypeOK' /\ ShapeInv /\ [FsNext]_fsVars => ShapeInv'
  BY NextShape
<1>2. QED
  BY <1>1, InitShape, FsTypeCorrect, PTL DEF FsSpec

(***************************************************************************)
(* With sessions and requests at work together, no node hangs below a      *)
(* document or below a directory that is gone.                             *)
(***************************************************************************)
THEOREM FsLeavesAreLeaves == FsSpec => []DocumentsAreLeaves
<1>1. ShapeInv => DocumentsAreLeaves
  BY DEF ShapeInv, LeafInv
<1>2. QED
  BY <1>1, ShapeKept, PTL

(***************************************************************************)
(* The root holds the spaces and nothing else, whoever places a node.      *)
(***************************************************************************)
THEOREM RootsAreSpaces == FsSpec => []RootHoldsSpaces
<1>1. ShapeInv => RootHoldsSpaces
  BY DEF ShapeInv
<1>2. QED
  BY <1>1, ShapeKept, PTL

(***************************************************************************)
(* An open handle means the node it was opened on, or none, for ever.      *)
(***************************************************************************)
THEOREM FsIdsForEver == FsSpec => IdentityKept
<1>1. ShapeInv /\ FsTypeOK /\ FsTypeOK' /\ [FsNext]_fsVars =>
        [\A n \in (DOMAIN nodes') \cap (1..(nextId - 1)) :
            n \in DOMAIN nodes /\ nodes'[n].kind = nodes[n].kind]_vars
  BY NextShape DEF SameNodes
<1>2. QED
  BY <1>1, ShapeKept, FsTypeCorrect, PTL DEF FsSpec, IdentityKept

(***************************************************************************)
(* However late a handle is closed, it gives back a text and places        *)
(* nothing.                                                                *)
(***************************************************************************)
THEOREM LateCloses == FsSpec => LateCloseKeepsShape
<1>1. FsTypeOK =>
        [\A h \in Handlers : CloseKnown(h) =>
            DOMAIN nodes' = DOMAIN nodes /\ \A n \in DOMAIN nodes : Shape(n)' = Shape(n)]_fsVars
  BY CloseKnownShape DEF FsTypeOK
<1>2. QED
  BY <1>1, FsTypeCorrect, PTL DEF LateCloseKeepsShape

(***************************************************************************)
(*                               The import                                *)
(***************************************************************************)
(* Type correctness *)

Landings == UNION {[D -> Media] : D \in SUBSET Files}

\* The import that holds the lock is at its writes; its target is there.
LockHeld ==
  \A h \in Handlers : pc[h] = "importWrite" =>
    /\ lock = {h}
    /\ local[h].parent \in DOMAIN nodes
    /\ nextId + Cardinality(Made) <= MaxNodes + 1

\* Only an import that is writing, or failing, holds files.
LandedHeld ==
  \A h \in Handlers : pc[h] \notin {"importWrite", "importUndo"} => landed[h] = Nowhere

\* The target is the space or folder that was looked at, or it is gone.
ImportsFit ==
  \A h \in Handlers :
    pc[h] \in {"importBegin", "importLock", "importWrite"} => LooksFit(local[h].parent)

ImportTypeOK ==
  /\ TypeOK
  /\ fresh \subseteq Handlers /\ lock \subseteq Handlers
  /\ landed \in [Handlers -> Landings]
  /\ imported \subseteq Media
  /\ cut \in BOOLEAN

ImportInv == ImportTypeOK /\ LockHeld /\ LandedHeld /\ ImportsFit

LEMMA PlanShape ==
  /\ DOMAIN Plan = 1..Len(Plan) /\ Len(Plan) \in Nat
  /\ \A i \in DOMAIN Plan :
       /\ Plan[i].in \in Nat /\ Plan[i].in < i
       /\ Plan[i].in # 0 => Plan[i].in \in Made /\ Plan[Plan[i].in].kind = "folder"
       /\ Plan[i].embeds \subseteq Files
       /\ Plan[i].name \in Names
  /\ \A i \in Made : Plan[i].kind \in {"folder", "document"}
<1> DEFINE Entries == [kind : {"folder", "document", "file"}, in : Nat,
                       name : Names, embeds : SUBSET Nat]
<1>1. Plan \in Seq(Entries)
  BY PlanAssumption DEF PlanAssumption
<1> HIDE DEF Entries
<1>2. DOMAIN Plan = 1..Len(Plan) /\ Len(Plan) \in Nat /\ \A i \in 1..Len(Plan) : Plan[i] \in Entries
  BY <1>1
<1>3. \A i \in DOMAIN Plan :
         Plan[i] \in [kind : {"folder", "document", "file"}, in : Nat,
                      name : Names, embeds : SUBSET Nat]
  BY <1>2 DEF Entries
<1>4. ASSUME NEW i \in DOMAIN Plan
      PROVE  /\ Plan[i].in \in Nat /\ Plan[i].in < i
             /\ Plan[i].in # 0 => Plan[i].in \in Made /\ Plan[Plan[i].in].kind = "folder"
             /\ Plan[i].embeds \subseteq Files
             /\ Plan[i].name \in Names
  <2>1. Plan[i].in \in Nat /\ Plan[i].in < i /\ Plan[i].name \in Names
    BY <1>3, PlanAssumption DEF PlanAssumption
  <2>2. Plan[i].embeds \subseteq Files
    BY PlanAssumption DEF PlanAssumption
  <2>3. ASSUME Plan[i].in # 0 PROVE Plan[i].in \in Made /\ Plan[Plan[i].in].kind = "folder"
    <3>1. Plan[Plan[i].in].kind = "folder"
      BY <2>3, PlanAssumption DEF PlanAssumption
    <3>2. Plan[i].in \in DOMAIN Plan
      BY <1>2, <2>1, <2>3
    <3>3. QED
      BY <3>1, <3>2 DEF Made, Files
  <2>4. QED
    BY <2>1, <2>2, <2>3
<1>5. ASSUME NEW i \in Made PROVE Plan[i].kind \in {"folder", "document"}
  BY <1>3 DEF Made, Files
<1>6. QED
  BY <1>2, <1>4, <1>5

LEMMA MadeFinite == IsFiniteSet(Made) /\ Made \subseteq 1..Len(Plan)
<1>1. IsFiniteSet(1..Len(Plan))
  BY PlanShape, FS_Interval
<1>2. Made \subseteq 1..Len(Plan)
  BY PlanShape DEF Made
<1>3. QED
  BY <1>1, <1>2, FS_Subset

\* The ids of the plan's entries are those after nextId, in the plan's order.
LEMMA NewIds ==
  ASSUME nextId \in Nat
  PROVE  /\ Cardinality(Made) \in Nat
         /\ \A i \in Made : NewId(i) \in nextId..(nextId + Cardinality(Made) - 1)
         /\ \A i, k \in Made : i < k => NewId(i) < NewId(k)
<1> DEFINE Before(i) == {j \in Made : j < i}
<1>1. Cardinality(Made) \in Nat
  BY MadeFinite, FS_CardinalityType
<1>2. \A i \in Made : i \in Nat
  BY MadeFinite, PlanShape
<1>3. \A i \in Made : IsFiniteSet(Before(i)) /\ Cardinality(Before(i)) \in Nat
  <2>1. \A i : Before(i) \subseteq Made
    OBVIOUS
  <2>2. QED
    BY <2>1, MadeFinite, FS_Subset, FS_CardinalityType
<1>4. ASSUME NEW S \in SUBSET Made, NEW i \in S, IsFiniteSet(S), Before(i) \subseteq S
      PROVE  Cardinality(Before(i)) < Cardinality(S)
  <2>1. i \notin Before(i)
    BY <1>2
  <2>2. Cardinality(Before(i)) <= Cardinality(S) /\ Cardinality(Before(i)) # Cardinality(S)
    BY <1>4, <2>1, FS_Subset
  <2>3. Cardinality(S) \in Nat /\ Cardinality(Before(i)) \in Nat
    BY <1>3, <1>4, FS_CardinalityType
  <2> HIDE DEF Before
  <2>4. QED
    BY <2>2, <2>3
<1>5. \A i \in Made : Cardinality(Before(i)) < Cardinality(Made)
  BY <1>4, MadeFinite
<1>6. ASSUME NEW i \in Made, NEW k \in Made, i < k
      PROVE  Cardinality(Before(i)) < Cardinality(Before(k))
  <2>1. Before(k) \in SUBSET Made /\ i \in Before(k) /\ Before(i) \subseteq Before(k)
    BY <1>2, <1>6
  <2>2. IsFiniteSet(Before(k))
    BY <1>3
  <2> HIDE DEF Before
  <2>3. QED
    BY <1>4, <2>1, <2>2
<1>7. \A i : NewId(i) = nextId + Cardinality(Before(i))
  BY DEF NewId
<1> HIDE DEF Before
<1>8. QED
  BY <1>1, <1>3, <1>5, <1>6, <1>7

\* What an import does with the handlers: its labels are none of the tree's.
LEMMA OthersImports ==
  ASSUME TypeOK, Others
  PROVE  \A h \in Handlers : pc[h] \in Importing \/ pc'[h] \in Importing =>
            pc'[h] = pc[h] /\ local'[h] = local[h]
<1>1. CASE Mirror
  BY <1>1 DEF Mirror
<1>2. ASSUME NEW g \in Handlers, Step(g)
      PROVE  \A h \in Handlers : pc[h] \in Importing \/ pc'[h] \in Importing =>
                pc'[h] = pc[h] /\ local'[h] = local[h]
  BY <1>2, StepOffers DEF Others, Elsewhere
<1>3. QED
  BY <1>1, <1>2 DEF Others, Next

LEMMA NoLandings == Nowhere \in Landings
<1>1. Nowhere \in [{} -> Media]
  BY DEF Nowhere
<1>2. QED
  BY <1>1 DEF Landings

LEMMA LandOne ==
  ASSUME NEW p \in Landings, NEW f \in Files, NEW m \in Media
  PROVE  [i \in DOMAIN p \cup {f} |-> IF i = f THEN m ELSE p[i]] \in Landings
<1>1. PICK D \in SUBSET Files : p \in [D -> Media]
  BY DEF Landings
<1>2. [i \in D \cup {f} |-> IF i = f THEN m ELSE p[i]] \in [D \cup {f} -> Media]
  BY <1>1
<1>3. D \cup {f} \in SUBSET Files /\ DOMAIN p = D
  BY <1>1
<1>4. QED
  BY <1>2, <1>3 DEF Landings

LEMMA LandedInFiles ==
  ASSUME ImportTypeOK, NEW h \in Handlers
  PROVE  /\ landed[h] \in Landings
         /\ DOMAIN landed[h] \subseteq Files
         /\ \A f \in DOMAIN landed[h] : landed[h][f] \in Media
         /\ Landed(h) \subseteq Media
<1>1. landed[h] \in Landings
  BY DEF ImportTypeOK
<1>2. PICK D \in SUBSET Files : landed[h] \in [D -> Media]
  BY <1>1 DEF Landings
<1>3. QED
  BY <1>1, <1>2 DEF Landed

\* A step of an import that is not its commit leaves the tables alone.
LEMMA ImportQuiet ==
  ASSUME NEW h \in Handlers, ImportStep(h), ~ImportCommit(h)
  PROVE  UNCHANGED <<nodes, nextId, links, rows, listed>>
  BY DEF ImportStep, ImportStart, ImportBegin, ImportLock, ImportFile, ImportFail,
         ImportUndo, ImportCut, Fail, store

LEMMA ImportStepType ==
  ASSUME ImportTypeOK, NEW h \in Handlers, ImportStep(h), ~ImportCommit(h)
  PROVE  ImportTypeOK'
<1> USE DEF ImportTypeOK
<1>1. local[h] \in LocalType /\ Empty \in LocalType
  BY EmptyType DEF TypeOK
<1>2. CASE ImportStart(h)
  <2>1. PICK p \in DOMAIN nodes : Goto(h, "importBegin", [Empty EXCEPT !.parent = p])
    BY <1>2 DEF ImportStart
  <2>2. [Empty EXCEPT !.parent = p] \in LocalType
    BY <1>1 DEF LocalType, TypeOK
  <2>3. UNCHANGED store /\ UNCHANGED importOwn
    BY <1>2 DEF ImportStart
  <2>4. TypeOK'
    BY <2>1, <2>2, <2>3, ReadType DEF Labels
  <2>5. QED
    BY <2>3, <2>4 DEF importOwn
<1>3. CASE ImportBegin(h)
  <2>1. TypeOK'
    BY <1>1, <1>3, ReadType DEF ImportBegin, Labels
  <2>2. QED
    BY <1>3, <2>1 DEF ImportBegin
<1>4. CASE ImportLock(h)
  <2>1. TypeOK'
    BY <1>1, <1>4, ReadType DEF ImportLock, Labels
  <2>2. QED
    BY <1>4, <2>1 DEF ImportLock
<1>5. CASE ImportFail(h)
  <2>1. TypeOK'
    BY <1>1, <1>5, ReadType DEF ImportFail, Labels
  <2>2. QED
    BY <1>5, <2>1 DEF ImportFail
<1>6. CASE ImportUndo(h)
  <2>1. TypeOK'
    BY <1>6, ReturnType DEF ImportUndo, TypeOK
  <2>2. landed' \in [Handlers -> Landings]
    BY <1>6, NoLandings DEF ImportUndo
  <2>3. QED
    BY <1>6, <2>1, <2>2 DEF ImportUndo
<1>7. CASE ImportCut(h)
  <2>1. TypeOK'
    BY <1>7, <1>1, ReadType DEF ImportCut, Fail, Labels
  <2>2. landed' \in [Handlers -> Landings]
    BY <1>7, NoLandings DEF ImportCut
  <2>3. cut' \in BOOLEAN
    BY <1>7 DEF ImportCut
  <2>4. QED
    BY <1>7, <2>1, <2>2, <2>3 DEF ImportCut
<1>8. CASE ImportFile(h)
  <2>1. PICK f \in Files, m \in Media :
          /\ files' = files \cup {m} /\ imported' = imported \cup {m}
          /\ landed' = [landed EXCEPT ![h] = [i \in DOMAIN @ \cup {f} |->
                                                IF i = f THEN m ELSE @[i]]]
    BY <1>8 DEF ImportFile
  <2>2. [i \in DOMAIN landed[h] \cup {f} |-> IF i = f THEN m ELSE landed[h][i]] \in Landings
    BY LandOne
  <2>3. landed' \in [Handlers -> Landings]
    BY <2>1, <2>2
  <2>4. TypeOK'
    BY <1>8, <2>1 DEF ImportFile, TypeOK
  <2>5. QED
    BY <1>8, <2>1, <2>3, <2>4 DEF ImportFile
<1>9. QED
  BY <1>2, <1>3, <1>4, <1>5, <1>6, <1>7, <1>8 DEF ImportStep

(***************************************************************************)
(* What a commit adds: nodes with new ids, each below the target or below  *)
(* a folder that was made before it.                                       *)
(***************************************************************************)
TreeGrafted(p) ==
  /\ p \in DOMAIN nodes
  /\ DOMAIN nodes \subseteq DOMAIN nodes'
  /\ \A n \in DOMAIN nodes : nodes'[n] = nodes[n]
  /\ \A n \in DOMAIN nodes' \ DOMAIN nodes :
       /\ n \in Nat /\ n >= nextId
       /\ \/ nodes'[n].parent = p
          \/ /\ nodes'[n].parent \in DOMAIN nodes' \ DOMAIN nodes
             /\ nodes'[n].parent < n
             /\ nodes'[nodes'[n].parent].kind = "folder"

LEMMA CommitNodes ==
  ASSUME ImportInv, NEW h \in Handlers, ImportCommit(h)
  PROVE  /\ local[h].parent \in DOMAIN nodes
         /\ DOMAIN nodes' = DOMAIN nodes \cup {NewId(i) : i \in Made}
         /\ \A i \in Made : NewId(i) \in Nat \ DOMAIN nodes /\ NewId(i) >= nextId
         /\ \A n \in DOMAIN nodes : nodes'[n] = nodes[n]
         /\ \E slug \in SlugsOf(h) : \A i \in Made : nodes'[NewId(i)] = NewRow(h, i, slug)
<1>1. TypeOK /\ nextId \in Nat /\ local[h].parent \in DOMAIN nodes
  BY BoundsAssumption
     DEF ImportInv, ImportTypeOK, LockHeld, ImportCommit, TypeOK, BoundsAssumption
<1>2. \A i \in Made : NewId(i) \in Nat \ DOMAIN nodes /\ NewId(i) >= nextId
  BY <1>1, NewIds DEF TypeOK
<1>3. PICK slug \in SlugsOf(h) :
        nodes' = [n \in DOMAIN nodes \cup {NewId(i) : i \in Made} |->
                    IF n \in DOMAIN nodes THEN nodes[n]
                    ELSE NewRow(h, CHOOSE i \in Made : n = NewId(i), slug)]
  BY DEF ImportCommit
<1>4. ASSUME NEW i \in Made PROVE (CHOOSE k \in Made : NewId(i) = NewId(k)) = i
  <2>1. \A k \in Made : NewId(i) = NewId(k) => k = i
    <3>1. Made \subseteq Nat
      BY MadeFinite, PlanShape
    <3>2. ASSUME NEW k \in Made, k # i PROVE NewId(k) # NewId(i)
      <4>1. i < k \/ k < i
        BY <3>1, <3>2
      <4>2. NewId(i) \in Nat /\ NewId(k) \in Nat
        BY <1>2
      <4>3. NewId(i) < NewId(k) \/ NewId(k) < NewId(i)
        BY <1>1, <4>1, NewIds
      <4>4. QED
        BY <4>2, <4>3
    <3>3. QED
      BY <3>2
  <2>2. QED
    BY <2>1
<1>5. \A i \in Made : nodes'[NewId(i)] = NewRow(h, i, slug)
  <2> SUFFICES ASSUME NEW i \in Made PROVE nodes'[NewId(i)] = NewRow(h, i, slug)
    OBVIOUS
  <2>1. nodes'[NewId(i)] = NewRow(h, CHOOSE k \in Made : NewId(i) = NewId(k), slug)
    BY <1>2, <1>3
  <2>2. QED
    BY <1>4, <2>1
<1>6. DOMAIN nodes' = DOMAIN nodes \cup {NewId(i) : i \in Made}
  BY <1>3
<1>7. \A n \in DOMAIN nodes : nodes'[n] = nodes[n]
  BY <1>3
<1>8. QED
  BY <1>1, <1>2, <1>5, <1>6, <1>7

LEMMA RowFields ==
  ASSUME NEW h, NEW i, NEW slug
  PROVE  /\ NewRow(h, i, slug).parent = Parent(h, i)
         /\ NewRow(h, i, slug).kind = Plan[i].kind
  BY DEF NewRow

LEMMA CommitGrafts ==
  ASSUME ImportInv, NEW h \in Handlers, ImportCommit(h)
  PROVE  TreeGrafted(local[h].parent)
<1>1. nextId \in Nat
  BY BoundsAssumption DEF ImportInv, ImportTypeOK, TypeOK, BoundsAssumption
<1>2. PICK slug \in SlugsOf(h) : \A i \in Made : nodes'[NewId(i)] = NewRow(h, i, slug)
  BY CommitNodes
<1>3. ASSUME NEW i \in Made
      PROVE  \/ nodes'[NewId(i)].parent = local[h].parent
             \/ /\ nodes'[NewId(i)].parent \in DOMAIN nodes' \ DOMAIN nodes
                /\ nodes'[NewId(i)].parent < NewId(i)
                /\ nodes'[nodes'[NewId(i)].parent].kind = "folder"
  <2>1. nodes'[NewId(i)].parent = Parent(h, i)
    BY <1>2, RowFields
  <2>2. SUFFICES ASSUME Plan[i].in # 0
                 PROVE  /\ Parent(h, i) \in DOMAIN nodes' \ DOMAIN nodes
                        /\ Parent(h, i) < NewId(i)
                        /\ nodes'[Parent(h, i)].kind = "folder"
    BY <2>1 DEF Parent
  <2>3. Plan[i].in \in Made /\ Plan[i].in < i /\ Plan[Plan[i].in].kind = "folder"
    BY <2>2, PlanShape DEF Made
  <2>4. Parent(h, i) = NewId(Plan[i].in)
    BY <2>2 DEF Parent
  <2>5. Parent(h, i) \in DOMAIN nodes' \ DOMAIN nodes
    BY <2>3, <2>4, CommitNodes
  <2>6. nodes'[Parent(h, i)].kind = "folder"
    BY <1>2, <2>3, <2>4, RowFields
  <2>7. Parent(h, i) < NewId(i)
    BY <1>1, <2>3, <2>4, NewIds
  <2>8. QED
    BY <2>5, <2>6, <2>7
<1>4. ASSUME NEW n \in DOMAIN nodes' \ DOMAIN nodes
      PROVE  /\ n \in Nat /\ n >= nextId
             /\ \/ nodes'[n].parent = local[h].parent
                \/ /\ nodes'[n].parent \in DOMAIN nodes' \ DOMAIN nodes
                   /\ nodes'[n].parent < n
                   /\ nodes'[nodes'[n].parent].kind = "folder"
  <2>1. PICK i \in Made : n = NewId(i)
    BY CommitNodes
  <2>2. n \in Nat /\ n >= nextId
    BY <2>1, CommitNodes
  <2>3. QED
    BY <1>3, <2>1, <2>2
<1>5. QED
  BY <1>4, CommitNodes DEF TreeGrafted

\* The rows and links a commit adds fit their columns.
LEMMA NewRowType ==
  ASSUME ImportInv, NEW h \in Handlers, ImportCommit(h), NEW slug \in SlugsOf(h), NEW i \in Made
  PROVE  NewRow(h, i, slug) \in Row
<1>1. nextId \in Nat /\ local[h] \in LocalType
  BY BoundsAssumption DEF ImportInv, ImportTypeOK, TypeOK, BoundsAssumption
<1>2. Plan[i].kind \in Kinds /\ Plan[i].name \in Names
  BY PlanShape DEF Kinds, Made
<1>3. Parent(h, i) \in Nat
  <2>1. CASE Plan[i].in = 0
    BY <1>1, <2>1 DEF Parent, LocalType
  <2>2. CASE Plan[i].in # 0
    <3>1. Plan[i].in \in Made
      BY <2>2, PlanShape DEF Made
    <3>2. QED
      BY <2>2, <3>1, CommitNodes DEF Parent
  <2>3. QED
    BY <2>1, <2>2
<1>4. slug[i] \in Slugs
  BY DEF SlugsOf
<1>5. Rewritten(h, i) \subseteq Media
  <2>1. Plan[i].embeds \subseteq Files
    BY PlanShape DEF Made
  <2>2. QED
    BY <2>1, LandedInFiles DEF Rewritten, ImportCommit, ImportInv
<1>6. QED
  BY <1>2, <1>3, <1>4, <1>5 DEF NewRow, Row

LEMMA NewLinksType ==
  ASSUME ImportInv, NEW h \in Handlers, ImportCommit(h)
  PROVE  NewLinks(h) \subseteq (DOMAIN nodes') \X rows'
<1>1. \A i \in Made : NewId(i) \in DOMAIN nodes'
  BY CommitNodes
<1>2. \A f \in Files : landed[h][f] \in rows'
  BY DEF ImportCommit, Landed
<1>3. \A f \in Files : Parent(h, f) \in DOMAIN nodes'
  <2>1. ASSUME NEW f \in Files PROVE Parent(h, f) \in DOMAIN nodes'
    <3>1. Plan[f].in # 0 => Plan[f].in \in Made
      BY PlanShape DEF Files
    <3>2. QED
      BY <1>1, <3>1, CommitNodes DEF Parent
  <2>2. QED
    BY <2>1
<1>4. QED
  BY <1>1, <1>2, <1>3 DEF NewLinks, Owners

LEMMA CommitType ==
  ASSUME ImportInv, NEW h \in Handlers, ImportCommit(h)
  PROVE  ImportTypeOK'
<1> USE DEF ImportInv, ImportTypeOK
<1>1. nextId \in Nat /\ MaxNodes \in Nat /\ Cardinality(Made) \in Nat
  BY BoundsAssumption, MadeFinite, FS_CardinalityType DEF TypeOK, BoundsAssumption
<1>2. nodes' \in [DOMAIN nodes' -> Row]
  <2>1. ASSUME NEW n \in DOMAIN nodes' PROVE nodes'[n] \in Row
    <3>1. CASE n \in DOMAIN nodes
      BY <3>1, CommitNodes DEF TypeOK
    <3>2. CASE n \notin DOMAIN nodes
      <4>1. PICK i \in Made : n = NewId(i)
        BY <3>2, CommitNodes
      <4>2. PICK slug \in SlugsOf(h) : nodes'[NewId(i)] = NewRow(h, i, slug)
        BY CommitNodes
      <4>3. QED
        BY <4>1, <4>2, NewRowType
    <3>3. QED
      BY <3>1, <3>2
  <2>2. nodes' = [n \in DOMAIN nodes' |-> nodes'[n]]
    BY DEF ImportCommit
  <2>3. QED
    BY <2>1, <2>2
<1>3. nextId' = nextId + Cardinality(Made)
  BY DEF ImportCommit
<1>4. DOMAIN nodes' \subseteq 1..(nextId' - 1)
  <2>1. ASSUME NEW n \in DOMAIN nodes' PROVE n \in 1..(nextId' - 1)
    <3>1. CASE n \in DOMAIN nodes
      BY <1>1, <1>3, <3>1 DEF TypeOK
    <3>2. CASE n \notin DOMAIN nodes
      <4>1. PICK i \in Made : n = NewId(i)
        BY <3>2, CommitNodes
      <4>2. n \in nextId..(nextId + Cardinality(Made) - 1) /\ nextId >= 1
        BY <1>1, <4>1, NewIds DEF TypeOK
      <4>3. QED
        BY <1>1, <1>3, <4>2
    <3>3. QED
      BY <3>1, <3>2
  <2>2. QED
    BY <2>1
<1>5. nextId' \in 1..(MaxNodes + 1)
  BY <1>1, <1>3 DEF LockHeld, ImportCommit, TypeOK
<1>6. links' \subseteq (DOMAIN nodes') \X rows'
  <2>1. DOMAIN nodes \subseteq DOMAIN nodes' /\ rows \subseteq rows'
    BY CommitNodes DEF ImportCommit
  <2>2. links' = links \cup NewLinks(h) /\ links \subseteq (DOMAIN nodes) \X rows
    BY DEF ImportCommit, TypeOK
  <2>3. QED
    BY <2>1, <2>2, NewLinksType
<1>7. /\ rows' \subseteq listed' /\ listed' \subseteq Media /\ files' \subseteq Media
      /\ dirty' \in BOOLEAN /\ changed' \in BOOLEAN
  BY LandedInFiles DEF ImportCommit, TypeOK, Signal
<1>8. pc' \in [Handlers -> Labels] /\ local' \in [Handlers -> LocalType]
  BY ReturnType DEF ImportCommit
<1>9. landed' \in [Handlers -> Landings]
  BY NoLandings DEF ImportCommit
<1>10. TypeOK'
  BY <1>2, <1>4, <1>5, <1>6, <1>7, <1>8 DEF TypeOK
<1>11. QED
  BY <1>9, <1>10 DEF ImportCommit

LEMMA OthersType == ASSUME ImportTypeOK, Others PROVE ImportTypeOK'
<1>1. TypeOK'
  BY NextType DEF Others, ImportTypeOK
<1>2. fresh' \in {fresh, {}}
  BY DEF Others
<1>3. QED
  BY <1>1, <1>2 DEF Others, ImportTypeOK

LEMMA ImportNextType ==
  ASSUME ImportInv, [ImportNext]_importVars
  PROVE  ImportTypeOK'
<1>1. CASE UNCHANGED importVars
  <2>1. TypeOK'
    BY <1>1, NextType DEF ImportInv, ImportTypeOK, importVars
  <2>2. QED
    BY <1>1, <2>1 DEF ImportInv, ImportTypeOK, importVars
<1>2. QED
  BY <1>1, CommitType, ImportStepType, OthersType DEF ImportNext, ImportInv

\* Ids stay what they are, imports included.
LEMMA ImportSameNodes ==
  ASSUME ImportInv, [ImportNext]_importVars
  PROVE  SameNodes
<1>1. TypeOK
  BY DEF ImportInv, ImportTypeOK
<1>2. CASE Others \/ UNCHANGED importVars
  BY <1>1, <1>2, IdentityStep DEF Others, importVars
<1>3. ASSUME NEW h \in Handlers, ImportCommit(h) PROVE SameNodes
  <2>1. /\ nextId \in Nat /\ nextId' = nextId + Cardinality(Made) /\ Cardinality(Made) \in Nat
    BY <1>1, <1>3, BoundsAssumption, NewIds DEF ImportCommit, TypeOK, BoundsAssumption
  <2>2. TreeGrafted(local[h].parent)
    BY <1>3, CommitGrafts
  <2>3. QED
    BY <2>1, <2>2 DEF SameNodes, TreeGrafted
<1>4. ASSUME NEW h \in Handlers, ImportStep(h), ~ImportCommit(h) PROVE SameNodes
  BY <1>1, <1>4, ImportQuiet DEF SameNodes, TypeOK
<1>5. QED
  BY <1>2, <1>3, <1>4 DEF ImportNext

\* Where an import goes, and what it holds there.
ImportGoes(h, label, l) ==
  /\ Goto(h, label, l)
  /\ label \in {"idle"} \cup Importing
  /\ label \in {"importBegin", "importLock", "importWrite"} => LooksFit(l.parent)
  /\ label \notin {"importWrite", "importUndo"} => landed'[h] = Nowhere

LEMMA ImportFrame ==
  ASSUME ImportInv, NEW h \in Handlers, ImportStep(h)
  PROVE  /\ \A g \in Handlers \ {h} :
              /\ pc'[g] = pc[g] /\ local'[g] = local[g] /\ landed'[g] = landed[g]
              /\ lock = {g} => lock' = lock \/ ImportCommit(h)
         /\ \/ \E label, l : ImportGoes(h, label, l)
            \/ UNCHANGED <<pc, local>> /\ pc[h] = "importWrite"
<1> USE DEF ImportInv, ImportTypeOK
<1>1. ASSUME NEW label, NEW l, Goto(h, label, l)
      PROVE  \A g \in Handlers \ {h} : pc'[g] = pc[g] /\ local'[g] = local[g]
  BY <1>1, GotoFrame
<1>2. CASE ImportStart(h)
  <2>1. PICK p \in DOMAIN nodes :
          nodes[p].kind # "document" /\ Goto(h, "importBegin", [Empty EXCEPT !.parent = p])
    BY <1>2 DEF ImportStart
  <2> DEFINE l == [Empty EXCEPT !.parent = p]
  <2>2. l.parent = p /\ LooksFit(p)
    BY <2>1 DEF Empty, LooksFit, TypeOK
  <2>3. Goto(h, "importBegin", l) /\ UNCHANGED <<landed, lock>> /\ landed[h] = Nowhere
    BY <1>2, <2>1 DEF ImportStart, importOwn, Asked, LandedHeld
  <2> HIDE DEF l
  <2>4. ImportGoes(h, "importBegin", l)
    BY <2>2, <2>3 DEF ImportGoes, Importing
  <2>5. QED
    BY <1>1, <2>3, <2>4
<1>3. CASE ImportBegin(h)
  <2>1. ImportGoes(h, "importLock", local[h])
    BY <1>3 DEF ImportBegin, ImportGoes, Importing, LandedHeld, ImportsFit
  <2>2. QED
    BY <1>1, <1>3, <2>1 DEF ImportBegin
<1>4. CASE ImportLock(h)
  <2>1. \E label : ImportGoes(h, label, local[h])
    BY <1>4 DEF ImportLock, ImportGoes, Importing, LandedHeld, ImportsFit
  <2>2. UNCHANGED landed /\ lock = {} /\ \E label : Goto(h, label, local[h])
    BY <1>4 DEF ImportLock
  <2>3. QED
    BY <1>1, <2>1, <2>2
<1>5. CASE ImportFail(h)
  <2>1. ImportGoes(h, "importUndo", local[h])
    BY <1>5 DEF ImportFail, ImportGoes, Importing
  <2>2. QED
    BY <1>1, <1>5, <2>1 DEF ImportFail
<1>6. CASE ImportUndo(h)
  <2>1. ImportGoes(h, "idle", Empty)
    BY <1>6 DEF ImportUndo, Return, ImportGoes, Importing
  <2>2. QED
    BY <1>1, <1>6, <2>1 DEF ImportUndo, Return
<1>7. CASE ImportCut(h)
  <2>1. ImportGoes(h, "idle", Empty)
    BY <1>7 DEF ImportCut, Fail, Return, ImportGoes, Importing
  <2>2. QED
    BY <1>1, <1>7, <2>1 DEF ImportCut, Fail, Return
<1>8. CASE ImportFile(h)
  BY <1>8 DEF ImportFile
<1>9. CASE ImportCommit(h)
  <2>1. ImportGoes(h, "idle", Empty)
    BY <1>9 DEF ImportCommit, Return, ImportGoes, Importing
  <2>2. QED
    BY <1>1, <1>9, <2>1 DEF ImportCommit, Return
<1>10. QED
  BY <1>2, <1>3, <1>4, <1>5, <1>6, <1>7, <1>8, <1>9 DEF ImportStep

LEMMA LockStep ==
  ASSUME ImportInv, NEW h \in Handlers, ImportStep(h)
  PROVE  LockHeld'
<1> USE DEF ImportInv, ImportTypeOK
<1>1. ASSUME NEW g \in Handlers \ {h}, pc'[g] = "importWrite"
      PROVE  /\ lock' = {g} /\ local'[g].parent \in DOMAIN nodes'
             /\ nextId' + Cardinality(Made) <= MaxNodes + 1
  <2>1. pc[g] = "importWrite" /\ local'[g] = local[g]
    BY <1>1, ImportFrame
  <2>2. lock = {g} /\ local[g].parent \in DOMAIN nodes
        /\ nextId + Cardinality(Made) <= MaxNodes + 1
    BY <2>1 DEF LockHeld
  <2>3. ~ImportCommit(h)
    BY <2>2 DEF ImportCommit, LockHeld
  <2>4. lock' = lock /\ UNCHANGED <<nodes, nextId>>
    BY <2>2, <2>3, ImportFrame, ImportQuiet
  <2>5. QED
    BY <2>1, <2>2, <2>4
<1>2. ASSUME pc'[h] = "importWrite"
      PROVE  /\ lock' = {h} /\ local'[h].parent \in DOMAIN nodes'
             /\ nextId' + Cardinality(Made) <= MaxNodes + 1
  <2>1. CASE ImportLock(h)
    <3>1. UNCHANGED store /\ nextId + Cardinality(Made) <= MaxNodes + 1
      BY <2>1 DEF ImportLock
    <3>2. \/ /\ local[h].parent \in DOMAIN nodes /\ lock' = {h}
             /\ Goto(h, "importWrite", local[h])
          \/ Goto(h, "importUndo", local[h])
      BY <2>1 DEF ImportLock
    <3>3. QED
      BY <1>2, <3>1, <3>2, GotoFrame DEF store
  <2>2. CASE ImportFile(h)
    BY <2>2 DEF ImportFile, LockHeld
  <2>3. ASSUME NEW label, NEW l, Goto(h, label, l), label # "importWrite" PROVE FALSE
    BY <1>2, <2>3, GotoFrame
  <2>4. CASE ImportStart(h) \/ ImportBegin(h) \/ ImportFail(h)
    BY <2>3, <2>4 DEF ImportStart, ImportBegin, ImportFail
  <2>5. CASE ImportUndo(h) \/ ImportCut(h) \/ ImportCommit(h)
    BY <2>3, <2>5 DEF ImportUndo, ImportCut, ImportCommit, Fail, Return
  <2>6. QED
    BY <2>1, <2>2, <2>4, <2>5 DEF ImportStep
<1>3. QED
  BY <1>1, <1>2 DEF LockHeld

LEMMA ImportInvStep ==
  ASSUME ImportInv, [ImportNext]_importVars
  PROVE  ImportInv'
<1>1. ImportTypeOK' /\ TypeOK /\ TypeOK' /\ SameNodes
  BY ImportNextType, ImportSameNodes DEF ImportInv, ImportTypeOK
<1>2. ASSUME NEW p, LooksFit(p)
      PROVE  LooksFit(p)'
  BY <1>1, <1>2, FitKept DEF LooksFit
<1>3. CASE UNCHANGED importVars
  BY <1>1, <1>3 DEF ImportInv, importVars, vars, LockHeld, LandedHeld, ImportsFit, LooksFit
<1>4. CASE Others
  <2>1. \A h \in Handlers : pc[h] \in Importing \/ pc'[h] \in Importing =>
           pc'[h] = pc[h] /\ local'[h] = local[h]
    BY <1>1, <1>4, OthersImports
  <2>2. UNCHANGED <<lock, landed>> /\ (lock # {} => UNCHANGED <<nodes, nextId>>)
    BY <1>4 DEF Others, tables
  <2>3. LockHeld'
    BY <2>1, <2>2 DEF ImportInv, LockHeld, Importing
  <2>4. LandedHeld'
    BY <2>1, <2>2 DEF ImportInv, LandedHeld, Importing
  <2>5. ImportsFit'
    BY <1>2, <2>1 DEF ImportInv, ImportsFit, Importing
  <2>6. QED
    BY <1>1, <2>3, <2>4, <2>5 DEF ImportInv
<1>5. ASSUME NEW h \in Handlers, ImportStep(h) PROVE ImportInv'
  <2>1. LockHeld'
    BY <1>5, LockStep
  <2>2. \A g \in Handlers \ {h} :
           pc'[g] = pc[g] /\ local'[g] = local[g] /\ landed'[g] = landed[g]
    BY <1>5, ImportFrame
  <2>3. \A g \in Handlers \ {h} :
          /\ pc'[g] \notin {"importWrite", "importUndo"} => landed'[g] = Nowhere
          /\ pc'[g] \in {"importBegin", "importLock", "importWrite"} => LooksFit(local'[g].parent)
    BY <2>2 DEF ImportInv, LandedHeld, ImportsFit
  <2>4. /\ pc'[h] \notin {"importWrite", "importUndo"} => landed'[h] = Nowhere
        /\ pc'[h] \in {"importBegin", "importLock", "importWrite"} => LooksFit(local'[h].parent)
    <3>1. CASE UNCHANGED <<pc, local>> /\ pc[h] = "importWrite"
      BY <3>1 DEF ImportInv, ImportsFit
    <3>2. ASSUME NEW label, NEW l, ImportGoes(h, label, l)
          PROVE  /\ pc'[h] \notin {"importWrite", "importUndo"} => landed'[h] = Nowhere
                 /\ pc'[h] \in {"importBegin", "importLock", "importWrite"} =>
                      LooksFit(local'[h].parent)
      <4>1. pc'[h] = label /\ local'[h] = l
        BY <1>1, <3>2, GotoFrame DEF ImportGoes
      <4>2. QED
        BY <3>2, <4>1 DEF ImportGoes
    <3>3. QED
      BY <1>5, <3>1, <3>2, ImportFrame
  <2>5. LandedHeld'
    BY <2>3, <2>4 DEF LandedHeld
  <2>6. ImportsFit'
    BY <1>2, <2>3, <2>4 DEF ImportsFit
  <2>7. QED
    BY <1>1, <2>1, <2>5, <2>6 DEF ImportInv
<1>6. QED
  BY <1>3, <1>4, <1>5 DEF ImportNext

LEMMA ImportInvInit == ImportInit => ImportInv
<1>1. ImportInit => TypeOK
  BY InitType DEF ImportInit
<1>2. ImportInit => landed \in [Handlers -> Landings]
  BY NoLandings DEF ImportInit
<1>3. ImportInit => LockHeld /\ LandedHeld /\ ImportsFit
  BY DEF ImportInit, Init, LockHeld, LandedHeld, ImportsFit
<1>4. QED
  BY <1>1, <1>2, <1>3 DEF ImportInit, ImportInv, ImportTypeOK

\* The types, and what an import under way may rely on.
THEOREM ImportTypeCorrect == ImportSpec => []ImportInv
BY ImportInvInit, ImportInvStep, PTL DEF ImportSpec

-----------------------------------------------------------------------------
(***************************************************************************)
(* The files of an import.  What an import has written and not committed   *)
(* has no row, so no deletion touches it; no upload draws its id, because  *)
(* ids are random; and no two imports hold one file.                       *)
(***************************************************************************)
LandedApart ==
  /\ \A h \in Handlers : Landed(h) \subseteq files \cap imported /\ Landed(h) \cap listed = {}
  /\ \A g, h \in Handlers : g # h => Landed(g) \cap Landed(h) = {}
  /\ \A h \in Handlers : pc[h] = "uploadRow" => local[h].file \cap imported = {}

ImportFileInv == FileInv /\ LandedApart

\* What a handler of the tree does to the files and to what is listed.
LEMMA FileMoves ==
  ASSUME TypeOK, FileInv, NEW h \in Handlers, Step(h)
  PROVE  /\ files \ files' \subseteq listed
         /\ listed \subseteq listed'
         /\ \A m \in listed' \ listed : pc[h] = "uploadRow" /\ m \in local[h].file
         /\ pc'[h] = "uploadRow" => local'[h].file \subseteq files' \ files
<1>1. ASSUME NEW label, NEW l, Goto(h, label, l)
      PROVE  pc'[h] = label /\ local'[h] = l
  BY <1>1, GotoFrame
<1>2. ASSUME UNCHANGED <<files, listed>>, NEW label, NEW l, Goto(h, label, l),
             label # "uploadRow"
      PROVE  /\ files \ files' \subseteq listed
             /\ listed \subseteq listed'
             /\ \A m \in listed' \ listed : pc[h] = "uploadRow" /\ m \in local[h].file
             /\ pc'[h] = "uploadRow" => local'[h].file \subseteq files' \ files
  BY <1>1, <1>2
<1>3. CASE UploadFile(h)
  <2>1. PICK m \in Media \ (listed \cup files) :
          files' = files \cup {m} /\ Goto(h, "uploadRow", [Empty EXCEPT !.file = {m}])
    BY <1>3 DEF UploadFile
  <2>2. [Empty EXCEPT !.file = {m}].file = {m}
    BY DEF Empty
  <2>3. local'[h].file = {m}
    BY <1>1, <2>1, <2>2
  <2>4. QED
    BY <1>3, <2>1, <2>3 DEF UploadFile
<1>4. CASE UploadRow(h)
  BY <1>1, <1>4 DEF UploadRow, Return
<1>5. CASE UnlinkFile(h)
  BY <1>1, <1>5 DEF UnlinkFile, Return, FileInv, DeletionsListed
<1>6. CASE OrphanRow(h) \/ DeleteMedia(h)
  BY <1>2, <1>6 DEF OrphanRow, DeleteMedia, DeleteRow
<1>7. CASE UploadEnd(h) \/ Abandon(h)
  BY <1>2, <1>7 DEF UploadEnd, Abandon, Fail, Return, store
<1>8. CASE CreateStart(h) \/ SpaceSlug(h) \/ UpdateStart(h) \/ RemoveStart(h) \/ MoveStart(h)
  BY <1>2, <1>8 DEF CreateStart, SpaceSlug, UpdateStart, RemoveStart, MoveStart, store
<1>9. CASE CreateSlug(h) \/ UpdateSlug(h) \/ MoveSlug(h)
  BY <1>2, <1>9 DEF CreateSlug, UpdateSlug, MoveSlug, ReadSlug, Return, store
<1>10. CASE CreateInsert(h) \/ SpaceInsert(h) \/ UpdateWrite(h) \/ Link(h)
  BY <1>2, <1>10 DEF CreateInsert, SpaceInsert, UpdateWrite, Link, Fail, Return, store
<1>11. CASE RemoveMedia(h) \/ RemoveDelete(h)
  BY <1>2, <1>11 DEF RemoveMedia, RemoveDelete, Fail, Return, store
<1>12. CASE MoveCheck(h) \/ MoveName(h) \/ MoveWrite(h)
  BY <1>2, <1>12 DEF MoveCheck, MoveName, MoveWrite, Fail, Return, store
<1>13. QED
  BY <1>3, <1>4, <1>5, <1>6, <1>7, <1>8, <1>9, <1>10, <1>11, <1>12 DEF Step

LEMMA LandedFile ==
  ASSUME ImportInv, NEW h \in Handlers, ImportFile(h)
  PROVE  \E m \in Media \ (listed \cup files \cup imported) :
           /\ files' = files \cup {m} /\ imported' = imported \cup {m}
           /\ Landed(h)' = Landed(h) \cup {m}
           /\ \A g \in Handlers \ {h} : Landed(g)' = Landed(g)
<1>1. PICK f \in Files \ DOMAIN landed[h], m \in Media \ (listed \cup files \cup imported) :
        /\ files' = files \cup {m} /\ imported' = imported \cup {m}
        /\ landed' = [landed EXCEPT ![h] = [i \in DOMAIN @ \cup {f} |->
                                              IF i = f THEN m ELSE @[i]]]
  BY DEF ImportFile
<1>2. landed \in [Handlers -> Landings]
  BY DEF ImportInv, ImportTypeOK
<1>3. /\ landed'[h] = [i \in DOMAIN landed[h] \cup {f} |-> IF i = f THEN m ELSE landed[h][i]]
      /\ \A g \in Handlers \ {h} : landed'[g] = landed[g]
  BY <1>1, <1>2
<1>4. /\ DOMAIN landed'[h] = DOMAIN landed[h] \cup {f}
      /\ landed'[h][f] = m
      /\ \A i \in DOMAIN landed[h] : landed'[h][i] = landed[h][i]
  BY <1>1, <1>3
<1>5. Landed(h)' = Landed(h) \cup {m}
  BY <1>4 DEF Landed
<1>6. QED
  BY <1>1, <1>3, <1>5 DEF Landed

\* The ends of an import: it holds no file afterwards.
LEMMA LandedEnds ==
  ASSUME ImportInv, NEW h \in Handlers, landed' = [landed EXCEPT ![h] = Nowhere]
  PROVE  Landed(h)' = {} /\ \A g \in Handlers \ {h} : Landed(g)' = Landed(g)
<1>1. landed'[h] = Nowhere /\ \A g \in Handlers \ {h} : landed'[g] = landed[g]
  BY DEF ImportInv, ImportTypeOK
<1>2. DOMAIN landed'[h] = {}
  BY <1>1 DEF Nowhere
<1>3. QED
  BY <1>1, <1>2 DEF Landed

(***************************************************************************)
(* A file an import wrote that never got a row is one an import under way  *)
(* holds: rolled back and swept, or cut short.                             *)
(***************************************************************************)
LEMMA SweptStep ==
  ASSUME ImportInv, FileInv, FailedImportLeavesNothing, [ImportNext]_importVars
  PROVE  FailedImportLeavesNothing'
<1> USE DEF FailedImportLeavesNothing
<1>1. TypeOK
  BY DEF ImportInv, ImportTypeOK
<1>2. ASSUME \A h \in Handlers : Landed(h)' = Landed(h), listed \subseteq listed',
             (files' \ files) \cap imported = {}, UNCHANGED <<imported, cut>>
      PROVE  FailedImportLeavesNothing'
  BY <1>2
<1>3. CASE Others
  <2>1. listed \subseteq listed'
    BY <1>1, <1>3, FileMoves DEF Others, Next, Mirror
  <2>2. QED
    BY <1>2, <1>3, <2>1 DEF Others, Landed
<1>4. CASE UNCHANGED importVars
  BY <1>2, <1>4 DEF importVars, vars, Landed
<1>5. ASSUME NEW h \in Handlers,
             ImportStart(h) \/ ImportBegin(h) \/ ImportLock(h) \/ ImportFail(h)
      PROVE  FailedImportLeavesNothing'
  BY <1>2, <1>5
     DEF ImportStart, ImportBegin, ImportLock, ImportFail, importOwn, store, Landed
<1>6. ASSUME NEW h \in Handlers, ImportFile(h) PROVE FailedImportLeavesNothing'
  <2>1. PICK m : /\ files' = files \cup {m} /\ imported' = imported \cup {m}
                 /\ Landed(h)' = Landed(h) \cup {m}
                 /\ \A g \in Handlers \ {h} : Landed(g)' = Landed(g)
    BY <1>6, LandedFile
  <2>2. UNCHANGED <<listed, cut>>
    BY <1>6 DEF ImportFile
  <2>3. QED
    BY <2>1, <2>2
<1>7. ASSUME NEW h \in Handlers, ImportUndo(h) \/ ImportCommit(h) \/ ImportCut(h)
      PROVE  FailedImportLeavesNothing'
  <2>1. Landed(h)' = {} /\ \A g \in Handlers \ {h} : Landed(g)' = Landed(g)
    BY <1>7, LandedEnds DEF ImportUndo, ImportCommit, ImportCut
  <2>2. CASE ImportUndo(h)
    BY <2>1, <2>2 DEF ImportUndo
  <2>3. CASE ImportCommit(h)
    BY <2>1, <2>3 DEF ImportCommit
  <2>4. CASE ImportCut(h)
    BY <2>1, <2>4 DEF ImportCut, Fail, store
  <2>5. QED
    BY <1>7, <2>2, <2>3, <2>4
<1>8. QED
  BY <1>3, <1>4, <1>5, <1>6, <1>7 DEF ImportNext, ImportStep

LEMMA ImportFilesKept ==
  ASSUME ImportInv, ImportFileInv, NEW h \in Handlers, ImportStep(h), ~ImportCommit(h)
  PROVE  ImportFileInv'
<1> USE DEF ImportFileInv
<1>1. TypeOK /\ UNCHANGED <<rows, listed>>
  BY ImportQuiet DEF ImportInv, ImportTypeOK
<1>2. PICK label, l : \/ Goto(h, label, l) /\ label \in {"idle"} \cup Importing
                      \/ UNCHANGED <<pc, local>>
  BY ImportFrame DEF ImportGoes
<1>3. \A g \in Handlers :
         \/ pc'[g] = pc[g] /\ local'[g] = local[g]
         \/ pc'[g] \in {"idle"} \cup Importing
  BY <1>1, <1>2, GotoFrame
<1>4. ASSUME rows \subseteq files',
             \A g \in Handlers : pc[g] = "uploadRow" => local[g].file \subseteq files'
      PROVE  FileInv'
  <2>1. UploadsPrivate'
    BY <1>1, <1>3, <1>4 DEF FileInv, UploadsPrivate, Importing
  <2>2. DeletionsListed'
    BY <1>1, <1>3 DEF FileInv, DeletionsListed, Importing
  <2>3. QED
    BY <1>1, <1>4, <2>1, <2>2 DEF FileInv, RowsHaveFiles
<1>5. \A g \in Handlers : pc'[g] = "uploadRow" => pc[g] = "uploadRow" /\ local'[g] = local[g]
  BY <1>3 DEF Importing
<1>6. CASE UNCHANGED <<files, landed, imported>>
  BY <1>1, <1>4, <1>5, <1>6
     DEF LandedApart, Landed, FileInv, RowsHaveFiles, UploadsPrivate
<1>7. CASE ImportFile(h)
  <2>1. PICK m \in Media \ (listed \cup files \cup imported) :
          /\ files' = files \cup {m} /\ imported' = imported \cup {m}
          /\ Landed(h)' = Landed(h) \cup {m}
          /\ \A g \in Handlers \ {h} : Landed(g)' = Landed(g)
    BY <1>7, LandedFile
  <2>2. FileInv'
    BY <1>4, <2>1 DEF FileInv, RowsHaveFiles, UploadsPrivate
  <2>3. \A g \in Handlers : pc[g] = "uploadRow" => m \notin local[g].file
    BY <2>1 DEF FileInv, UploadsPrivate
  <2>4. LandedApart'
    BY <1>1, <1>5, <2>1, <2>3 DEF LandedApart
  <2>5. QED
    BY <2>2, <2>4
<1>8. CASE ImportUndo(h)
  <2>1. Landed(h)' = {} /\ \A g \in Handlers \ {h} : Landed(g)' = Landed(g)
    BY <1>8, LandedEnds DEF ImportUndo
  <2>2. files' = files \ Landed(h) /\ UNCHANGED imported
    BY <1>8 DEF ImportUndo
  <2>3. rows \subseteq files'
    BY <1>1, <2>2 DEF FileInv, RowsHaveFiles, LandedApart, TypeOK
  <2>4. \A g \in Handlers : pc[g] = "uploadRow" => local[g].file \subseteq files'
    BY <2>2 DEF FileInv, UploadsPrivate, LandedApart
  <2>5. LandedApart'
    BY <1>1, <1>5, <2>1, <2>2 DEF LandedApart
  <2>6. QED
    BY <1>4, <2>3, <2>4, <2>5
<1>9. CASE ImportCut(h)
  <2>1. Landed(h)' = {} /\ \A g \in Handlers \ {h} : Landed(g)' = Landed(g)
    BY <1>9, LandedEnds DEF ImportCut
  <2>2. UNCHANGED <<files, imported>>
    BY <1>9 DEF ImportCut, Fail, store
  <2>3. LandedApart'
    BY <1>1, <1>5, <2>1, <2>2 DEF LandedApart
  <2>4. QED
    BY <1>4, <2>2, <2>3 DEF FileInv, RowsHaveFiles, UploadsPrivate
<1>10. QED
  BY <1>6, <1>7, <1>8, <1>9
     DEF ImportStep, ImportStart, ImportBegin, ImportLock, ImportFail, importOwn, store

LEMMA ImportFilesCommit ==
  ASSUME ImportInv, ImportFileInv, NEW h \in Handlers, ImportCommit(h)
  PROVE  ImportFileInv'
<1> USE DEF ImportFileInv
<1>1. TypeOK
  BY DEF ImportInv, ImportTypeOK
<1>2. Landed(h)' = {} /\ \A g \in Handlers \ {h} : Landed(g)' = Landed(g)
  BY LandedEnds DEF ImportCommit
<1>3. /\ rows' = rows \cup Landed(h) /\ listed' = listed \cup Landed(h)
      /\ UNCHANGED <<files, imported>>
  BY DEF ImportCommit
<1>4. /\ pc'[h] = "idle"
      /\ \A g \in Handlers \ {h} : pc'[g] = pc[g] /\ local'[g] = local[g]
  BY <1>1, GotoFrame DEF ImportCommit, Return
<1>5. Landed(h) \subseteq files /\ Landed(h) \subseteq imported /\ Landed(h) \cap listed = {}
  BY DEF LandedApart
<1>6. RowsHaveFiles'
  BY <1>3, <1>5 DEF FileInv, RowsHaveFiles
<1>7. UploadsPrivate'
  BY <1>3, <1>4, <1>5 DEF FileInv, UploadsPrivate, LandedApart
<1>8. DeletionsListed'
  BY <1>3, <1>4, <1>5 DEF FileInv, DeletionsListed
<1>9. LandedApart'
  BY <1>2, <1>3, <1>4 DEF LandedApart
<1>10. QED
  BY <1>6, <1>7, <1>8, <1>9 DEF FileInv

LEMMA ImportFilesOthers ==
  ASSUME ImportInv, ImportFileInv, Others
  PROVE  ImportFileInv'
<1> USE DEF ImportFileInv
<1>1. TypeOK /\ UNCHANGED <<landed, imported>> /\ (files' \ files) \cap imported = {}
  BY DEF Others, ImportInv, ImportTypeOK
<1>2. \A g \in Handlers : Landed(g)' = Landed(g)
  BY <1>1 DEF Landed
<1>3. CASE Mirror
  BY <1>2, <1>3, <1>1
     DEF Mirror, FileInv, RowsHaveFiles, UploadsPrivate, DeletionsListed, LandedApart
<1>4. ASSUME NEW h \in Handlers, Step(h) PROVE ImportFileInv'
  <2>1. FileInv'
    BY <1>1, <1>4, FilesStep
  <2>2. /\ files \ files' \subseteq listed
        /\ \A m \in listed' \ listed : pc[h] = "uploadRow" /\ m \in local[h].file
        /\ pc'[h] = "uploadRow" => local'[h].file \subseteq files' \ files
        /\ \A g \in Handlers \ {h} : pc'[g] = pc[g] /\ local'[g] = local[g]
    BY <1>1, <1>4, FileMoves, StepOffers
  <2>3. LandedApart'
    BY <1>1, <1>2, <2>2 DEF LandedApart
  <2>4. QED
    BY <2>1, <2>3
<1>5. QED
  BY <1>3, <1>4 DEF Others, Next

LEMMA ImportFilesNext ==
  ASSUME ImportInv, ImportFileInv, [ImportNext]_importVars
  PROVE  ImportFileInv'
<1>1. CASE UNCHANGED importVars
  BY <1>1
     DEF importVars, vars, ImportFileInv, FileInv, RowsHaveFiles, UploadsPrivate,
         DeletionsListed, LandedApart, Landed
<1>2. QED
  BY <1>1, ImportFilesKept, ImportFilesCommit, ImportFilesOthers DEF ImportNext

LEMMA ImportFilesInit == ImportInit => ImportFileInv
  BY DEF ImportInit, Init, ImportFileInv, FileInv, RowsHaveFiles, UploadsPrivate,
         DeletionsListed, LandedApart, Landed, Nowhere

(***************************************************************************)
(* A file in the table is on disk, whatever imports and uploads overlap    *)
(* and wherever one of them fails.                                         *)
(***************************************************************************)
THEOREM ImportedRowsHaveFiles == ImportSpec => []RowsHaveFiles
<1>1. ImportFileInv => RowsHaveFiles
  BY DEF ImportFileInv, FileInv
<1>2. QED
  BY <1>1, ImportFilesInit, ImportFilesNext, ImportTypeCorrect, PTL DEF ImportSpec

(***************************************************************************)
(* A failed import leaves no file behind, unless it was cut short.         *)
(***************************************************************************)
THEOREM FailedImportsSwept == ImportSpec => []FailedImportLeavesNothing
<1>1. ImportInit => FailedImportLeavesNothing
  BY DEF ImportInit, FailedImportLeavesNothing
<1>2. ImportInv /\ ImportFileInv /\ FailedImportLeavesNothing /\ [ImportNext]_importVars
        => FailedImportLeavesNothing'
  BY SweptStep DEF ImportFileInv
<1>3. QED
  BY <1>1, <1>2, ImportFilesInit, ImportFilesNext, ImportTypeCorrect, PTL DEF ImportSpec

-----------------------------------------------------------------------------
(***************************************************************************)
(* Where an import lands.  Each node it makes hangs below the target: the  *)
(* first that did not would hang below a folder made before it, which does.*)
(***************************************************************************)
LEMMA LeastNat ==
  ASSUME NEW S \in SUBSET Nat, S # {}
  PROVE  \E t \in S : \A u \in S : t <= u
<1> DEFINE R == {x \in Nat \X Nat : x[1] < x[2]}
<1>1. IsWellFoundedOn(R, Nat)
  BY NatLessThanWellFounded DEF OpToRel
<1>2. PICK t \in S : \A u \in S : ~(<<u, t>> \in R)
  BY <1>1, WFMin
<1>3. ASSUME NEW u \in S PROVE t <= u
  <2>1. <<u, t>> \in Nat \X Nat /\ <<u, t>>[1] = u /\ <<u, t>>[2] = t
    OBVIOUS
  <2>2. ~(u < t)
    BY <1>2, <2>1
  <2>3. QED
    BY <2>2
<1>4. QED
  BY <1>3

LEMMA GraftBelow ==
  ASSUME NEW p, TreeGrafted(p), NEW n \in DOMAIN nodes' \ DOMAIN nodes
  PROVE  n \in Below(nodes', p)
<1> DEFINE Astray == {k \in DOMAIN nodes' \ DOMAIN nodes : k \notin Below(nodes', p)}
<1>1. p \in Below(nodes', p) /\ Closed(nodes', Below(nodes', p))
  BY BelowLeast DEF TreeGrafted
<1>2. SUFFICES ASSUME Astray # {} PROVE FALSE
  OBVIOUS
<1>3. Astray \in SUBSET Nat
  BY DEF TreeGrafted
<1>4. PICK k \in Astray : \A u \in Astray : k <= u
  BY <1>2, <1>3, LeastNat
<1>5. nodes'[k].parent \in Below(nodes', p)
  <2>1. CASE nodes'[k].parent = p
    BY <1>1, <2>1
  <2>2. CASE /\ nodes'[k].parent \in DOMAIN nodes' \ DOMAIN nodes
             /\ nodes'[k].parent < k
    <3>1. nodes'[k].parent \in Nat /\ k \in Nat
      BY <2>2 DEF TreeGrafted
    <3>2. nodes'[k].parent \notin Astray
      BY <1>4, <2>2, <3>1
    <3>3. QED
      BY <2>2, <3>2
  <2>3. QED
    BY <2>1, <2>2 DEF TreeGrafted
<1>6. QED
  BY <1>1, <1>5 DEF Closed

(***************************************************************************)
(* A file nobody links to still belongs to the folder it was uploaded in:  *)
(* what an import lists is attached to a node below, or to, its target.    *)
(***************************************************************************)
LEMMA CommitOwns ==
  ASSUME ImportInv, NEW h \in Handlers, ImportCommit(h), NEW p, local[h].parent = p,
         NEW m \in rows' \ rows
  PROVE  \E n \in Descendants(p)' : <<n, m>> \in links'
<1>1. TreeGrafted(p)
  BY CommitGrafts
<1>2. PICK f \in Files : m = landed[h][f]
  BY DEF ImportCommit, Landed
<1>3. p \in Below(nodes', p)
  BY <1>1, BelowLeast DEF TreeGrafted
<1>4. ASSUME NEW i \in Made PROVE NewId(i) \in Below(nodes', p)
  <2>1. NewId(i) \in DOMAIN nodes' \ DOMAIN nodes
    BY CommitNodes
  <2>2. QED
    BY <1>1, <2>1, GraftBelow
<1>5. \E n \in Below(nodes', p) : <<n, m>> \in NewLinks(h)
  <2>1. CASE Owners(f) = {}
    <3>1. <<Parent(h, f), m>> \in NewLinks(h)
      BY <1>2, <2>1 DEF NewLinks
    <3>2. Parent(h, f) \in Below(nodes', p)
      <4>1. Plan[f].in # 0 => Plan[f].in \in Made
        BY PlanShape DEF Files
      <4>2. QED
        BY <1>3, <1>4, <4>1 DEF Parent
    <3>3. QED
      BY <3>1, <3>2
  <2>2. CASE Owners(f) # {}
    <3>1. PICK i \in Made : i \in Owners(f)
      BY <2>2 DEF Owners
    <3>2. <<NewId(i), m>> \in NewLinks(h)
      BY <1>2, <3>1 DEF NewLinks
    <3>3. QED
      BY <1>4, <3>1, <3>2
  <2>3. QED
    BY <2>1, <2>2
<1>6. NewLinks(h) \subseteq links'
  BY DEF ImportCommit
<1>7. Descendants(p)' = Below(nodes', p)
  BY BelowNodes
<1>8. QED
  BY <1>5, <1>6, <1>7

(***************************************************************************)
(* Every file an import brings belongs to a node below its target.         *)
(***************************************************************************)
THEOREM ImportsAreOwned == ImportSpec => ImportedFilesOwned
<1>1. ImportInv /\ [ImportNext]_importVars =>
        [\A h \in Handlers, p \in DOMAIN nodes :
           ImportCommit(h) /\ local[h].parent = p =>
             \A m \in rows' \ rows : \E n \in Descendants(p)' : <<n, m>> \in links']_importVars
  BY CommitOwns
<1>2. QED
  BY <1>1, ImportTypeCorrect, PTL DEF ImportSpec, ImportedFilesOwned

-----------------------------------------------------------------------------
(* The tree, with imports beside its handlers *)

LEMMA GraftLeaves ==
  ASSUME TypeOK, DocumentsAreLeaves, NEW p, TreeGrafted(p), nodes[p].kind # "document"
  PROVE  DocumentsAreLeaves'
<1>1. ASSUME NEW n \in DOMAIN nodes', nodes'[n].parent # Null
      PROVE  /\ nodes'[n].parent \in DOMAIN nodes'
             /\ nodes'[nodes'[n].parent].kind # "document"
  <2>1. CASE n \in DOMAIN nodes
    <3>1. nodes'[n] = nodes[n] /\ DOMAIN nodes \subseteq DOMAIN nodes'
      BY <2>1 DEF TreeGrafted
    <3>2. nodes[n].parent \in DOMAIN nodes /\ nodes[nodes[n].parent].kind # "document"
      BY <1>1, <2>1, <3>1 DEF DocumentsAreLeaves
    <3>3. QED
      BY <3>1, <3>2 DEF TreeGrafted
  <2>2. CASE n \notin DOMAIN nodes
    <3>1. CASE nodes'[n].parent = p
      BY <3>1 DEF TreeGrafted
    <3>2. CASE nodes'[n].parent \in DOMAIN nodes' /\ nodes'[nodes'[n].parent].kind = "folder"
      BY <3>2
    <3>3. QED
      BY <2>2, <3>1, <3>2 DEF TreeGrafted
  <2>3. QED
    BY <2>1, <2>2
<1>2. QED
  BY <1>1 DEF DocumentsAreLeaves

LEMMA ImportLeaf ==
  ASSUME ImportInv, LeafInv, [ImportNext]_importVars
  PROVE  LeafInv'
<1>1. TypeOK /\ TypeOK' /\ SameNodes
  BY ImportNextType, ImportSameNodes DEF ImportInv, ImportTypeOK
<1>2. CASE Others \/ UNCHANGED importVars
  BY <1>1, <1>2, NextLeaf DEF Others, importVars
<1>3. ASSUME NEW h \in Handlers, ImportStep(h) PROVE LeafInv'
  <2>1. TargetsFit'
    <3>1. ASSUME NEW label, NEW l, ImportGoes(h, label, l) PROVE TargetsFit'
      BY <1>1, <3>1, TargetsStep DEF ImportGoes, Importing, Placing, LeafInv
    <3>2. CASE UNCHANGED <<pc, local>>
      BY <1>1, <3>2, FitKept DEF TargetsFit, LeafInv, LooksFit
    <3>3. QED
      BY <1>3, <3>1, <3>2, ImportFrame
  <2>2. DocumentsAreLeaves'
    <3>1. CASE ImportCommit(h)
      <4>1. TreeGrafted(local[h].parent)
        BY <3>1, CommitGrafts
      <4>2. nodes[local[h].parent].kind # "document"
        BY <3>1, <4>1 DEF ImportInv, ImportsFit, LooksFit, ImportCommit, TreeGrafted
      <4>3. QED
        BY <1>1, <4>1, <4>2, GraftLeaves DEF LeafInv
    <3>2. CASE ~ImportCommit(h)
      BY <1>3, <3>2, ImportQuiet DEF LeafInv, DocumentsAreLeaves
    <3>3. QED
      BY <3>1, <3>2
  <2>3. QED
    BY <2>1, <2>2 DEF LeafInv
<1>4. QED
  BY <1>2, <1>3 DEF ImportNext

LEMMA ImportAsked ==
  ASSUME ImportInv, AskedFor, [ImportNext]_importVars
  PROVE  AskedFor'
<1>1. TypeOK
  BY DEF ImportInv, ImportTypeOK
<1>2. CASE Others \/ UNCHANGED importVars
  BY <1>1, <1>2, AskedNext DEF Others, importVars
<1>3. ASSUME NEW h \in Handlers, NEW label, NEW l, ImportGoes(h, label, l) PROVE AskedFor'
  BY <1>1, <1>3, AskedGoto
     DEF ImportGoes, Importing, Justified, Saving, Removing, Moving, Uploading
<1>4. CASE UNCHANGED <<pc, local>>
  BY <1>4 DEF AskedFor, Justified, Saves
<1>5. QED
  BY <1>2, <1>3, <1>4, ImportFrame DEF ImportNext

LEMMA GraftRooted ==
  ASSUME NEW p, TreeGrafted(p), Rooted
  PROVE  Rooted'
<1>1. RootedIn(nodes)
  BY RootedNodes
<1>2. \A r : Below(nodes, r) \subseteq Below(nodes', r)
  BY BelowGrows DEF TreeGrafted
<1>3. PICK r \in DOMAIN nodes : nodes[r].parent = Null /\ p \in Below(nodes, r)
  BY <1>1 DEF TreeGrafted, RootedIn
<1>4. ASSUME NEW n \in DOMAIN nodes'
      PROVE  \E q \in DOMAIN nodes' : nodes'[q].parent = Null /\ n \in Below(nodes', q)
  <2>1. CASE n \in DOMAIN nodes
    <3>1. PICK q \in DOMAIN nodes : nodes[q].parent = Null /\ n \in Below(nodes, q)
      BY <1>1, <2>1 DEF RootedIn
    <3>2. QED
      BY <1>2, <3>1 DEF TreeGrafted
  <2>2. CASE n \notin DOMAIN nodes
    <3>1. n \in Below(nodes', p) /\ p \in Below(nodes', r)
      BY <1>2, <1>3, <2>2, GraftBelow
    <3>2. n \in Below(nodes', r)
      BY <3>1, BelowTrans
    <3>3. QED
      BY <1>3, <3>2 DEF TreeGrafted
  <2>3. QED
    BY <2>1, <2>2
<1>5. QED
  BY <1>4, RootedNodes DEF RootedIn

\* What is grafted goes below no node that was there, unless below the target.
LEMMA GraftOutOf ==
  ASSUME TypeOK, LeafInv, NEW p, TreeGrafted(p), NEW l, OutOf(nodes, l),
         l.id \in 1..(nextId - 1), l.parent \in 1..(nextId - 1)
  PROVE  OutOf(nodes', l)
<1> DEFINE New == DOMAIN nodes' \ DOMAIN nodes
<1>1. nextId \in Nat /\ \A n \in New : n \in Nat /\ n >= nextId
  BY BoundsAssumption DEF TypeOK, TreeGrafted, BoundsAssumption
<1>2. CASE l.id \in DOMAIN nodes
  <2>1. \A n \in DOMAIN nodes : nodes'[n].parent = nodes[n].parent /\ nodes[n].parent \notin New
    BY <1>1 DEF TreeGrafted, LeafInv, DocumentsAreLeaves, Null, TypeOK
  <2>2. Closed(nodes', Below(nodes, l.id) \cup New)
    BY <1>2, <2>1, BelowLeast DEF Closed
  <2>3. Below(nodes, l.id) \cup New \in SUBSET DOMAIN nodes'
    BY DEF Below, TreeGrafted
  <2>4. l.id \in Below(nodes, l.id) \cup New /\ l.id \in DOMAIN nodes'
    BY <1>2, BelowLeast DEF TreeGrafted
  <2>5. Below(nodes', l.id) \subseteq Below(nodes, l.id) \cup New
    BY <2>2, <2>3, <2>4, BelowLeast
  <2>6. l.parent \notin New
    BY <1>1
  <2>7. QED
    BY <2>5, <2>6 DEF OutOf
<1>3. CASE l.id \notin DOMAIN nodes
  <2>1. l.id \notin DOMAIN nodes'
    BY <1>1, <1>3
  <2>2. QED
    BY <2>1 DEF OutOf, Below
<1>4. QED
  BY <1>2, <1>3

LEMMA ImportClear ==
  ASSUME ImportInv, ImportInv', LeafInv, RootInv, NEW h \in Handlers, ImportStep(h)
  PROVE  MovesClear'
<1>1. TypeOK /\ TypeOK' /\ nextId \in Nat /\ nextId' \in Nat
  BY BoundsAssumption DEF ImportInv, ImportTypeOK, TypeOK, BoundsAssumption
<1>2. SameNodes
  BY ImportSameNodes DEF ImportNext
<1>3. ASSUME NEW g \in Handlers, pc'[g] \in Moving
      PROVE  pc[g] = pc'[g] /\ local[g] = local'[g]
  <2>1. ASSUME NEW label, NEW l, ImportGoes(h, label, l)
        PROVE  pc[g] = pc'[g] /\ local[g] = local'[g]
    BY <1>1, <1>3, <2>1, GotoFrame DEF ImportGoes, Importing, Moving
  <2>2. QED
    BY <2>1, ImportFrame
<1>4. ASSUME NEW l, OutOf(nodes, l), l.id \in 1..(nextId - 1), l.parent \in 1..(nextId - 1)
      PROVE  OutOf(nodes', l)
  <2>1. CASE ImportCommit(h)
    BY <1>1, <1>4, <2>1, CommitGrafts, GraftOutOf
  <2>2. CASE ~ImportCommit(h)
    BY <1>4, <2>2, ImportQuiet
  <2>3. QED
    BY <2>1, <2>2
<1>5. ASSUME NEW g \in Handlers, pc'[g] \in Moving
      PROVE  /\ local'[g].id \in 1..(nextId' - 1)
             /\ pc'[g] # "moveCheck" => OutOf(nodes', local'[g])
  <2>1. pc[g] = pc'[g] /\ local[g] = local'[g]
    BY <1>3, <1>5
  <2>2. local[g].id \in 1..(nextId - 1) /\ local[g].parent \in 1..(nextId - 1)
    BY <1>5, <2>1 DEF RootInv, MovesClear, LeafInv, TargetsFit, Placing, LooksFit, Moving
  <2>3. pc'[g] # "moveCheck" => OutOf(nodes, local[g])
    BY <1>5, <2>1 DEF RootInv, MovesClear
  <2>4. nextId' >= nextId
    BY <1>2 DEF SameNodes
  <2>5. QED
    BY <1>1, <1>4, <2>1, <2>2, <2>3, <2>4
<1>6. QED
  BY <1>5 DEF MovesClear

LEMMA ImportRoot ==
  ASSUME ImportInv, ImportInv', AskedFor, OneMover, LeafInv, RootInv, [ImportNext]_importVars
  PROVE  RootInv'
<1>1. TypeOK /\ TypeOK'
  BY DEF ImportInv, ImportTypeOK
<1>2. CASE Others \/ UNCHANGED importVars
  BY <1>1, <1>2, RootNext DEF Others, importVars
<1>3. ASSUME NEW h \in Handlers, ImportStep(h) PROVE RootInv'
  <2>1. Rooted'
    <3>1. CASE ImportCommit(h)
      BY <3>1, CommitGrafts, GraftRooted DEF RootInv
    <3>2. CASE ~ImportCommit(h)
      <4>1. nodes' = nodes
        BY <1>3, <3>2, ImportQuiet
      <4>2. QED
        BY <4>1, RootedNodes DEF RootInv
    <3>3. QED
      BY <3>1, <3>2
  <2>2. QED
    BY <1>3, <2>1, ImportClear DEF RootInv
<1>4. QED
  BY <1>2, <1>3 DEF ImportNext

(***************************************************************************)
(* What an import makes hangs below a root, and cuts nothing loose, while  *)
(* one handler at a time moves.                                            *)
(***************************************************************************)
THEOREM ImportsCutNothingLoose ==
  ASSUME OneMover, SeedRooted
  PROVE  ImportSpec => []Rooted
<1>1. ImportInit => AskedFor /\ LeafInv /\ RootInv
  BY AskedInit, InitLeaf, RootInit DEF ImportInit
<1>2. ImportInv /\ AskedFor /\ [ImportNext]_importVars => AskedFor'
  BY ImportAsked
<1>3. ImportInv /\ LeafInv /\ [ImportNext]_importVars => LeafInv'
  BY ImportLeaf
<1>4. ImportInv /\ ImportInv' /\ AskedFor /\ LeafInv /\ RootInv /\ [ImportNext]_importVars
        => RootInv'
  BY ImportRoot
<1>5. RootInv => Rooted
  BY DEF RootInv
<1>6. QED
  BY <1>1, <1>2, <1>3, <1>4, <1>5, ImportTypeCorrect, PTL DEF ImportSpec

LEMMA ImportCreates ==
  ASSUME ImportInv, CreatesFit, [ImportNext]_importVars
  PROVE  CreatesFit'
<1>1. TypeOK
  BY DEF ImportInv, ImportTypeOK
<1>2. CASE Others \/ UNCHANGED importVars
  BY <1>1, <1>2, CreatesNext DEF Others, importVars
<1>3. ASSUME NEW h \in Handlers, NEW label, NEW l, ImportGoes(h, label, l) PROVE CreatesFit'
  BY <1>1, <1>3, CreatesGoto DEF ImportGoes, Importing
<1>4. CASE UNCHANGED <<pc, local>>
  BY <1>4 DEF CreatesFit
<1>5. QED
  BY <1>2, <1>3, <1>4, ImportFrame DEF ImportNext

\* All the nodes of an import are one graft, at its target.
LEMMA CommitIsWhole ==
  ASSUME ImportInv, ImportInv', NEW h \in Handlers, ImportCommit(h)
  PROVE  Contract!Next
<1> DEFINE p == local[h].parent
<1>1. TypeOK /\ TypeOK' /\ nextId' >= nextId
  BY ImportSameNodes DEF ImportInv, ImportTypeOK, ImportNext, ImportStep, SameNodes
<1>2. TreeGrafted(p)
  BY CommitGrafts
<1>3. nodes[p].kind # "document"
  BY <1>2 DEF ImportInv, ImportsFit, LooksFit, ImportCommit, TreeGrafted
<1>4. DOMAIN nodes' # DOMAIN nodes
  BY CommitNodes, PlanAssumption DEF PlanAssumption
<1>5. ASSUME NEW n \in DOMAIN nodes' \ DOMAIN nodes PROVE nodes'[n].kind # "space"
  <2>1. PICK i \in Made : n = NewId(i)
    BY CommitNodes
  <2>2. PICK slug \in SlugsOf(h) : nodes'[NewId(i)] = NewRow(h, i, slug)
    BY CommitNodes
  <2>3. nodes'[n].kind = Plan[i].kind
    BY <2>1, <2>2, RowFields
  <2>4. QED
    BY <2>3, PlanShape DEF Made
<1>6. GrowsBelow(p)
  <2>1. \A n \in DOMAIN nodes' \ DOMAIN nodes : n \in Below(nodes', p)
    BY <1>2, GraftBelow
  <2>2. QED
    BY <1>2, <1>3, <1>4, <1>5, <2>1 DEF GrowsBelow, TreeGrafted
<1>7. QED
  BY <1>1, <1>6, GraftIsWhole

LEMMA ImportIsWhole ==
  ASSUME ImportInv, ImportInv', LeafInv, RootInv, CreatesFit, [ImportNext]_importVars
  PROVE  [Contract!Next]_Contract!contract
<1>1. TypeOK /\ TypeOK'
  BY DEF ImportInv, ImportTypeOK
<1>2. CASE UNCHANGED <<nodes, nextId>>
  BY <1>1, <1>2, StutterIsWhole
<1>3. CASE Others
  BY <1>1, <1>2, <1>3, StepIsWhole DEF Others, Next, Mirror
<1>4. ASSUME NEW h \in Handlers, ImportStep(h) PROVE [Contract!Next]_Contract!contract
  BY <1>2, <1>4, ImportQuiet, CommitIsWhole
<1>5. QED
  BY <1>2, <1>3, <1>4 DEF ImportNext, importVars, vars

(***************************************************************************)
(* With imports among them, the handlers implement TreeContract: all the   *)
(* nodes of an import appear in one step, or none.                         *)
(***************************************************************************)
THEOREM ImportsActWhole ==
  ASSUME OneMover, SeedRooted
  PROVE  ImportSpec => WholeOperations
<1>1. ImportInit => /\ AskedFor /\ LeafInv /\ RootInv /\ CreatesFit /\ Contract!Init
  BY AskedInit, InitLeaf, RootInit, CreatesInit, SeedIsTree DEF ImportInit
<1>2. ImportInv /\ AskedFor /\ [ImportNext]_importVars => AskedFor'
  BY ImportAsked
<1>3. ImportInv /\ LeafInv /\ [ImportNext]_importVars => LeafInv'
  BY ImportLeaf
<1>4. ImportInv /\ ImportInv' /\ AskedFor /\ LeafInv /\ RootInv /\ [ImportNext]_importVars
        => RootInv'
  BY ImportRoot
<1>5. ImportInv /\ CreatesFit /\ [ImportNext]_importVars => CreatesFit'
  BY ImportCreates
<1>6. ImportInv /\ ImportInv' /\ LeafInv /\ RootInv /\ CreatesFit /\ [ImportNext]_importVars
        => [Contract!Next]_Contract!contract
  BY ImportIsWhole
<1>7. QED
  BY <1>1, <1>2, <1>3, <1>4, <1>5, <1>6, ImportTypeCorrect, PTL
     DEF ImportSpec, WholeOperations, Contract!Spec

=============================================================================
