------------------------------- MODULE Sharing -------------------------------
(***************************************************************************)
(* Share links: src/src/routes/share.rs over the columns share_token and   *)
(* share_key_hash of the table nodes, while the handlers of NodeTree save, *)
(* move and delete what is shared.  A link is a token, which names the     *)
(* document, and a key, of which only a hash is stored.  A reader needs no *)
(* session: what read and serve_media answer is decided by one SELECT, so  *)
(* they are the predicates Opens and Serves.                               *)
(***************************************************************************)
EXTENDS NodeTree

CONSTANT MaxSecrets    \* bound: how many tokens and keys are drawn

ASSUME SecretsAssumption == MaxSecrets \in Nat

VARIABLES
  share,     \* the shared nodes, each with its [token, key]
  secrets,   \* how many secrets were drawn: random_secret never repeats one
  token,     \* what enable read or drew, in each handler's locals
  given      \* the links handed out, which readers keep for ever

shareVars == <<vars, share, secrets, token, given>>

Secrets == 0..MaxSecrets

ShareLink == [token : Secrets, key : Secrets]

\* routes/share.rs:121 and :152: the stored pair is the pair presented.
Opens(x) == \E n \in DOMAIN share : share[n] = x

\* serve_media: a file attached to the document the link opens.
Serves(x, m) == \E n \in DOMAIN share : share[n] = x /\ <<n, m>> \in links /\ m \in rows

ShareInit ==
  /\ Init
  /\ share = [n \in {} |-> 0]
  /\ secrets = 0
  /\ token = [h \in Handlers |-> 0]
  /\ given = {}

\* enable: the kind and the token as they are; a new token if there is none.
ShareRead(h) ==
  /\ Asked(h, "share")
  /\ \E n \in DOMAIN nodes :
       /\ nodes[n].kind = "document"
       /\ Goto(h, "shareWrite", [Empty EXCEPT !.id = n])
       /\ IF n \in DOMAIN share
          THEN token' = [token EXCEPT ![h] = share[n].token] /\ UNCHANGED secrets
          ELSE /\ secrets < MaxSecrets
               /\ token' = [token EXCEPT ![h] = secrets + 1]
               /\ secrets' = secrets + 1
  /\ UNCHANGED <<store, share, given>>

\* A slip: keeping the key of a document that is still shared.
ShareWriteKeeping(h) ==
  /\ pc[h] = "shareWrite"
  /\ secrets < MaxSecrets
  /\ LET n == local[h].id
         kept == {x \in given : x.token = token[h]}
         link == IF kept = {} THEN [token |-> token[h], key |-> secrets + 1]
                 ELSE CHOOSE x \in kept : TRUE
     IN  /\ share' = IF n \in DOMAIN nodes
                     THEN [s \in DOMAIN share \cup {n} |-> IF s = n THEN link ELSE share[s]]
                     ELSE share
         /\ given' = given \cup {link}
         /\ changed' = (changed \/ n \in DOMAIN nodes)
  /\ secrets' = secrets + 1
  /\ Signal
  /\ Return(h)
  /\ UNCHANGED <<nodes, nextId, links, rows, files, listed, token>>

\* enable: the token that was read, with a new key.  It writes no row, and says
\* so to nobody, if the document is gone by now.
ShareWrite(h) ==
  /\ pc[h] = "shareWrite"
  /\ secrets < MaxSecrets
  /\ LET n == local[h].id
         link == [token |-> token[h], key |-> secrets + 1]
     IN  /\ share' = IF n \in DOMAIN nodes
                     THEN [s \in DOMAIN share \cup {n} |-> IF s = n THEN link ELSE share[s]]
                     ELSE share
         /\ given' = given \cup {link}
         /\ changed' = (changed \/ n \in DOMAIN nodes)
  /\ secrets' = secrets + 1
  /\ Signal
  /\ Return(h)
  /\ UNCHANGED <<nodes, nextId, links, rows, files, listed, token>>

\* disable: both columns at once, of any node.
Unshare(h) ==
  /\ Asked(h, "unshare")
  /\ \E n \in DOMAIN nodes : share' = [s \in DOMAIN share \ {n} |-> share[s]]
  /\ changed' = TRUE
  /\ Signal
  /\ UNCHANGED <<nodes, nextId, links, rows, files, listed, pc, local,
                 secrets, token, given>>

\* A handler of the tree; the columns go with the row they belong to.
Web ==
  /\ Next
  /\ share' = [s \in DOMAIN share \cap DOMAIN nodes' |-> share[s]]
  /\ UNCHANGED <<secrets, token, given>>

ShareNext ==
  \/ Web
  \/ \E h \in Handlers : ShareRead(h) \/ ShareWrite(h) \/ Unshare(h)

ShareSpec == ShareInit /\ [][ShareNext]_shareVars

-----------------------------------------------------------------------------
(* Properties *)

ShareTypeOK ==
  /\ TypeOK
  /\ share \in [DOMAIN share -> ShareLink]
  /\ secrets \in Secrets
  /\ token \in [Handlers -> Secrets]
  /\ given \subseteq ShareLink

(***************************************************************************)
(* Rotating or revoking kills the old link for good (routes/share.rs:50):  *)
(* a link that was handed out and does not open now never opens again,     *)
(* however enable, disable, deletions and a second enable overlap.         *)
(***************************************************************************)
DeadLinksStayDead ==
  [][\A x \in given : Opens(x)' => Opens(x)]_shareVars

(***************************************************************************)
(* "Only a document can be shared": enable looks at the kind one statement *)
(* before it writes, and a document may be deleted and a folder made in    *)
(* between.                                                                *)
(***************************************************************************)
OnlyDocumentsShared ==
  \A n \in DOMAIN share : n \in DOMAIN nodes /\ nodes[n].kind = "document"

(***************************************************************************)
(* "A document is never momentarily attached to nothing, which would blank *)
(* its images for anyone reading its share link" (routes/media.rs:261): a  *)
(* file that a link serves and that stays in the body and in the table is  *)
(* still served after the step, also in the middle of a save, while one    *)
(* handler at a time saves: of two, one writes the links of a body that    *)
(* the other has replaced.                                                 *)
(***************************************************************************)
PicturesStay ==
  [][\A x \in given, m \in Media :
        /\ Serves(x, m) /\ Opens(x)'
        /\ \A n \in DOMAIN share : share[n] = x =>
              m \in nodes[n].body /\ m \in nodes'[n].body /\ m \in rows'
        => Serves(x, m)']_shareVars
=============================================================================
