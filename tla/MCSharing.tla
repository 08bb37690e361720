------------------------------ MODULE MCSharing ------------------------------
(* An instance of Sharing for TLC: one author of documents, published and  *)
(* withdrawn from two browser windows.                                     *)
EXTENDS Sharing, TLC

CONSTANTS h1, h2, a, b, m1

OneBase == [n \in Names |-> "base"]
SoleBase == {"base"}

MCNode(p, k, i, embeds) ==
  [parent |-> p, kind |-> k, name |-> a, slug |-> <<"base", i>>, body |-> embeds]

\* A space with one document that embeds the file.
OneDocument ==
  1 :> MCNode(0, "space", 1, {}) @@ 2 :> MCNode(1, "document", 1, {m1})

Stored == {m1}
Embedded == {<<2, m1>>}

AuthorAndPublisher ==
  [h \in Handlers |-> {"share", "unshare"} \cup
                      IF h = h1 THEN {"create", "update", "remove"}
                                ELSE {"unlink"}]
=============================================================================
