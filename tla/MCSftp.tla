------------------------------- MODULE MCSftp -------------------------------
(* Instances of SftpFiles for TLC: one session beside one web request.      *)
EXTENDS SftpFiles, TLC

CONSTANTS h1, h2, a, m1

BothBases == {"slug", "raw"}
ToSlug == [n \in Names |-> "slug"]
AsTyped == [n \in Names |-> "raw"]

MCNode(p, k, s, embeds) ==
  [parent |-> p, kind |-> k, name |-> a, slug |-> s, body |-> embeds]

\* A space with a document that embeds a file.
OneDocument ==
  1 :> MCNode(0, "space", <<"slug", 1>>, {})
  @@ 2 :> MCNode(1, "document", <<"slug", 1>>, {m1})

Stored == {m1}
Embedded == {<<2, m1>>}

\* All that a session may ask, and on the web what it may have to bear.
SessionAndWeb ==
  [h \in Handlers |-> IF h = h1 THEN {"edit", "erase", "mkdir", "rename"}
                                ELSE {"create", "space", "remove", "move"}]

RenameOnly == [h \in Handlers |-> {"rename"}]

=============================================================================
