------------------------------ MODULE MCImport ------------------------------
(* Instances of Import for TLC: someone who imports and uploads beside       *)
(* someone who moves and removes what the import goes into.                  *)
EXTENDS Import, TLC

CONSTANTS h1, h2, a, m1, m2

OneBase == [n \in Names |-> "base"]
SoleBase == {"base"}

Node(p, k, i) ==
  [parent |-> p, kind |-> k, name |-> a, slug |-> <<"base", i>>, body |-> {}]

OneSpace == 1 :> Node(0, "space", 1)

Nothing == {}

Entry(k, where, embeds) == [kind |-> k, in |-> where, name |-> a, embeds |-> embeds]

\* A directory within one, with a document that embeds a picture of the outer
\* directory, and a file nobody links to.
TwoDirectories ==
  <<Entry("folder", 0, {}), Entry("folder", 1, {}), Entry("document", 2, {4}),
    Entry("file", 1, {}), Entry("file", 2, {})>>

ImporterAndMover ==
  [h \in Handlers |-> IF h = h1 THEN {"import", "upload"}
                                ELSE {"remove", "move", "unlink"}]

\* Upload ids are drawn at random: which one an upload got tells nothing.
Interchangeable == Permutations(Media)

\* No guard and no property of this run reads dirty or changed.
ButTheSignal == <<nodes, nextId, links, rows, files, listed, pc, local, importOwn>>
=============================================================================
