------------------------------ MODULE MCBoards ------------------------------
(* Instances of Boards for TLC. *)
EXTENDS Boards

CONSTANTS h1, h2

\* One handler removes lists, the other patches cards; both move cards.
Division ==
  [h \in {h1, h2} |->
     IF h = h1 THEN {"remove card", "move", "remove list"}
     ELSE {"look", "new list", "new card", "move", "patch"}]
=============================================================================
