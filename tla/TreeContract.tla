---------------------------- MODULE TreeContract ----------------------------
(***************************************************************************)
(* What the handlers of the web promise about the tree, whatever they read *)
(* and however late they act on it: each request changes it in one step,   *)
(* as a whole operation on a whole tree.  A create adds a node, an import  *)
(* all of its nodes, a removal takes a node and everything below it, and a *)
(* move takes a subtree to a place outside of it.                          *)
(* src/src/routes/nodes.rs:16-19, src/migrations/0006_nodes.sql:1-29.      *)
(***************************************************************************)
EXTENDS Naturals

VARIABLES
  tree,   \* id -> [parent, kind]
  used    \* the ids handed out so far: share links and drafts name nodes by id

contract == <<tree, used>>

Null == 0

Inside(T) == {p \in DOMAIN T : T[p].kind # "document"}

Closed(T, S) == \A n \in DOMAIN T : T[n].parent \in S => n \in S

\* A node and all below it.
Below(T, id) ==
  {n \in DOMAIN T :
      /\ id \in DOMAIN T
      /\ \A S \in SUBSET DOMAIN T : (id \in S /\ Closed(T, S)) => n \in S}

\* Every node hangs below a root, which is a space, and nothing below a document.
Tree(T) ==
  /\ Null \notin DOMAIN T
  /\ \A n \in DOMAIN T :
       /\ T[n].parent \in {Null} \cup Inside(T)
       /\ T[n].parent = Null => T[n].kind = "space"
       /\ \E r \in DOMAIN T : T[r].parent = Null /\ n \in Below(T, r)

Init == Tree(tree) /\ used = DOMAIN tree

New == DOMAIN tree' \ DOMAIN tree

\* Nodes with ids never used before; the others stay as they are.
Grow ==
  /\ New # {} /\ New \cap ({Null} \cup used) = {} /\ used \cup New \subseteq used'
  /\ DOMAIN tree \subseteq DOMAIN tree'
  /\ \A n \in DOMAIN tree : tree'[n] = tree[n]

AddSpace ==
  /\ Grow
  /\ \E n \in New : New = {n} /\ tree'[n] = [parent |-> Null, kind |-> "space"]

Graft(p) ==
  /\ Grow
  /\ \A n \in New :
       /\ n \in Below(tree', p)
       /\ tree'[n].kind # "space"
       /\ tree'[n].parent \in ({p} \cup New) \cap Inside(tree')

Cut(id) ==
  /\ tree' = [n \in DOMAIN tree \ Below(tree, id) |-> tree[n]]
  /\ UNCHANGED used

Move(id, p) ==
  /\ p \notin Below(tree, id)
  /\ tree' = [tree EXCEPT ![id].parent = p]
  /\ UNCHANGED used

Next ==
  \/ AddSpace
  \/ \E p \in Inside(tree) : Graft(p)
  \/ \E id \in DOMAIN tree : Cut(id) \/ \E p \in Inside(tree) : Move(id, p)

Spec == Init /\ [][Next]_contract

=============================================================================
