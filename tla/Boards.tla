------------------------------- MODULE Boards -------------------------------
(***************************************************************************)
(* The board of a space: src/src/routes/boards.rs over the tables of       *)
(* src/migrations/0007_boards.sql.                                         *)
(*                                                                         *)
(* A handler is a process; one action is one statement and the code up to  *)
(* the next await, except for the transaction of move_card, whose first    *)
(* statement takes SQLite's write lock.                                    *)
(*                                                                         *)
(* Of a card the due date is modelled; title, body, node_id and done_at    *)
(* are patched in the same way.  Names of lists, and with them rename_list,*)
(* and Backup::signal, which changes nothing a board reads, are left out.  *)
(***************************************************************************)
EXTENDS Naturals, FiniteSets

CONSTANTS
  Handlers,   \* requests under way at a time
  Spaces,     \* ids of the spaces
  Oldest,     \* the space older than its board, which the migration seeded
  Defaults,   \* how many DEFAULT_LISTS there are
  Fickle,     \* the spaces whose board is switched, or that are removed
  Serves,     \* which requests each handler may be asked
  Places,     \* the places a card may be asked to move to
  MaxLists,   \* bound: ids of lists
  MaxCards    \* bound: ids of cards

ASSUME ConstantsAssumption ==
  /\ Spaces \subseteq Nat \ {0} /\ Oldest \in Spaces
  /\ Defaults \in Nat /\ MaxLists \in Nat /\ Defaults <= MaxLists /\ MaxCards \in Nat
  /\ Places \subseteq Nat

VARIABLES
  spaces,     \* the spaces that are still there
  boards,     \* those whose has_board is set
  lists,      \* board_lists: id -> space and position
  nextList,   \* AUTOINCREMENT
  cards,      \* cards: id -> list, position and due date
  nextCard,   \* AUTOINCREMENT
  pc,         \* the statement a handler executes next
  local       \* what it was asked, and what it has read

vars == <<spaces, boards, lists, nextList, cards, nextCard, pc, local>>
tables == <<spaces, boards, lists, nextList, cards, nextCard>>

Dates == {"none", "soon"}
Left == "left"   \* a field the patch leaves out

Nothing == [op |-> "none", space |-> 0, list |-> 0, card |-> 0, to |-> 0,
            due |-> Left, was |-> "none", from |-> 0, home |-> 0, n |-> 0]

ListsOf(s) == {l \in DOMAIN lists : lists[l].space = s}
On(cs, l) == {c \in DOMAIN cs : cs[c].list = l}
BoardOf(c) == lists[cards[c].list].space

Smaller(a, b) == IF a < b THEN a ELSE b

\* ORDER BY position, id.
Ahead(cs, x, y) ==
  \/ cs[x].pos < cs[y].pos
  \/ cs[x].pos = cs[y].pos /\ x < y

\* How many of S come before c.
Rank(cs, S, c) == Cardinality({x \in S : Ahead(cs, x, c)})

\* COALESCE(MAX(position), -1) + 1, as a set of one.
NextPosition(f, S) ==
  LET after == {0} \cup {f[x].pos + 1 : x \in S}
  IN  {n \in after : \A p \in after : p <= n}

Insert(f, id, row) == [x \in DOMAIN f \cup {id} |-> IF x = id THEN row ELSE f[x]]
Only(f, S) == [x \in S |-> f[x]]

Init ==
  /\ spaces = Spaces /\ boards = Spaces
  /\ lists = [l \in 1..Defaults |-> [space |-> Oldest, pos |-> l - 1]]
  /\ nextList = Defaults + 1
  /\ cards = [c \in {} |-> 0] /\ nextCard = 1
  /\ pc = [h \in Handlers |-> "idle"]
  /\ local = [h \in Handlers |-> Nothing]

At(h, label) == pc[h] = label
Go(h, label, l) ==
  /\ pc' = [pc EXCEPT ![h] = label]
  /\ local' = [local EXCEPT ![h] = l]
Done(h) == Go(h, "idle", Nothing)

-----------------------------------------------------------------------------
(* The node behind a board, changed in routes/nodes.rs *)

Switch(s) ==
  /\ s \in spaces
  /\ boards' = IF s \in boards THEN boards \ {s} ELSE boards \cup {s}
  /\ UNCHANGED <<spaces, lists, nextList, cards, nextCard, pc, local>>

\* ON DELETE CASCADE, from lists to their cards.
DropLists(gone) ==
  /\ lists' = Only(lists, (DOMAIN lists) \ gone)
  /\ cards' = Only(cards, {c \in DOMAIN cards : cards[c].list \notin gone})

RemoveSpace(s) ==
  /\ s \in spaces
  /\ spaces' = spaces \ {s} /\ boards' = boards \ {s}
  /\ DropLists(ListsOf(s))
  /\ UNCHANGED <<nextList, nextCard, pc, local>>

-----------------------------------------------------------------------------
(* Requests *)

Ask(h, label, l) ==
  /\ At(h, "idle") /\ l.op \in Serves[h]
  /\ Go(h, label, l) /\ UNCHANGED tables

AskBoard(h, s) == Ask(h, "board", [Nothing EXCEPT !.op = "look", !.space = s])
AskList(h, s) == Ask(h, "board", [Nothing EXCEPT !.op = "new list", !.space = s])
AskRemoval(h, l) ==
  Ask(h, "list", [Nothing EXCEPT !.op = "remove list", !.list = l])
AskCard(h, l) == Ask(h, "list", [Nothing EXCEPT !.op = "new card", !.list = l])
AskPatch(h, c, due) ==
  Ask(h, "card", [Nothing EXCEPT !.op = "patch", !.card = c, !.due = due])
AskMove(h, c, l, to) ==
  Ask(h, "card", [Nothing EXCEPT !.op = "move", !.card = c, !.list = l, !.to = to])

\* remove_card is one statement.
RemoveCard(h, c) ==
  /\ At(h, "idle") /\ "remove card" \in Serves[h] /\ c \in DOMAIN cards
  /\ cards' = Only(cards, (DOMAIN cards) \ {c})
  /\ UNCHANGED <<spaces, boards, lists, nextList, nextCard, pc, local>>

\* The list whose space is asked for: of move_card, first the card's own.
Asked(h) == IF local[h].op = "move" /\ local[h].home = 0
            THEN local[h].from ELSE local[h].list

\* list_space, up to board_space.
FindList(h) ==
  /\ At(h, "list")
  /\ IF Asked(h) \in DOMAIN lists
     THEN Go(h, "board", [local[h] EXCEPT !.space = lists[Asked(h)].space])
     ELSE Done(h)
  /\ UNCHANGED tables

\* A slip: the spaces of the two lists of a move are not compared.
FindAnyBoard(h) ==
  /\ At(h, "board")
  /\ LET l == local[h]
     IN  \/ l.space \notin boards /\ Done(h)
         \/ /\ l.space \in boards /\ l.op \in {"look", "remove list"}
            /\ Go(h, "count", l)
         \/ /\ l.space \in boards /\ l.op \in {"new list", "new card"}
            /\ Go(h, "place", l)
         \/ /\ l.space \in boards /\ l.op = "move" /\ l.home = 0
            /\ Go(h, "list", [l EXCEPT !.home = l.space])
         \/ /\ l.space \in boards /\ l.op = "move" /\ l.home # 0
            /\ Go(h, "move", l)
  /\ UNCHANGED tables

\* board_space, and where each handler goes from there.
FindBoard(h) ==
  /\ At(h, "board")
  /\ LET l == local[h]
     IN  \/ l.space \notin boards /\ Done(h)
         \/ /\ l.space \in boards /\ l.op \in {"look", "remove list"}
            /\ Go(h, "count", l)
         \/ /\ l.space \in boards /\ l.op \in {"new list", "new card"}
            /\ Go(h, "place", l)
         \/ /\ l.space \in boards /\ l.op = "move" /\ l.home = 0
            /\ Go(h, "list", [l EXCEPT !.home = l.space])
         \/ /\ l.space \in boards /\ l.op = "move" /\ l.home # 0
            /\ IF l.home = l.space THEN Go(h, "move", l) ELSE Done(h)
  /\ UNCHANGED tables

-----------------------------------------------------------------------------
(* Lists *)

\* A slip: an empty board may lose its list.
CountForRemoval(h) ==
  /\ At(h, "count") /\ local[h].op = "remove list"
  /\ IF Cardinality(ListsOf(local[h].space)) < 1 THEN Done(h)
     ELSE Go(h, "remove", local[h])
  /\ UNCHANGED tables

\* remove_list: how many lists there are.
CountLists(h) ==
  /\ At(h, "count") /\ local[h].op = "remove list"
  /\ IF Cardinality(ListsOf(local[h].space)) <= 1 THEN Done(h)
     ELSE Go(h, "remove", local[h])
  /\ UNCHANGED tables

DeleteList(h) ==
  /\ At(h, "remove")
  /\ DropLists({local[h].list})
  /\ Done(h)
  /\ UNCHANGED <<spaces, boards, nextList, nextCard>>

\* ensure_lists: a board without lists is given the default ones.
EnsureCount(h) ==
  /\ At(h, "count") /\ local[h].op = "look"
  /\ IF ListsOf(local[h].space) # {} THEN Done(h) ELSE Go(h, "seed", local[h])
  /\ UNCHANGED tables

\* An INSERT below a space that has gone is refused by the foreign key.
AddList(h, pos) ==
  IF local[h].space \in spaces
  THEN /\ nextList <= MaxLists
       /\ lists' = Insert(lists, nextList, [space |-> local[h].space, pos |-> pos])
       /\ nextList' = nextList + 1
  ELSE UNCHANGED <<lists, nextList>>

Seed(h) ==
  /\ At(h, "seed")
  /\ AddList(h, local[h].n)
  /\ IF local[h].space \in spaces /\ local[h].n + 1 < Defaults
     THEN Go(h, "seed", [local[h] EXCEPT !.n = @ + 1]) ELSE Done(h)
  /\ UNCHANGED <<spaces, boards, cards, nextCard>>

PlaceList(h) ==
  /\ At(h, "place") /\ local[h].op = "new list"
  /\ \E n \in NextPosition(lists, ListsOf(local[h].space)) :
       Go(h, "insert", [local[h] EXCEPT !.n = n])
  /\ UNCHANGED tables

InsertList(h) ==
  /\ At(h, "insert") /\ local[h].op = "new list"
  /\ AddList(h, local[h].n)
  /\ Done(h)
  /\ UNCHANGED <<spaces, boards, cards, nextCard>>

-----------------------------------------------------------------------------
(* Cards *)

PlaceCard(h) ==
  /\ At(h, "place") /\ local[h].op = "new card"
  /\ \E n \in NextPosition(cards, On(cards, local[h].list)) :
       Go(h, "insert", [local[h] EXCEPT !.n = n])
  /\ UNCHANGED tables

\* Refused by the foreign key if the list has gone.
InsertCard(h) ==
  /\ At(h, "insert") /\ local[h].op = "new card"
  /\ IF local[h].list \in DOMAIN lists
     THEN /\ nextCard <= MaxCards
          /\ cards' = Insert(cards, nextCard,
                             [list |-> local[h].list, pos |-> local[h].n, due |-> "none"])
          /\ nextCard' = nextCard + 1
     ELSE UNCHANGED <<cards, nextCard>>
  /\ Done(h)
  /\ UNCHANGED <<spaces, boards, lists, nextList>>

\* card(): the row update_card and move_card start from.
ReadCard(h) ==
  /\ At(h, "card")
  /\ LET l == local[h]
     IN  \/ l.card \notin DOMAIN cards /\ Done(h)
         \/ /\ l.card \in DOMAIN cards /\ l.op = "patch"
            /\ Go(h, "patch", [l EXCEPT !.was = cards[l.card].due])
         \/ /\ l.card \in DOMAIN cards /\ l.op = "move"
            /\ Go(h, "list", [l EXCEPT !.from = cards[l.card].list])
  /\ UNCHANGED tables

\* The fields that were read are written back next to the one that is new.
PatchCard(h) ==
  /\ At(h, "patch")
  /\ cards' = [c \in DOMAIN cards |->
                 IF c = local[h].card
                 THEN [cards[c] EXCEPT !.due = IF local[h].due = Left THEN local[h].was
                                               ELSE local[h].due]
                 ELSE cards[c]]
  /\ Done(h)
  /\ UNCHANGED <<spaces, boards, lists, nextList, nextCard>>

\* A slip: the place is taken before the card has been.
InsertedBeforeRemoval(cs, S, card, to) ==
  [c \in S \cup {card} |->
     IF c = card THEN Smaller(to, Cardinality(S))
     ELSE LET r == Rank(cs, S, c) IN IF r < to THEN r ELSE r + 1]

\* S with card taken out and put back at to, as places from 0 on.
reordered(cs, S, card, to) ==
  LET rest == S \ {card}
  IN  [c \in S \cup {card} |->
         IF c = card THEN Smaller(to, Cardinality(rest))
         ELSE LET r == Rank(cs, rest, c) IN IF r < to THEN r ELSE r + 1]

Placed(cs, places) ==
  [c \in DOMAIN cs |-> IF c \in DOMAIN places THEN [cs[c] EXCEPT !.pos = places[c]]
                       ELSE cs[c]]

\* The transaction of move_card: the card to its list, that list in order, and
\* the list the card was read on without a hole.
Moved(l) ==
  LET there == [c \in DOMAIN cards |-> IF c = l.card THEN [cards[c] EXCEPT !.list = l.list]
                                       ELSE cards[c]]
      placed == Placed(there, reordered(there, On(there, l.list), l.card, l.to))
      stayed == On(placed, l.from)
  IN  Placed(placed, [c \in stayed |-> Rank(placed, stayed, c)])

\* A slip: the row is written anew, without its date.
MoveCardWhole(h) ==
  /\ At(h, "move")
  /\ cards' = IF local[h].card \in DOMAIN cards /\ local[h].list \notin DOMAIN lists
              THEN cards
              ELSE [c \in DOMAIN cards |->
                      IF c = local[h].card THEN [Moved(local[h])[c] EXCEPT !.due = "none"]
                      ELSE Moved(local[h])[c]]
  /\ Done(h)
  /\ UNCHANGED <<spaces, boards, lists, nextList, nextCard>>

\* The UPDATE to a list that has gone is refused by the foreign key; of a card
\* that has gone it changes no row, and the order of the list is still written.
MoveCard(h) ==
  /\ At(h, "move")
  /\ cards' = IF local[h].card \in DOMAIN cards /\ local[h].list \notin DOMAIN lists
              THEN cards ELSE Moved(local[h])
  /\ Done(h)
  /\ UNCHANGED <<spaces, boards, lists, nextList, nextCard>>

\* The request is dropped, or the server stops.
Abandon(h) ==
  /\ pc[h] # "idle"
  /\ Done(h) /\ UNCHANGED tables

Request(h) ==
  \/ \E s \in Spaces : AskBoard(h, s) \/ AskList(h, s)
  \/ \E l \in DOMAIN lists : AskRemoval(h, l) \/ AskCard(h, l)
  \/ \E c \in DOMAIN cards :
        \/ RemoveCard(h, c)
        \/ \E due \in Dates \cup {Left} : AskPatch(h, c, due)
        \/ \E l \in DOMAIN lists, to \in Places : AskMove(h, c, l, to)

Step(h) ==
  \/ FindList(h) \/ FindBoard(h)
  \/ CountLists(h) \/ DeleteList(h) \/ EnsureCount(h) \/ Seed(h)
  \/ PlaceList(h) \/ InsertList(h) \/ PlaceCard(h) \/ InsertCard(h)
  \/ ReadCard(h) \/ PatchCard(h) \/ MoveCard(h) \/ Abandon(h)

Next ==
  \/ \E s \in Fickle : Switch(s) \/ RemoveSpace(s)
  \/ \E h \in Handlers : Request(h) \/ Step(h)

Spec == Init /\ [][Next]_vars

-----------------------------------------------------------------------------
(* Properties *)

Labels == {"idle", "board", "list", "card", "count", "remove", "seed", "place",
           "insert", "patch", "move"}
Ops == {"none", "look", "new list", "remove list", "new card", "patch", "move"}
Locals == [op : Ops, space : Nat, list : Nat, card : Nat, to : Nat,
           due : Dates \cup {Left}, was : Dates, from : Nat, home : Nat, n : Nat]

TypeOK ==
  /\ spaces \subseteq Spaces /\ boards \subseteq spaces
  /\ nextList \in 1..(MaxLists + 1) /\ nextCard \in 1..(MaxCards + 1)
  /\ DOMAIN lists \subseteq 1..(nextList - 1)
  /\ lists \in [DOMAIN lists -> [space : spaces, pos : Nat]]
  /\ DOMAIN cards \subseteq 1..(nextCard - 1)
  /\ cards \in [DOMAIN cards -> [list : DOMAIN lists, pos : Nat, due : Dates]]
  /\ pc \in [Handlers -> Labels]
  /\ local \in [Handlers -> Locals]

(***************************************************************************)
(* A card stays on the board of its space.  move_card compares the spaces  *)
(* of two lists it reads in statements of their own, well before it writes.*)
(***************************************************************************)
CardsKeepBoard ==
  [][\A c \in DOMAIN cards \cap DOMAIN cards' : BoardOf(c)' = BoardOf(c)]_vars

(***************************************************************************)
(* A move puts the card where it was asked to go and changes the order of  *)
(* no other two, over positions that repeat (two cards created at once) or *)
(* leave holes (cards removed), whatever happened since the card was read. *)
(***************************************************************************)
MoveLands ==
  [][\A h \in Handlers :
       At(h, "move") /\ ~At(h, "move")' /\ cards' # cards =>
         LET card == local[h].card
             target == On(cards', local[h].list)
         IN  /\ card \in DOMAIN cards =>
                  Rank(cards', target, card)
                    = Smaller(local[h].to, Cardinality(target \ {card}))
             /\ \A x, y \in (DOMAIN cards) \ {card} :
                  cards[x].list = cards[y].list /\ Ahead(cards, x, y) =>
                     Ahead(cards', x, y)]_vars

(***************************************************************************)
(* "A board must keep one list, or there is nowhere left to put a card"    *)
(* (boards.rs:311): with one removal under way at a time.                  *)
(***************************************************************************)
KeepsOneList ==
  [][\A s \in spaces \cap spaces' : ListsOf(s) # {} => ListsOf(s)' # {}]_vars

(***************************************************************************)
(* "leaving it out keeps it" (boards.rs:82): the due date changes only by  *)
(* a patch that names it, with one patch under way at a time.              *)
(***************************************************************************)
LeftOutKept ==
  [][\A c \in DOMAIN cards \cap DOMAIN cards' :
       cards'[c].due # cards[c].due =>
         \E h \in Handlers : At(h, "patch") /\ local[h].card = c /\ local[h].due # Left]_vars

=============================================================================
