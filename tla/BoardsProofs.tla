---------------------------- MODULE BoardsProofs ----------------------------
(***************************************************************************)
(* For every number of requests, spaces, lists and cards: the types of the *)
(* board's tables; a card keeps its board; with one patch under way at a   *)
(* time a date left out is kept; with one removal of a list under way at a *)
(* time a board keeps a list; and a move puts a card where it was asked to *)
(* go, and no other two cards of a list change their order.                *)
(***************************************************************************)
EXTENDS Boards, TLAPS, FiniteSetTheorems

CardRows(ls) == [list : DOMAIN ls, pos : Nat, due : Dates]
ListRows(ss) == [space : ss, pos : Nat]

TablesOK ==
  /\ spaces \subseteq Spaces /\ boards \subseteq spaces
  /\ nextList \in 1..(MaxLists + 1) /\ nextCard \in 1..(MaxCards + 1)
  /\ DOMAIN lists \subseteq 1..(nextList - 1)
  /\ lists \in [DOMAIN lists -> ListRows(spaces)]
  /\ DOMAIN cards \subseteq 1..(nextCard - 1)
  /\ cards \in [DOMAIN cards -> CardRows(lists)]

LocalsOK == pc \in [Handlers -> Labels] /\ local \in [Handlers -> Locals]

\* What a move has learnt, on its way from one statement to the next, about
\* the boards of its card and its lists, should they still be there.
MoveKnows(h) ==
  LET l == local[h]
  IN  l.op = "move" =>
        /\ l.card \in 1..(nextCard - 1) /\ l.list \in 1..(nextList - 1)
        /\ pc[h] \in {"list", "board"} =>
             /\ l.from \in 1..(nextList - 1)
             /\ l.card \in DOMAIN cards /\ l.from \in DOMAIN lists =>
                  BoardOf(l.card) = lists[l.from].space
        /\ l.home # 0 /\ l.card \in DOMAIN cards => BoardOf(l.card) = l.home
        /\ pc[h] = "board" /\ l.home = 0 /\ l.card \in DOMAIN cards =>
             BoardOf(l.card) = l.space
        /\ pc[h] = "board" /\ l.home # 0 /\ l.list \in DOMAIN lists =>
             lists[l.list].space = l.space
        /\ pc[h] = "card" => l.home = 0
        /\ pc[h] = "move" => l.home # 0
        /\ pc[h] = "move" /\ l.list \in DOMAIN lists => lists[l.list].space = l.home

\* Which request it is can be told from the statement it is at.
AtWork(h) ==
  /\ pc[h] = "move" => local[h].op = "move"
  /\ pc[h] = "seed" => local[h].op = "look"

IInv == TablesOK /\ LocalsOK /\ \A h \in Handlers : AtWork(h) /\ MoveKnows(h)

\* What every step leaves as it was: the space of a list, the board of a card.
Kept ==
  /\ nextList' \in Nat /\ nextCard' \in Nat
  /\ nextList' >= nextList /\ nextCard' >= nextCard
  /\ \A l \in DOMAIN lists' :
       \/ l \in DOMAIN lists /\ lists'[l].space = lists[l].space
       \/ l >= nextList
  /\ \A c \in DOMAIN cards' :
       \/ c \in DOMAIN cards /\ lists'[cards'[c].list].space = lists[cards[c].list].space
       \/ c >= nextCard

-----------------------------------------------------------------------------
LEMMA TypeSplit == TypeOK <=> TablesOK /\ LocalsOK
  BY DEF TypeOK, TablesOK, LocalsOK, CardRows, ListRows

LEMMA Goes ==
  ASSUME NEW h \in Handlers, NEW label \in Labels, NEW l \in Locals, LocalsOK,
         Go(h, label, l)
  PROVE  /\ LocalsOK'
         /\ pc'[h] = label /\ local'[h] = l
         /\ \A g \in Handlers \ {h} : pc'[g] = pc[g] /\ local'[g] = local[g]
  BY DEF Go, LocalsOK

LEMMA NothingTyped == Nothing \in Locals /\ Nothing.op = "none"
  BY DEF Nothing, Locals, Ops, Dates, Left

\* A handler that is done knows nothing and need not.
LEMMA Finishes ==
  ASSUME NEW h \in Handlers, LocalsOK, Done(h)
  PROVE  /\ LocalsOK' /\ AtWork(h)' /\ MoveKnows(h)'
         /\ \A g \in Handlers \ {h} : pc'[g] = pc[g] /\ local'[g] = local[g]
<1>1. "idle" \in Labels
  BY DEF Labels
<1>2. /\ LocalsOK' /\ pc'[h] = "idle" /\ local'[h] = Nothing
      /\ \A g \in Handlers \ {h} : pc'[g] = pc[g] /\ local'[g] = local[g]
  BY <1>1, NothingTyped, Goes DEF Done
<1>3. AtWork(h)' /\ MoveKnows(h)'
  BY <1>2, NothingTyped DEF AtWork, MoveKnows
<1> QED BY <1>2, <1>3

\* What one handler knows stays true while others work.
LEMMA Undisturbed ==
  ASSUME TablesOK, Kept, NEW g \in Handlers, MoveKnows(g),
         pc'[g] = pc[g], local'[g] = local[g]
  PROVE  MoveKnows(g)'
<1> DEFINE l == local[g]
<1> SUFFICES ASSUME l.op = "move" PROVE MoveKnows(g)'
  BY DEF MoveKnows
<1>1. l.card \in 1..(nextCard - 1) /\ l.list \in 1..(nextList - 1)
  BY DEF MoveKnows
<1>2. l.card \in 1..(nextCard' - 1) /\ l.list \in 1..(nextList' - 1)
  BY <1>1 DEF Kept, TablesOK
<1>3. l.card \in DOMAIN cards' =>
        l.card \in DOMAIN cards /\ BoardOf(l.card)' = BoardOf(l.card)
  BY <1>1 DEF Kept, TablesOK, BoardOf
<1>4. l.list \in DOMAIN lists' =>
        l.list \in DOMAIN lists /\ lists'[l.list].space = lists[l.list].space
  BY <1>1 DEF Kept, TablesOK
<1>5. pc[g] \in {"list", "board"} =>
        /\ l.from \in 1..(nextList' - 1)
        /\ l.from \in DOMAIN lists' =>
             l.from \in DOMAIN lists /\ lists'[l.from].space = lists[l.from].space
  BY DEF Kept, TablesOK, MoveKnows
<1> QED BY <1>2, <1>3, <1>4, <1>5 DEF MoveKnows

\* A step of one handler, in the parts its proof has to supply.
LEMMA StepKeeps ==
  ASSUME IInv, NEW h \in Handlers, TablesOK', Kept, LocalsOK', MoveKnows(h)',
         AtWork(h)',
         \A g \in Handlers \ {h} : pc'[g] = pc[g] /\ local'[g] = local[g]
  PROVE  IInv' /\ Kept
<1>1. ASSUME NEW g \in Handlers PROVE MoveKnows(g)'
  BY Undisturbed DEF IInv
<1>2. ASSUME NEW g \in Handlers PROVE AtWork(g)'
  BY DEF IInv, AtWork
<1> QED BY <1>1, <1>2 DEF IInv

\* The same for a handler that is done.
LEMMA LastStepKeeps ==
  ASSUME IInv, NEW h \in Handlers, TablesOK', Kept, Done(h)
  PROVE  IInv' /\ Kept
  BY Finishes, StepKeeps DEF IInv

LEMMA TablesKept == ASSUME TablesOK, UNCHANGED tables PROVE TablesOK' /\ Kept
<1>1. nextList \in Nat /\ nextCard \in Nat
  BY DEF TablesOK
<1> QED BY <1>1 DEF TablesOK, Kept, tables, CardRows, ListRows

LEMMA ReadingStep ==
  ASSUME IInv, NEW h \in Handlers, NEW label \in Labels, NEW l \in Locals,
         Go(h, label, l), UNCHANGED tables,
         label = "move" => l.op = "move", label = "seed" => l.op = "look",
         MoveKnows(h)'
  PROVE  IInv' /\ Kept
  BY TablesKept, Goes, StepKeeps DEF IInv, AtWork

LEMMA LastReading ==
  ASSUME IInv, NEW h \in Handlers, Done(h), UNCHANGED tables
  PROVE  IInv' /\ Kept
  BY TablesKept, LastStepKeeps DEF IInv

-----------------------------------------------------------------------------
LEMMA InitTrue == Init => IInv
<1> SUFFICES ASSUME Init PROVE IInv
  OBVIOUS
<1>1. TablesOK
  <2>1. DOMAIN lists = 1..Defaults /\ DOMAIN cards = {}
    BY DEF Init
  <2>2. \A l \in DOMAIN lists : lists[l] \in ListRows(spaces)
    BY ConstantsAssumption DEF ConstantsAssumption, Init, ListRows
  <2>3. lists \in [DOMAIN lists -> ListRows(spaces)]
    BY <2>2 DEF Init
  <2>4. cards \in [DOMAIN cards -> CardRows(lists)]
    BY <2>1 DEF Init
  <2>5. /\ nextList \in 1..(MaxLists + 1) /\ nextCard \in 1..(MaxCards + 1)
        /\ 1..Defaults \subseteq 1..(nextList - 1)
    BY ConstantsAssumption DEF ConstantsAssumption, Init
  <2>6. spaces \subseteq Spaces /\ boards \subseteq spaces
    BY DEF Init
  <2> QED BY <2>1, <2>3, <2>4, <2>5, <2>6 DEF TablesOK
<1>2. LocalsOK
  BY NothingTyped DEF Init, LocalsOK, Labels
<1>3. \A h \in Handlers : AtWork(h) /\ MoveKnows(h)
  BY NothingTyped DEF Init, AtWork, MoveKnows
<1> QED BY <1>1, <1>2, <1>3 DEF IInv

\* Lists go with their cards, and every other row stays.
LEMMA DropKeeps ==
  ASSUME TablesOK, NEW gone \in SUBSET DOMAIN lists, DropLists(gone),
         UNCHANGED <<nextList, nextCard>>,
         spaces' \subseteq spaces, boards' \subseteq spaces',
         \A l \in (DOMAIN lists) \ gone : lists[l].space \in spaces'
  PROVE  TablesOK' /\ Kept
<1>1. /\ DOMAIN lists' = (DOMAIN lists) \ gone
      /\ \A l \in DOMAIN lists' : lists'[l] = lists[l]
      /\ lists' = [l \in DOMAIN lists' |-> lists[l]]
  BY DEF DropLists, Only
<1>2. /\ DOMAIN cards' = {c \in DOMAIN cards : cards[c].list \notin gone}
      /\ \A c \in DOMAIN cards' : cards'[c] = cards[c]
      /\ cards' = [c \in DOMAIN cards' |-> cards[c]]
  BY DEF DropLists, Only
<1>3. lists' \in [DOMAIN lists' -> ListRows(spaces')]
  <2>1. \A l \in DOMAIN lists' : lists[l] \in ListRows(spaces')
    BY <1>1 DEF TablesOK, ListRows
  <2> QED BY <1>1, <2>1
<1>4. \A c \in DOMAIN cards' : cards[c].list \in DOMAIN lists'
  BY <1>1, <1>2 DEF TablesOK, CardRows
<1>5. cards' \in [DOMAIN cards' -> CardRows(lists')]
  <2>1. \A c \in DOMAIN cards' : cards[c] \in CardRows(lists')
    BY <1>2, <1>4 DEF TablesOK, CardRows
  <2> QED BY <1>2, <2>1
<1>6. TablesOK'
  BY <1>1, <1>2, <1>3, <1>5 DEF TablesOK
<1>7. Kept
  <2>1. nextList \in Nat /\ nextCard \in Nat
    BY DEF TablesOK
  <2> QED BY <2>1, <1>1, <1>2, <1>4 DEF Kept
<1> QED BY <1>6, <1>7

LEMMA SwitchKeeps == ASSUME IInv, NEW s \in Fickle, Switch(s) PROVE IInv' /\ Kept
<1>1. TablesOK'
  BY DEF IInv, TablesOK, Switch, ListRows, CardRows
<1>2. Kept
  <2>1. nextList \in Nat /\ nextCard \in Nat
    BY DEF IInv, TablesOK
  <2> QED BY <2>1 DEF Switch, Kept
<1>3. \A g \in Handlers : MoveKnows(g)'
  BY <1>2, Undisturbed DEF IInv, Switch
<1> QED BY <1>1, <1>2, <1>3 DEF IInv, LocalsOK, AtWork, Switch

LEMMA RemoveSpaceKeeps == ASSUME IInv, NEW s \in Fickle, RemoveSpace(s) PROVE IInv' /\ Kept
<1>1. \A l \in (DOMAIN lists) \ ListsOf(s) : lists[l].space \in spaces \ {s}
  BY DEF ListsOf, IInv, TablesOK, ListRows
<1>2. TablesOK' /\ Kept
  <2>1. ListsOf(s) \in SUBSET DOMAIN lists
    BY DEF ListsOf
  <2>2. DropLists(ListsOf(s)) /\ UNCHANGED <<nextList, nextCard>>
    BY DEF RemoveSpace
  <2>3. spaces' \subseteq spaces /\ boards' \subseteq spaces' /\ spaces' = spaces \ {s}
    BY DEF RemoveSpace, IInv, TablesOK
  <2> QED BY <1>1, <2>1, <2>2, <2>3, DropKeeps DEF IInv
<1>3. \A g \in Handlers : MoveKnows(g)'
  BY <1>2, Undisturbed DEF IInv, RemoveSpace
<1> QED BY <1>2, <1>3 DEF IInv, LocalsOK, AtWork, RemoveSpace

-----------------------------------------------------------------------------
LEMMA RemoveCardKeeps == ASSUME IInv, NEW h \in Handlers, NEW c, RemoveCard(h, c) PROVE IInv' /\ Kept
<1>1. /\ DOMAIN cards' = (DOMAIN cards) \ {c}
      /\ \A x \in DOMAIN cards' : cards'[x] = cards[x]
      /\ cards' = [x \in DOMAIN cards' |-> cards[x]]
  BY DEF RemoveCard, Only
<1>2. TablesOK'
  <2>1. cards' \in [DOMAIN cards' -> CardRows(lists')]
    BY <1>1 DEF IInv, TablesOK, RemoveCard, CardRows
  <2> QED BY <1>1, <2>1 DEF IInv, TablesOK, RemoveCard, ListRows
<1>3. Kept
  <2>1. nextList \in Nat /\ nextCard \in Nat
    BY DEF IInv, TablesOK
  <2>2. lists' = lists /\ nextList' = nextList /\ nextCard' = nextCard
    BY DEF RemoveCard
  <2>3. \A x \in DOMAIN cards' : x \in DOMAIN cards /\ cards'[x].list = cards[x].list
    BY <1>1
  <2> QED BY <2>1, <2>2, <2>3 DEF Kept
<1>4. \A g \in Handlers : MoveKnows(g)'
  BY <1>3, Undisturbed DEF IInv, RemoveCard
<1> QED BY <1>2, <1>3, <1>4 DEF IInv, LocalsOK, AtWork, RemoveCard

LEMMA RequestKeeps == ASSUME IInv, NEW h \in Handlers, Request(h) PROVE IInv' /\ Kept
<1>1. ASSUME NEW label \in Labels \ {"move", "seed"}, NEW l \in Locals, Ask(h, label, l),
             l.op # "move"
      PROVE  IInv' /\ Kept
  <2>1. MoveKnows(h)'
    BY <1>1, Goes DEF Ask, IInv, MoveKnows
  <2> QED BY <1>1, <2>1, ReadingStep DEF Ask
<1>2. CASE \E s \in Spaces : AskBoard(h, s) \/ AskList(h, s)
  <2>1. PICK s \in Spaces : AskBoard(h, s) \/ AskList(h, s)
    BY <1>2
  <2>2. /\ [Nothing EXCEPT !.op = "look", !.space = s] \in Locals
        /\ [Nothing EXCEPT !.op = "new list", !.space = s] \in Locals
    BY ConstantsAssumption DEF ConstantsAssumption, Nothing, Locals, Ops, Dates, Left
  <2>3. /\ [Nothing EXCEPT !.op = "look", !.space = s].op # "move"
        /\ [Nothing EXCEPT !.op = "new list", !.space = s].op # "move"
    BY DEF Nothing
  <2> QED BY <1>1, <2>1, <2>2, <2>3 DEF AskBoard, AskList, Labels
<1>3. CASE \E l \in DOMAIN lists : AskRemoval(h, l) \/ AskCard(h, l)
  <2>1. PICK m \in DOMAIN lists : AskRemoval(h, m) \/ AskCard(h, m)
    BY <1>3
  <2>2. /\ [Nothing EXCEPT !.op = "remove list", !.list = m] \in Locals
        /\ [Nothing EXCEPT !.op = "new card", !.list = m] \in Locals
    <3>1. m \in Nat
      BY DEF IInv, TablesOK
    <3> QED BY <3>1 DEF Nothing, Locals, Ops, Dates, Left
  <2>3. /\ [Nothing EXCEPT !.op = "remove list", !.list = m].op # "move"
        /\ [Nothing EXCEPT !.op = "new card", !.list = m].op # "move"
    BY DEF Nothing
  <2> QED BY <1>1, <2>1, <2>2, <2>3 DEF AskRemoval, AskCard, Labels
<1>4. ASSUME NEW c \in DOMAIN cards, RemoveCard(h, c) PROVE IInv' /\ Kept
  BY <1>4, RemoveCardKeeps
<1>5. ASSUME NEW c \in DOMAIN cards, NEW due \in Dates \cup {Left}, AskPatch(h, c, due)
      PROVE  IInv' /\ Kept
  <2>1. [Nothing EXCEPT !.op = "patch", !.card = c, !.due = due] \in Locals
    <3>1. c \in Nat
      BY DEF IInv, TablesOK
    <3> QED BY <3>1 DEF Nothing, Locals, Ops, Dates, Left
  <2>2. [Nothing EXCEPT !.op = "patch", !.card = c, !.due = due].op # "move"
    BY DEF Nothing
  <2> QED BY <1>1, <1>5, <2>1, <2>2 DEF AskPatch, Labels
<1>6. ASSUME NEW c \in DOMAIN cards, NEW m \in DOMAIN lists, NEW to \in Places,
             AskMove(h, c, m, to)
      PROVE  IInv' /\ Kept
  <2> DEFINE l == [Nothing EXCEPT !.op = "move", !.card = c, !.list = m, !.to = to]
  <2>1. l \in Locals
    <3>1. c \in Nat /\ m \in Nat /\ to \in Nat
      BY ConstantsAssumption DEF ConstantsAssumption, IInv, TablesOK
    <3> QED BY <3>1 DEF Nothing, Locals, Ops, Dates, Left
  <2>2. l.card = c /\ l.list = m /\ l.home = 0
    BY DEF Nothing
  <2> HIDE DEF l
  <2>3. Go(h, "card", l) /\ UNCHANGED tables
    BY <1>6 DEF AskMove, Ask, l
  <2>4. "card" \in Labels
    BY DEF Labels
  <2>5. pc'[h] = "card" /\ local'[h] = l
    BY <2>1, <2>3, <2>4, Goes DEF IInv
  <2>6. MoveKnows(h)'
    BY <2>2, <2>3, <2>5 DEF MoveKnows, IInv, TablesOK, tables
  <2> QED BY <2>1, <2>3, <2>4, <2>6, ReadingStep
<1> QED BY <1>2, <1>3, <1>4, <1>5, <1>6 DEF Request

LEMMA FindListKeeps == ASSUME IInv, NEW h \in Handlers, FindList(h) PROVE IInv' /\ Kept
<1>1. CASE Asked(h) \notin DOMAIN lists
  BY <1>1, LastReading DEF FindList
<1>2. CASE Asked(h) \in DOMAIN lists
  <2> DEFINE l == [local[h] EXCEPT !.space = lists[Asked(h)].space]
  <2>1. Go(h, "board", l) /\ UNCHANGED tables /\ "board" \in Labels /\ pc[h] = "list"
    BY <1>2 DEF FindList, Labels, At
  <2>2. local[h] \in Locals /\ lists[Asked(h)].space \in Nat
    BY <1>2, ConstantsAssumption
    DEF ConstantsAssumption, IInv, TablesOK, LocalsOK, ListRows
  <2>3. /\ l \in Locals /\ l.op = local[h].op /\ l.card = local[h].card
        /\ l.list = local[h].list /\ l.from = local[h].from /\ l.home = local[h].home
        /\ l.space = lists[Asked(h)].space
    BY <2>2 DEF Locals
  <2> HIDE DEF l
  <2>4. pc'[h] = "board" /\ local'[h] = l
    BY <2>1, <2>3, Goes DEF IInv
  <2>5. MoveKnows(h)'
    <3> SUFFICES ASSUME l.op = "move" PROVE MoveKnows(h)'
      BY <2>4 DEF MoveKnows
    <3>1. Asked(h) = IF l.home = 0 THEN l.from ELSE l.list
      BY <2>3 DEF Asked
    <3>2. MoveKnows(h)
      BY DEF IInv
    <3> QED BY <1>2, <2>1, <2>3, <2>4, <3>1, <3>2 DEF MoveKnows, BoardOf, tables
  <2> QED BY <2>1, <2>3, <2>5, ReadingStep
<1> QED BY <1>1, <1>2

LEMMA FindBoardKeeps == ASSUME IInv, NEW h \in Handlers, FindBoard(h) PROVE IInv' /\ Kept
<1> DEFINE l == local[h]
<1>1. pc[h] = "board" /\ l \in Locals /\ UNCHANGED tables /\ MoveKnows(h)
  BY DEF FindBoard, At, IInv, LocalsOK
<1>2. CASE Done(h)
  BY <1>1, <1>2, LastReading
<1>3. ASSUME NEW label \in {"count", "place"}, Go(h, label, l), l.op # "move"
      PROVE  IInv' /\ Kept
  <2>1. label \in Labels
    BY DEF Labels
  <2>2. local'[h] = l
    BY <1>1, <1>3, <2>1, Goes DEF IInv
  <2>3. MoveKnows(h)'
    BY <1>3, <2>2 DEF MoveKnows
  <2> QED BY <1>1, <1>3, <2>1, <2>3, ReadingStep
<1>4. CASE /\ l.space \in boards /\ l.op = "move" /\ l.home = 0
           /\ Go(h, "list", [l EXCEPT !.home = l.space])
  <2> DEFINE k == [l EXCEPT !.home = l.space]
  <2>1. /\ k \in Locals /\ k.op = l.op /\ k.card = l.card /\ k.list = l.list
        /\ k.from = l.from /\ k.home = l.space
    BY <1>1 DEF Locals
  <2>2. "list" \in Labels
    BY DEF Labels
  <2> HIDE DEF k
  <2>3. Go(h, "list", k)
    BY <1>4 DEF k
  <2>4. pc'[h] = "list" /\ local'[h] = k
    BY <2>1, <2>2, <2>3, Goes DEF IInv
  <2>5. MoveKnows(h)'
    BY <1>1, <1>4, <2>1, <2>4 DEF MoveKnows, BoardOf, tables
  <2> QED BY <1>1, <2>1, <2>2, <2>3, <2>5, ReadingStep
<1>5. CASE l.op = "move" /\ l.home # 0 /\ l.home = l.space /\ Go(h, "move", l)
  <2>1. "move" \in Labels
    BY DEF Labels
  <2>2. pc'[h] = "move" /\ local'[h] = l
    BY <1>1, <1>5, <2>1, Goes DEF IInv
  <2>3. MoveKnows(h)'
    BY <1>1, <1>5, <2>2 DEF MoveKnows, BoardOf, tables
  <2> QED BY <1>1, <1>5, <2>1, <2>3, ReadingStep
<1>6. l.op \in {"look", "remove list", "new list", "new card"} => l.op # "move"
  OBVIOUS
<1> QED BY <1>2, <1>3, <1>4, <1>5, <1>6 DEF FindBoard

-----------------------------------------------------------------------------
LEMMA CountListsKeeps == ASSUME IInv, NEW h \in Handlers, CountLists(h) PROVE IInv' /\ Kept
<1>1. CASE Done(h)
  BY <1>1, LastReading DEF CountLists
<1>2. CASE Go(h, "remove", local[h])
  <2>1. local[h] \in Locals /\ "remove" \in Labels /\ local[h].op # "move"
    BY DEF IInv, LocalsOK, Labels, CountLists
  <2>2. MoveKnows(h)'
    BY <1>2, <2>1, Goes DEF IInv, MoveKnows
  <2> QED BY <1>2, <2>1, <2>2, ReadingStep DEF CountLists
<1> QED BY <1>1, <1>2 DEF CountLists

LEMMA DeleteListKeeps == ASSUME IInv, NEW h \in Handlers, DeleteList(h) PROVE IInv' /\ Kept
<1> DEFINE gone == {local[h].list} \cap DOMAIN lists
<1>1. DropLists(gone)
  BY DEF DeleteList, DropLists, IInv, TablesOK, CardRows
<1>2. TablesOK' /\ Kept
  <2>1. \A l \in (DOMAIN lists) \ gone : lists[l].space \in spaces'
    BY DEF DeleteList, IInv, TablesOK, ListRows
  <2>2. spaces' \subseteq spaces /\ boards' \subseteq spaces' /\ UNCHANGED <<nextList, nextCard>>
    BY DEF DeleteList, IInv, TablesOK
  <2> QED BY <1>1, <2>1, <2>2, DropKeeps DEF IInv
<1> QED BY <1>2, LastStepKeeps DEF DeleteList

LEMMA EnsureCountKeeps == ASSUME IInv, NEW h \in Handlers, EnsureCount(h) PROVE IInv' /\ Kept
<1>1. CASE Done(h)
  BY <1>1, LastReading DEF EnsureCount
<1>2. CASE Go(h, "seed", local[h])
  <2>1. local[h] \in Locals /\ "seed" \in Labels /\ local[h].op = "look"
    BY DEF IInv, LocalsOK, Labels, EnsureCount
  <2>2. MoveKnows(h)'
    BY <1>2, <2>1, Goes DEF IInv, MoveKnows
  <2> QED BY <1>2, <2>1, <2>2, ReadingStep DEF EnsureCount
<1> QED BY <1>1, <1>2 DEF EnsureCount

LEMMA AddListKeeps ==
  ASSUME IInv, NEW h \in Handlers, NEW pos \in Nat, AddList(h, pos),
         UNCHANGED <<spaces, boards, cards, nextCard>>
  PROVE  TablesOK' /\ Kept
<1>1. CASE local[h].space \notin spaces
  BY <1>1, TablesKept DEF AddList, IInv, tables
<1>2. CASE local[h].space \in spaces
  <2> DEFINE row == [space |-> local[h].space, pos |-> pos]
  <2>1. row \in ListRows(spaces)
    BY <1>2 DEF ListRows
  <2>2. /\ DOMAIN lists' = DOMAIN lists \cup {nextList}
        /\ lists' = [l \in DOMAIN lists' |-> IF l = nextList THEN row ELSE lists[l]]
        /\ nextList' = nextList + 1 /\ nextList <= MaxLists
    BY <1>2 DEF AddList, Insert
  <2>3. nextList \notin DOMAIN lists /\ nextList \in Nat /\ nextCard \in Nat
    BY DEF IInv, TablesOK
  <2>4. lists' \in [DOMAIN lists' -> ListRows(spaces')]
    <3>1. \A l \in DOMAIN lists' : (IF l = nextList THEN row ELSE lists[l]) \in ListRows(spaces)
      BY <2>1, <2>2 DEF IInv, TablesOK
    <3> QED BY <2>2, <3>1
  <2>5. cards' \in [DOMAIN cards' -> CardRows(lists')]
    BY <2>2 DEF IInv, TablesOK, CardRows
  <2>6. DOMAIN lists' \subseteq 1..(nextList' - 1) /\ nextList' \in 1..(MaxLists + 1)
    BY <2>2, ConstantsAssumption DEF ConstantsAssumption, IInv, TablesOK
  <2>7. TablesOK'
    BY <2>4, <2>5, <2>6 DEF IInv, TablesOK
  <2>8. \A l \in DOMAIN lists : lists'[l] = lists[l]
    BY <2>2, <2>3
  <2>9. Kept
    BY <2>2, <2>3, <2>8 DEF Kept, IInv, TablesOK, CardRows
  <2> QED BY <2>7, <2>9
<1> QED BY <1>1, <1>2

LEMMA SeedKeeps == ASSUME IInv, NEW h \in Handlers, Seed(h) PROVE IInv' /\ Kept
<1>1. local[h] \in Locals /\ local[h].n \in Nat
  BY DEF IInv, LocalsOK, Locals
<1>2. TablesOK' /\ Kept
  BY <1>1, AddListKeeps DEF Seed
<1>3. CASE Done(h)
  BY <1>2, <1>3, LastStepKeeps
<1>4. CASE Go(h, "seed", [local[h] EXCEPT !.n = @ + 1])
  <2> DEFINE l == [local[h] EXCEPT !.n = @ + 1]
  <2>1. l \in Locals /\ "seed" \in Labels /\ l.op = "look"
    BY <1>1 DEF Locals, Labels, IInv, AtWork, Seed, At
  <2>2. Go(h, "seed", l)
    BY <1>4
  <2> HIDE DEF l
  <2>3. /\ LocalsOK' /\ pc'[h] = "seed" /\ local'[h] = l
        /\ \A g \in Handlers \ {h} : pc'[g] = pc[g] /\ local'[g] = local[g]
    BY <2>1, <2>2, Goes DEF IInv
  <2>4. MoveKnows(h)' /\ AtWork(h)'
    BY <2>1, <2>3 DEF MoveKnows, AtWork
  <2> QED BY <1>2, <2>3, <2>4, StepKeeps
<1> QED BY <1>3, <1>4 DEF Seed

LEMMA PlaceListKeeps == ASSUME IInv, NEW h \in Handlers, PlaceList(h) PROVE IInv' /\ Kept
<1>1. PICK n \in NextPosition(lists, ListsOf(local[h].space)) :
        Go(h, "insert", [local[h] EXCEPT !.n = n])
  BY DEF PlaceList
<1> DEFINE l == [local[h] EXCEPT !.n = n]
<1>2. n \in Nat
  BY DEF NextPosition, ListsOf, IInv, TablesOK, ListRows
<1>3. l \in Locals /\ l.op = "new list" /\ "insert" \in Labels
  BY <1>2 DEF IInv, LocalsOK, Locals, Labels, PlaceList
<1> HIDE DEF l
<1>4. Go(h, "insert", l)
  BY <1>1 DEF l
<1>5. MoveKnows(h)'
  BY <1>3, <1>4, Goes DEF IInv, MoveKnows
<1> QED BY <1>3, <1>4, <1>5, ReadingStep DEF PlaceList

LEMMA InsertListKeeps == ASSUME IInv, NEW h \in Handlers, InsertList(h) PROVE IInv' /\ Kept
<1>1. local[h].n \in Nat
  BY DEF IInv, LocalsOK, Locals
<1>2. TablesOK' /\ Kept
  BY <1>1, AddListKeeps DEF InsertList
<1> QED BY <1>2, LastStepKeeps DEF InsertList

LEMMA PlaceCardKeeps == ASSUME IInv, NEW h \in Handlers, PlaceCard(h) PROVE IInv' /\ Kept
<1>1. PICK n \in NextPosition(cards, On(cards, local[h].list)) :
        Go(h, "insert", [local[h] EXCEPT !.n = n])
  BY DEF PlaceCard
<1> DEFINE l == [local[h] EXCEPT !.n = n]
<1>2. n \in Nat
  BY DEF NextPosition, On, IInv, TablesOK, CardRows
<1>3. l \in Locals /\ l.op = "new card" /\ "insert" \in Labels
  BY <1>2 DEF IInv, LocalsOK, Locals, Labels, PlaceCard
<1> HIDE DEF l
<1>4. Go(h, "insert", l)
  BY <1>1 DEF l
<1>5. MoveKnows(h)'
  BY <1>3, <1>4, Goes DEF IInv, MoveKnows
<1> QED BY <1>3, <1>4, <1>5, ReadingStep DEF PlaceCard

LEMMA InsertCardKeeps == ASSUME IInv, NEW h \in Handlers, InsertCard(h) PROVE IInv' /\ Kept
<1>1. CASE local[h].list \notin DOMAIN lists
  BY <1>1, LastReading DEF InsertCard, tables
<1>2. CASE local[h].list \in DOMAIN lists
  <2> DEFINE row == [list |-> local[h].list, pos |-> local[h].n, due |-> "none"]
  <2>1. row \in CardRows(lists)
    BY <1>2 DEF CardRows, Dates, IInv, LocalsOK, Locals
  <2>2. /\ DOMAIN cards' = DOMAIN cards \cup {nextCard}
        /\ cards' = [c \in DOMAIN cards' |-> IF c = nextCard THEN row ELSE cards[c]]
        /\ nextCard' = nextCard + 1 /\ nextCard <= MaxCards
    BY <1>2 DEF InsertCard, Insert
  <2>3. nextCard \notin DOMAIN cards /\ nextCard \in Nat /\ nextList \in Nat
    BY DEF IInv, TablesOK
  <2>4. cards' \in [DOMAIN cards' -> CardRows(lists')]
    <3>1. \A c \in DOMAIN cards' : (IF c = nextCard THEN row ELSE cards[c]) \in CardRows(lists)
      BY <2>1, <2>2 DEF IInv, TablesOK
    <3> QED BY <2>2, <3>1 DEF InsertCard
  <2>5. DOMAIN cards' \subseteq 1..(nextCard' - 1) /\ nextCard' \in 1..(MaxCards + 1)
    BY <2>2, ConstantsAssumption DEF ConstantsAssumption, IInv, TablesOK
  <2>6. TablesOK'
    BY <2>4, <2>5 DEF IInv, TablesOK, InsertCard, ListRows
  <2>7. \A c \in DOMAIN cards : cards'[c] = cards[c]
    BY <2>2, <2>3
  <2>8. Kept
    <3>1. lists' = lists /\ nextList' = nextList
      BY DEF InsertCard
    <3>2. \A c \in DOMAIN cards' : c \in DOMAIN cards \/ c = nextCard
      BY <2>2
    <3> QED BY <2>2, <2>3, <2>7, <3>1, <3>2 DEF Kept
  <2> QED BY <2>6, <2>8, LastStepKeeps DEF InsertCard
<1> QED BY <1>1, <1>2

LEMMA ReadCardKeeps == ASSUME IInv, NEW h \in Handlers, ReadCard(h) PROVE IInv' /\ Kept
<1> DEFINE l == local[h]
<1>1. pc[h] = "card" /\ l \in Locals /\ UNCHANGED tables /\ MoveKnows(h)
  BY DEF ReadCard, At, IInv, LocalsOK
<1>2. CASE Done(h)
  BY <1>1, <1>2, LastReading
<1>3. CASE /\ l.card \in DOMAIN cards /\ l.op = "patch"
           /\ Go(h, "patch", [l EXCEPT !.was = cards[l.card].due])
  <2> DEFINE k == [l EXCEPT !.was = cards[l.card].due]
  <2>1. k \in Locals /\ k.op = "patch" /\ "patch" \in Labels
    BY <1>1, <1>3 DEF Locals, Labels, IInv, TablesOK, CardRows
  <2> HIDE DEF k
  <2>2. Go(h, "patch", k)
    BY <1>3 DEF k
  <2>3. MoveKnows(h)'
    BY <2>1, <2>2, Goes DEF IInv, MoveKnows
  <2> QED BY <1>1, <2>1, <2>2, <2>3, ReadingStep
<1>4. CASE /\ l.card \in DOMAIN cards /\ l.op = "move"
           /\ Go(h, "list", [l EXCEPT !.from = cards[l.card].list])
  <2> DEFINE k == [l EXCEPT !.from = cards[l.card].list]
  <2>1. cards[l.card].list \in DOMAIN lists /\ cards[l.card].list \in 1..(nextList - 1)
    BY <1>4 DEF IInv, TablesOK, CardRows
  <2>2. cards[l.card].list \in Nat
    BY <2>1
  <2>3. /\ k \in Locals /\ k.op = "move" /\ k.card = l.card /\ k.list = l.list
        /\ k.home = l.home /\ k.from = cards[l.card].list
    BY <1>1, <1>4, <2>2 DEF Locals
  <2>4. "list" \in Labels
    BY DEF Labels
  <2> HIDE DEF k
  <2>5. Go(h, "list", k)
    BY <1>4 DEF k
  <2>6. pc'[h] = "list" /\ local'[h] = k
    BY <2>3, <2>4, <2>5, Goes DEF IInv
  <2>7. MoveKnows(h)'
    BY <1>1, <1>4, <2>1, <2>3, <2>6 DEF MoveKnows, BoardOf, tables
  <2> QED BY <1>1, <2>3, <2>4, <2>5, <2>7, ReadingStep
<1> QED BY <1>2, <1>3, <1>4 DEF ReadCard

\* What a change to the rows of cards has to leave alone.
LEMMA CardsKeep ==
  ASSUME IInv, UNCHANGED <<spaces, boards, lists, nextList, nextCard>>,
         DOMAIN cards' = DOMAIN cards,
         cards' \in [DOMAIN cards -> CardRows(lists)],
         \A c \in DOMAIN cards : lists[cards'[c].list].space = lists[cards[c].list].space
  PROVE  TablesOK' /\ Kept
<1>1. nextList \in Nat /\ nextCard \in Nat
  BY DEF IInv, TablesOK
<1>2. TablesOK'
  BY DEF IInv, TablesOK, ListRows, CardRows
<1> QED BY <1>1, <1>2 DEF Kept

LEMMA PatchCardKeeps == ASSUME IInv, NEW h \in Handlers, PatchCard(h) PROVE IInv' /\ Kept
<1> DEFINE due == IF local[h].due = Left THEN local[h].was ELSE local[h].due
<1>1. due \in Dates
  BY DEF IInv, LocalsOK, Locals
<1> HIDE DEF due
<1>2. cards' = [c \in DOMAIN cards |->
                 IF c = local[h].card THEN [cards[c] EXCEPT !.due = due] ELSE cards[c]]
  BY DEF PatchCard, due
<1>3. \A c \in DOMAIN cards : cards[c] \in CardRows(lists)
  BY DEF IInv, TablesOK
<1>4. \A c \in DOMAIN cards : cards'[c] \in CardRows(lists) /\ cards'[c].list = cards[c].list
  BY <1>1, <1>2, <1>3 DEF CardRows
<1>5. DOMAIN cards' = DOMAIN cards /\ cards' \in [DOMAIN cards -> CardRows(lists)]
  BY <1>2, <1>4
<1> QED BY <1>4, <1>5, CardsKeep, LastStepKeeps DEF PatchCard

-----------------------------------------------------------------------------
(* The transaction of move_card *)

LEMMA RankTyped ==
  ASSUME TablesOK, NEW cs, DOMAIN cs = DOMAIN cards, NEW S \in SUBSET DOMAIN cards, NEW c
  PROVE  Rank(cs, S, c) \in Nat /\ Cardinality(S) \in Nat
<1>1. IsFiniteSet(DOMAIN cards)
  <2>1. 1 \in Int /\ nextCard - 1 \in Int
    BY DEF TablesOK
  <2>2. IsFiniteSet(1..(nextCard - 1))
    BY <2>1, FS_Interval
  <2> QED BY <2>2, FS_Subset DEF TablesOK
<1>2. IsFiniteSet(S) /\ IsFiniteSet({x \in S : Ahead(cs, x, c)})
  BY <1>1, FS_Subset
<1> QED BY <1>2, FS_CardinalityType DEF Rank

\* Giving places to cards changes nothing else about them.
LEMMA PlacedTyped ==
  ASSUME NEW cs \in [DOMAIN cards -> CardRows(lists)], NEW places,
         \A c \in DOMAIN cards : c \in DOMAIN places => places[c] \in Nat
  PROVE  /\ Placed(cs, places) \in [DOMAIN cards -> CardRows(lists)]
         /\ \A c \in DOMAIN cards : Placed(cs, places)[c].list = cs[c].list
<1>1. \A c \in DOMAIN cards :
        LET r == IF c \in DOMAIN places THEN [cs[c] EXCEPT !.pos = places[c]] ELSE cs[c]
        IN  r \in CardRows(lists) /\ r.list = cs[c].list
  BY DEF CardRows
<1> QED BY <1>1 DEF Placed

LEMMA MovedTyped ==
  ASSUME IInv, NEW l \in Locals,
         l.card \in DOMAIN cards => l.list \in DOMAIN lists
  PROVE  /\ Moved(l) \in [DOMAIN cards -> CardRows(lists)]
         /\ \A c \in DOMAIN cards :
               Moved(l)[c].list = IF c = l.card THEN l.list ELSE cards[c].list
<1> DEFINE there == [c \in DOMAIN cards |-> IF c = l.card THEN [cards[c] EXCEPT !.list = l.list]
                                            ELSE cards[c]]
           places == reordered(there, On(there, l.list), l.card, l.to)
           placed == Placed(there, places)
           stayed == On(placed, l.from)
           closed == [c \in stayed |-> Rank(placed, stayed, c)]
<1>1. /\ there \in [DOMAIN cards -> CardRows(lists)]
      /\ \A c \in DOMAIN cards :
            there[c].list = IF c = l.card THEN l.list ELSE cards[c].list
  <2>1. \A c \in DOMAIN cards : cards[c] \in CardRows(lists)
    BY DEF IInv, TablesOK
  <2> QED BY <2>1 DEF CardRows
<1>2. \A c \in DOMAIN places : places[c] \in Nat
  <2> DEFINE S == On(there, l.list)
             rest == S \ {l.card}
  <2>1. rest \in SUBSET DOMAIN cards
    BY <1>1 DEF On
  <2> HIDE DEF there
  <2>2. Cardinality(rest) \in Nat /\ \A c : Rank(there, rest, c) \in Nat
    BY <1>1, <2>1, RankTyped DEF IInv
  <2>3. l.to \in Nat
    BY DEF Locals
  <2> HIDE DEF rest
  <2>4. places = [c \in S \cup {l.card} |->
                   IF c = l.card THEN Smaller(l.to, Cardinality(rest))
                   ELSE LET r == Rank(there, rest, c) IN IF r < l.to THEN r ELSE r + 1]
    BY DEF reordered, rest
  <2> QED BY <2>2, <2>3, <2>4 DEF Smaller
<1> HIDE DEF there, places
<1>3. /\ placed \in [DOMAIN cards -> CardRows(lists)]
      /\ \A c \in DOMAIN cards : placed[c].list = there[c].list
  BY <1>1, <1>2, PlacedTyped
<1> HIDE DEF placed
<1>4. \A c \in DOMAIN closed : closed[c] \in Nat
  <2>1. stayed \in SUBSET DOMAIN cards
    BY <1>3 DEF On
  <2> QED BY <1>3, <2>1, RankTyped DEF IInv
<1> HIDE DEF closed
<1>5. /\ Placed(placed, closed) \in [DOMAIN cards -> CardRows(lists)]
      /\ \A c \in DOMAIN cards : Placed(placed, closed)[c].list = placed[c].list
  BY <1>3, <1>4, PlacedTyped
<1>6. Moved(l) = Placed(placed, closed)
  BY DEF Moved, there, places, placed, closed
<1> QED BY <1>1, <1>3, <1>5, <1>6

LEMMA MoveCardKeeps == ASSUME IInv, NEW h \in Handlers, MoveCard(h) PROVE IInv' /\ Kept
<1> DEFINE l == local[h]
<1>1. /\ pc[h] = "move" /\ l \in Locals /\ l.op = "move" /\ MoveKnows(h)
  BY DEF MoveCard, At, IInv, LocalsOK, AtWork
<1>2. CASE l.card \in DOMAIN cards /\ l.list \notin DOMAIN lists
  BY <1>2, LastReading DEF MoveCard, tables
<1>3. CASE ~(l.card \in DOMAIN cards /\ l.list \notin DOMAIN lists)
  <2>1. cards' = Moved(l)
    BY <1>3 DEF MoveCard
  <2>2. /\ cards' \in [DOMAIN cards -> CardRows(lists)]
        /\ \A c \in DOMAIN cards :
              cards'[c].list = IF c = l.card THEN l.list ELSE cards[c].list
    BY <1>1, <1>3, <2>1, MovedTyped
  <2>3. l.card \in DOMAIN cards =>
          lists[l.list].space = lists[cards[l.card].list].space
    BY <1>1, <1>3 DEF MoveKnows, BoardOf
  <2>4. \A c \in DOMAIN cards : lists[cards'[c].list].space = lists[cards[c].list].space
    BY <2>2, <2>3
  <2>5. DOMAIN cards' = DOMAIN cards
    BY <2>2
  <2> QED BY <2>2, <2>4, <2>5, CardsKeep, LastStepKeeps DEF MoveCard
<1> QED BY <1>2, <1>3

-----------------------------------------------------------------------------
LEMMA NextKeeps == IInv /\ [Next]_vars => IInv' /\ Kept
<1> SUFFICES ASSUME IInv, [Next]_vars PROVE IInv' /\ Kept
  OBVIOUS
<1>1. CASE UNCHANGED vars
  BY <1>1, TablesKept, Undisturbed DEF vars, tables, IInv, LocalsOK, AtWork
<1>2. CASE \E s \in Fickle : Switch(s) \/ RemoveSpace(s)
  BY <1>2, SwitchKeeps, RemoveSpaceKeeps
<1>3. ASSUME NEW h \in Handlers, Step(h) PROVE IInv' /\ Kept
  <2>1. CASE FindList(h) \/ FindBoard(h) \/ CountLists(h) \/ DeleteList(h)
    BY <2>1, FindListKeeps, FindBoardKeeps, CountListsKeeps, DeleteListKeeps
  <2>2. CASE EnsureCount(h) \/ Seed(h) \/ PlaceList(h) \/ InsertList(h)
    BY <2>2, EnsureCountKeeps, SeedKeeps, PlaceListKeeps, InsertListKeeps
  <2>3. CASE PlaceCard(h) \/ InsertCard(h) \/ ReadCard(h) \/ PatchCard(h)
    BY <2>3, PlaceCardKeeps, InsertCardKeeps, ReadCardKeeps, PatchCardKeeps
  <2>4. CASE MoveCard(h) \/ Abandon(h)
    BY <2>4, MoveCardKeeps, LastReading DEF Abandon
  <2> QED BY <1>3, <2>1, <2>2, <2>3, <2>4 DEF Step
<1>4. CASE \E h \in Handlers : Request(h)
  BY <1>4, RequestKeeps
<1> QED BY <1>1, <1>2, <1>3, <1>4 DEF Next

LEMMA Inductive == Spec => []IInv
<1>1. Init => IInv
  BY InitTrue
<1>2. IInv /\ [Next]_vars => IInv'
  BY NextKeeps
<1> QED BY <1>1, <1>2, PTL DEF Spec

\* Every column and every handler's locals keep their types; in particular no
\* card is left on a list that has gone.
THEOREM TypeCorrect == Spec => []TypeOK
<1>1. IInv => TypeOK
  BY TypeSplit DEF IInv
<1> QED BY <1>1, Inductive, PTL

\* A card never moves to the board of another space, however lists, cards and
\* spaces change between the statements of move_card.
THEOREM CardsStay == Spec => CardsKeepBoard
<1>1. IInv /\ [Next]_vars =>
        [\A c \in DOMAIN cards \cap DOMAIN cards' : BoardOf(c)' = BoardOf(c)]_vars
  <2> SUFFICES ASSUME IInv, [Next]_vars, NEW c \in DOMAIN cards \cap DOMAIN cards'
               PROVE  lists'[cards'[c].list].space = lists[cards[c].list].space
    BY DEF BoardOf
  <2>1. Kept
    BY NextKeeps
  <2>2. c < nextCard /\ c \in Nat /\ nextCard \in Nat
    BY DEF IInv, TablesOK
  <2> QED BY <2>1, <2>2 DEF Kept
<1> QED BY <1>1, Inductive, PTL DEF Spec, CardsKeepBoard

-----------------------------------------------------------------------------
(***************************************************************************)
(* What a handler is asked it holds on to until it is done; only reading   *)
(* the card makes a patch, and only counting the lists makes a removal.    *)
(***************************************************************************)
HoldsOn(h) ==
  /\ local'[h].op = local[h].op /\ local'[h].card = local[h].card
  /\ local'[h].list = local[h].list
  /\ pc'[h] = "board" => FindList(h)
  /\ pc'[h] = "count" => FindBoard(h)
  /\ pc'[h] = "patch" => ReadCard(h)
  /\ pc'[h] = "remove" => CountLists(h)

Idles(h) == pc'[h] = "idle" /\ local'[h] = Nothing

LEMMA Holding ==
  ASSUME IInv, NEW h \in Handlers, Step(h)
  PROVE  /\ HoldsOn(h) \/ Idles(h)
         /\ \A g \in Handlers \ {h} : pc'[g] = pc[g] /\ local'[g] = local[g]
<1>1. pc \in [Handlers -> Labels] /\ local \in [Handlers -> Locals] /\ local[h] \in Locals
  BY DEF IInv, LocalsOK
<1>2. ASSUME NEW label, NEW l, Go(h, label, l)
      PROVE  /\ pc'[h] = label /\ local'[h] = l
             /\ \A g \in Handlers \ {h} : pc'[g] = pc[g] /\ local'[g] = local[g]
  BY <1>1, <1>2 DEF Go
<1>3. ASSUME NEW label, NEW l, Go(h, label, l),
             l.op = local[h].op, l.card = local[h].card, l.list = local[h].list,
             label = "board" => FindList(h), label = "count" => FindBoard(h),
             label = "patch" => ReadCard(h), label = "remove" => CountLists(h)
      PROVE  /\ HoldsOn(h)
             /\ \A g \in Handlers \ {h} : pc'[g] = pc[g] /\ local'[g] = local[g]
  BY <1>2, <1>3 DEF HoldsOn
<1>4. ASSUME Done(h)
      PROVE  /\ Idles(h)
             /\ \A g \in Handlers \ {h} : pc'[g] = pc[g] /\ local'[g] = local[g]
  BY <1>2, <1>4 DEF Done, Idles
<1>5. CASE FindList(h)
  <2>1. CASE Asked(h) \in DOMAIN lists
    <3> DEFINE l == [local[h] EXCEPT !.space = lists[Asked(h)].space]
    <3>1. Go(h, "board", l)
      BY <1>5, <2>1 DEF FindList
    <3>2. l.op = local[h].op /\ l.card = local[h].card /\ l.list = local[h].list
      BY <1>1 DEF Locals
    <3> HIDE DEF l
    <3> QED BY <1>3, <1>5, <3>1, <3>2
  <2>2. CASE Asked(h) \notin DOMAIN lists
    BY <1>4, <1>5, <2>2 DEF FindList
  <2> QED BY <2>1, <2>2
<1>6. CASE FindBoard(h)
  <2> DEFINE l == [local[h] EXCEPT !.home = local[h].space]
  <2>1. l.op = local[h].op /\ l.card = local[h].card /\ l.list = local[h].list
    BY <1>1 DEF Locals
  <2>2. \/ Done(h)
        \/ Go(h, "list", l)
        \/ \E label \in {"count", "place", "move"} : Go(h, label, local[h])
    BY <1>6 DEF FindBoard
  <2> HIDE DEF l
  <2> QED BY <1>3, <1>4, <1>6, <2>1, <2>2
<1>7. CASE CountLists(h) \/ EnsureCount(h)
  <2>1. \/ Done(h)
        \/ CountLists(h) /\ Go(h, "remove", local[h])
        \/ EnsureCount(h) /\ Go(h, "seed", local[h])
    BY <1>7 DEF CountLists, EnsureCount
  <2> QED BY <1>3, <1>4, <2>1
<1>8. CASE Seed(h)
  <2> DEFINE l == [local[h] EXCEPT !.n = @ + 1]
  <2>1. l.op = local[h].op /\ l.card = local[h].card /\ l.list = local[h].list
    BY <1>1 DEF Locals
  <2>2. Done(h) \/ Go(h, "seed", l)
    BY <1>8 DEF Seed
  <2> HIDE DEF l
  <2> QED BY <1>3, <1>4, <2>1, <2>2
<1>9. CASE PlaceList(h) \/ PlaceCard(h)
  <2>1. PICK n : Go(h, "insert", [local[h] EXCEPT !.n = n])
    BY <1>9 DEF PlaceList, PlaceCard
  <2> DEFINE l == [local[h] EXCEPT !.n = n]
  <2>2. Go(h, "insert", l)
    BY <2>1
  <2>3. l.op = local[h].op /\ l.card = local[h].card /\ l.list = local[h].list
    BY <1>1 DEF Locals
  <2> HIDE DEF l
  <2> QED BY <1>3, <2>2, <2>3
<1>10. CASE ReadCard(h)
  <2> DEFINE patch == [local[h] EXCEPT !.was = cards[local[h].card].due]
             move == [local[h] EXCEPT !.from = cards[local[h].card].list]
  <2>1. /\ patch.op = local[h].op /\ patch.card = local[h].card /\ patch.list = local[h].list
        /\ move.op = local[h].op /\ move.card = local[h].card /\ move.list = local[h].list
    BY <1>1 DEF Locals
  <2>2. Done(h) \/ Go(h, "patch", patch) \/ Go(h, "list", move)
    BY <1>10 DEF ReadCard
  <2> HIDE DEF patch, move
  <2> QED BY <1>3, <1>4, <1>10, <2>1, <2>2
<1>11. CASE \/ DeleteList(h) \/ InsertList(h) \/ InsertCard(h) \/ PatchCard(h) \/ MoveCard(h)
            \/ Abandon(h)
  BY <1>4, <1>11 DEF DeleteList, InsertList, InsertCard, PatchCard, MoveCard, Abandon
<1> QED
  BY <1>5, <1>6, <1>7, <1>8, <1>9, <1>10, <1>11 DEF Step

\* A request that arrives is not yet at its patch or its removal.
LEMMA Arriving ==
  ASSUME IInv, NEW h \in Handlers, Request(h)
  PROVE  /\ UNCHANGED lists
         /\ \/ pc'[h] \notin {"patch", "remove"}
            \/ pc'[h] = pc[h] /\ local'[h] = local[h]
         /\ local'[h].op = "patch" =>
              \/ local'[h] = local[h]
              \/ "patch" \in Serves[h] /\ local'[h].card \in DOMAIN cards
         /\ local'[h].op = "remove list" =>
              \/ pc'[h] = pc[h] /\ local'[h] = local[h]
              \/ /\ pc'[h] = "list" /\ "remove list" \in Serves[h]
                 /\ local'[h].list \in DOMAIN lists
         /\ \A g \in Handlers \ {h} : pc'[g] = pc[g] /\ local'[g] = local[g]
<1> DEFINE Goal ==
      /\ UNCHANGED lists
      /\ \/ pc'[h] \notin {"patch", "remove"}
         \/ pc'[h] = pc[h] /\ local'[h] = local[h]
      /\ local'[h].op = "patch" =>
           \/ local'[h] = local[h]
           \/ "patch" \in Serves[h] /\ local'[h].card \in DOMAIN cards
      /\ local'[h].op = "remove list" =>
           \/ pc'[h] = pc[h] /\ local'[h] = local[h]
           \/ /\ pc'[h] = "list" /\ "remove list" \in Serves[h]
              /\ local'[h].list \in DOMAIN lists
      /\ \A g \in Handlers \ {h} : pc'[g] = pc[g] /\ local'[g] = local[g]
<1>1. pc \in [Handlers -> Labels] /\ local \in [Handlers -> Locals]
  BY DEF IInv, LocalsOK
<1>2. CASE \E c \in DOMAIN cards : RemoveCard(h, c)
  BY <1>2 DEF RemoveCard
<1>3. ASSUME NEW label, NEW l, Ask(h, label, l)
      PROVE  /\ UNCHANGED lists /\ pc'[h] = label /\ local'[h] = l /\ l.op \in Serves[h]
             /\ \A g \in Handlers \ {h} : pc'[g] = pc[g] /\ local'[g] = local[g]
  BY <1>1, <1>3 DEF Ask, Go, tables
<1>4. ASSUME NEW s, AskBoard(h, s) PROVE Goal
  <2> DEFINE l == [Nothing EXCEPT !.op = "look", !.space = s]
  <2>1. Ask(h, "board", l)
    BY <1>4 DEF AskBoard
  <2>2. l.op = "look"
    BY <1>4 DEF Nothing
  <2> HIDE DEF l
  <2>3. /\ UNCHANGED lists /\ pc'[h] \notin {"patch", "remove"}
        /\ local'[h] = l /\ l.op \in Serves[h]
        /\ \A g \in Handlers \ {h} : pc'[g] = pc[g] /\ local'[g] = local[g]
    BY <1>3, <2>1
  <2> QED BY <2>2, <2>3
<1>5. ASSUME NEW s, AskList(h, s) PROVE Goal
  <2> DEFINE l == [Nothing EXCEPT !.op = "new list", !.space = s]
  <2>1. Ask(h, "board", l)
    BY <1>5 DEF AskList
  <2>2. l.op = "new list"
    BY <1>5 DEF Nothing
  <2> HIDE DEF l
  <2>3. /\ UNCHANGED lists /\ pc'[h] \notin {"patch", "remove"}
        /\ local'[h] = l /\ l.op \in Serves[h]
        /\ \A g \in Handlers \ {h} : pc'[g] = pc[g] /\ local'[g] = local[g]
    BY <1>3, <2>1
  <2> QED BY <2>2, <2>3
<1>6. ASSUME NEW x \in DOMAIN lists, AskRemoval(h, x) PROVE Goal
  <2> DEFINE l == [Nothing EXCEPT !.op = "remove list", !.list = x]
  <2>1. Ask(h, "list", l)
    BY <1>6 DEF AskRemoval
  <2>2. l.op = "remove list" /\ l.list \in DOMAIN lists
    BY <1>6 DEF Nothing
  <2> HIDE DEF l
  <2>3. /\ UNCHANGED lists /\ pc'[h] = "list"
        /\ local'[h] = l /\ l.op \in Serves[h]
        /\ \A g \in Handlers \ {h} : pc'[g] = pc[g] /\ local'[g] = local[g]
    BY <1>3, <2>1
  <2> QED BY <2>2, <2>3
<1>7. ASSUME NEW x, AskCard(h, x) PROVE Goal
  <2> DEFINE l == [Nothing EXCEPT !.op = "new card", !.list = x]
  <2>1. Ask(h, "list", l)
    BY <1>7 DEF AskCard
  <2>2. l.op = "new card"
    BY <1>7 DEF Nothing
  <2> HIDE DEF l
  <2>3. /\ UNCHANGED lists /\ pc'[h] \notin {"patch", "remove"}
        /\ local'[h] = l /\ l.op \in Serves[h]
        /\ \A g \in Handlers \ {h} : pc'[g] = pc[g] /\ local'[g] = local[g]
    BY <1>3, <2>1
  <2> QED BY <2>2, <2>3
<1>8. ASSUME NEW c \in DOMAIN cards, NEW due, AskPatch(h, c, due) PROVE Goal
  <2> DEFINE l == [Nothing EXCEPT !.op = "patch", !.card = c, !.due = due]
  <2>1. Ask(h, "card", l)
    BY <1>8 DEF AskPatch
  <2>2. l.op = "patch" /\ l.card \in DOMAIN cards
    BY <1>8 DEF Nothing
  <2> HIDE DEF l
  <2>3. /\ UNCHANGED lists /\ pc'[h] \notin {"patch", "remove"}
        /\ local'[h] = l /\ l.op \in Serves[h]
        /\ \A g \in Handlers \ {h} : pc'[g] = pc[g] /\ local'[g] = local[g]
    BY <1>3, <2>1
  <2> QED BY <2>2, <2>3
<1>9. ASSUME NEW c, NEW x, NEW to, AskMove(h, c, x, to) PROVE Goal
  <2> DEFINE l == [Nothing EXCEPT !.op = "move", !.card = c, !.list = x, !.to = to]
  <2>1. Ask(h, "card", l)
    BY <1>9 DEF AskMove
  <2>2. l.op = "move"
    BY <1>9 DEF Nothing
  <2> HIDE DEF l
  <2>3. /\ UNCHANGED lists /\ pc'[h] \notin {"patch", "remove"}
        /\ local'[h] = l /\ l.op \in Serves[h]
        /\ \A g \in Handlers \ {h} : pc'[g] = pc[g] /\ local'[g] = local[g]
    BY <1>3, <2>1
  <2> QED BY <2>2, <2>3
<1> QED BY <1>2, <1>4, <1>5, <1>6, <1>7, <1>8, <1>9 DEF Request

-----------------------------------------------------------------------------
(***************************************************************************)
(* Due dates.  While one handler patches, what it read is still there when *)
(* it writes it back.                                                      *)
(***************************************************************************)
OnePatcher ==
  \A g, h \in Handlers : "patch" \in Serves[g] /\ "patch" \in Serves[h] => g = h

PatchFresh ==
  \A h \in Handlers :
     /\ local[h].op = "patch" => "patch" \in Serves[h] /\ local[h].card \in 1..(nextCard - 1)
     /\ pc[h] = "patch" =>
          /\ local[h].op = "patch"
          /\ local[h].card \in DOMAIN cards => local[h].was = cards[local[h].card].due

DueKept ==
  \A c \in DOMAIN cards' :
     \/ c \in DOMAIN cards /\ cards'[c].due = cards[c].due
     \/ c >= nextCard

\* Places are all that a move writes, besides the list.
LEMMA MovedKeepsDue ==
  ASSUME IInv, NEW l \in Locals,
         l.card \in DOMAIN cards => l.list \in DOMAIN lists
  PROVE  \A c \in DOMAIN cards : Moved(l)[c].due = cards[c].due
<1> DEFINE there == [c \in DOMAIN cards |-> IF c = l.card THEN [cards[c] EXCEPT !.list = l.list]
                                            ELSE cards[c]]
           placed == Placed(there, reordered(there, On(there, l.list), l.card, l.to))
           stayed == On(placed, l.from)
           closed == [c \in stayed |-> Rank(placed, stayed, c)]
<1>1. ASSUME NEW cs, NEW places, DOMAIN cs = DOMAIN cards,
             \A c \in DOMAIN cards : DOMAIN cs[c] = {"list", "pos", "due"}
      PROVE  /\ DOMAIN Placed(cs, places) = DOMAIN cards
             /\ \A c \in DOMAIN cards : /\ DOMAIN Placed(cs, places)[c] = {"list", "pos", "due"}
                                        /\ Placed(cs, places)[c].due = cs[c].due
  BY <1>1 DEF Placed
<1>2. \A c \in DOMAIN cards : DOMAIN cards[c] = {"list", "pos", "due"}
  BY DEF IInv, TablesOK, CardRows
<1>3. /\ DOMAIN there = DOMAIN cards
      /\ \A c \in DOMAIN cards : /\ DOMAIN there[c] = {"list", "pos", "due"}
                                 /\ there[c].due = cards[c].due
  BY <1>2
<1> HIDE DEF there
<1>4. /\ DOMAIN placed = DOMAIN cards
      /\ \A c \in DOMAIN cards : /\ DOMAIN placed[c] = {"list", "pos", "due"}
                                 /\ placed[c].due = there[c].due
  BY <1>1, <1>3
<1> HIDE DEF placed
<1>5. \A c \in DOMAIN cards : Placed(placed, closed)[c].due = placed[c].due
  BY <1>1, <1>4
<1>6. Moved(l) = Placed(placed, closed)
  BY DEF Moved, there, placed, stayed, closed
<1> QED BY <1>3, <1>4, <1>5, <1>6

LEMMA DueStep ==
  ASSUME IInv, [Next]_vars, \A h \in Handlers : ~PatchCard(h)
  PROVE  DueKept
<1>1. CASE UNCHANGED cards
  BY <1>1 DEF DueKept
<1>2. ASSUME NEW S, cards' = Only(cards, S), S \subseteq DOMAIN cards PROVE DueKept
  BY <1>2 DEF DueKept, Only
<1>3. CASE \E s \in Fickle : Switch(s) \/ RemoveSpace(s)
  <2>1. UNCHANGED cards \/ \E gone : DropLists(gone)
    BY <1>3 DEF Switch, RemoveSpace
  <2> QED BY <1>1, <1>2, <2>1 DEF DropLists
<1>4. ASSUME NEW h \in Handlers, Request(h) PROVE DueKept
  <2>1. UNCHANGED cards \/ \E c \in DOMAIN cards : cards' = Only(cards, (DOMAIN cards) \ {c})
    BY <1>4 DEF Request, RemoveCard, AskBoard, AskList, AskRemoval, AskCard, AskPatch, AskMove,
                Ask, tables
  <2> QED BY <1>1, <1>2, <2>1
<1>5. ASSUME NEW h \in Handlers, Step(h) PROVE DueKept
  <2>1. CASE DeleteList(h)
    BY <1>2, <2>1 DEF DeleteList, DropLists
  <2>2. CASE InsertCard(h)
    <3>1. \/ UNCHANGED cards
          \/ \E row : cards' = Insert(cards, nextCard, row)
      BY <2>2 DEF InsertCard
    <3>2. nextCard \in Nat /\ nextCard \notin DOMAIN cards
      BY DEF IInv, TablesOK
    <3> QED BY <1>1, <3>1, <3>2 DEF Insert, DueKept
  <2>3. CASE MoveCard(h)
    <3>1. local[h] \in Locals
      BY DEF IInv, LocalsOK
    <3>2. \/ UNCHANGED cards
          \/ /\ cards' = Moved(local[h])
             /\ local[h].card \in DOMAIN cards => local[h].list \in DOMAIN lists
      BY <2>3 DEF MoveCard
    <3>3. DOMAIN Moved(local[h]) = DOMAIN cards \/ UNCHANGED cards
      BY <3>1, <3>2, MovedTyped
    <3> QED BY <1>1, <3>1, <3>2, <3>3, MovedKeepsDue DEF DueKept
  <2>4. CASE \/ FindList(h) \/ FindBoard(h) \/ CountLists(h) \/ EnsureCount(h) \/ Seed(h)
             \/ PlaceList(h) \/ InsertList(h) \/ PlaceCard(h) \/ ReadCard(h) \/ Abandon(h)
    <3>1. UNCHANGED cards
      BY <2>4 DEF FindList, FindBoard, CountLists, EnsureCount, Seed, PlaceList, InsertList,
                  PlaceCard, ReadCard, Abandon, tables
    <3> QED BY <1>1, <3>1
  <2> QED BY <1>5, <2>1, <2>2, <2>3, <2>4 DEF Step
<1> QED BY <1>1, <1>3, <1>4, <1>5 DEF Next, vars

LEMMA FreshStep ==
  ASSUME IInv, OnePatcher, PatchFresh, [Next]_vars
  PROVE  PatchFresh'
<1>1. nextCard \in Nat /\ nextCard' \in Nat /\ nextCard' >= nextCard
  BY NextKeeps DEF Kept, IInv, TablesOK
<1>2. DOMAIN cards \subseteq 1..(nextCard - 1)
  BY DEF IInv, TablesOK
\* A handler that is left alone keeps what it read while no other patches.
<1>3. ASSUME NEW g \in Handlers, pc'[g] = pc[g], local'[g] = local[g],
             pc[g] = "patch" => DueKept
      PROVE  /\ local'[g].op = "patch" =>
                  "patch" \in Serves[g] /\ local'[g].card \in 1..(nextCard' - 1)
             /\ pc'[g] = "patch" =>
                  /\ local'[g].op = "patch"
                  /\ local'[g].card \in DOMAIN cards' =>
                        local'[g].was = cards'[local'[g].card].due
  BY <1>1, <1>2, <1>3 DEF PatchFresh, DueKept
<1>4. ASSUME NEW g \in Handlers, PatchCard(g) PROVE pc[g] = "patch" /\ pc'[g] = "idle"
  BY <1>4 DEF PatchCard, At, Done, Go, IInv, LocalsOK
\* Nobody else writes dates while g is at its patch.
<1>5. ASSUME NEW g \in Handlers, pc[g] = "patch", pc'[g] = "patch" PROVE DueKept
  <2>1. ASSUME NEW h \in Handlers, PatchCard(h) PROVE FALSE
    <3>1. pc[h] = "patch" /\ h # g
      BY <1>4, <1>5, <2>1
    <3> QED BY <1>5, <3>1 DEF PatchFresh, OnePatcher
  <2> QED BY <2>1, DueStep
<1>6. CASE UNCHANGED vars \/ \E s \in Fickle : Switch(s) \/ RemoveSpace(s)
  <2>1. UNCHANGED <<pc, local>>
    BY <1>6 DEF vars, Switch, RemoveSpace
  <2> QED BY <1>3, <1>5, <2>1 DEF PatchFresh
<1>7. ASSUME NEW h \in Handlers, Request(h) PROVE PatchFresh'
  <2>1. /\ \A g \in Handlers \ {h} : pc'[g] = pc[g] /\ local'[g] = local[g]
        /\ \/ pc'[h] # "patch"
           \/ pc'[h] = pc[h] /\ local'[h] = local[h]
        /\ local'[h].op = "patch" =>
              \/ local'[h] = local[h]
              \/ "patch" \in Serves[h] /\ local'[h].card \in DOMAIN cards
    BY <1>7, Arriving
  <2>2. ASSUME NEW g \in Handlers \ {h}
        PROVE  /\ local'[g].op = "patch" =>
                    "patch" \in Serves[g] /\ local'[g].card \in 1..(nextCard' - 1)
               /\ pc'[g] = "patch" =>
                    /\ local'[g].op = "patch"
                    /\ local'[g].card \in DOMAIN cards' =>
                          local'[g].was = cards'[local'[g].card].due
    BY <1>3, <1>5, <2>1
  <2>3. local'[h].op = "patch" =>
           "patch" \in Serves[h] /\ local'[h].card \in 1..(nextCard' - 1)
    BY <1>1, <1>2, <2>1 DEF PatchFresh
  <2>4. pc'[h] = "patch" => /\ local'[h].op = "patch"
                            /\ local'[h].card \in DOMAIN cards' =>
                                  local'[h].was = cards'[local'[h].card].due
    BY <1>3, <1>5, <2>1
  <2> QED BY <2>2, <2>3, <2>4 DEF PatchFresh
<1>8. ASSUME NEW h \in Handlers, Step(h) PROVE PatchFresh'
  <2>1. /\ HoldsOn(h) \/ Idles(h)
        /\ \A g \in Handlers \ {h} : pc'[g] = pc[g] /\ local'[g] = local[g]
    BY <1>8, Holding
  <2>2. ASSUME NEW g \in Handlers \ {h}
        PROVE  /\ local'[g].op = "patch" =>
                    "patch" \in Serves[g] /\ local'[g].card \in 1..(nextCard' - 1)
               /\ pc'[g] = "patch" =>
                    /\ local'[g].op = "patch"
                    /\ local'[g].card \in DOMAIN cards' =>
                          local'[g].was = cards'[local'[g].card].due
    BY <1>3, <1>5, <2>1
  <2>3. local'[h].op = "patch" =>
           "patch" \in Serves[h] /\ local'[h].card \in 1..(nextCard' - 1)
    BY <1>1, <2>1, NothingTyped DEF PatchFresh, HoldsOn, Idles
  <2>4. ASSUME pc'[h] = "patch"
        PROVE  /\ local'[h].op = "patch"
               /\ local'[h].card \in DOMAIN cards' =>
                     local'[h].was = cards'[local'[h].card].due
    <3>1. ReadCard(h)
      BY <2>1, <2>4 DEF HoldsOn, Idles
    <3>2. /\ local[h].op = "patch" /\ local[h].card \in DOMAIN cards
          /\ local'[h] = [local[h] EXCEPT !.was = cards[local[h].card].due]
          /\ UNCHANGED cards
      BY <2>4, <3>1 DEF ReadCard, Go, Done, IInv, LocalsOK, tables
    <3>3. local[h] \in Locals
      BY DEF IInv, LocalsOK
    <3> QED BY <3>2, <3>3 DEF Locals
  <2> QED BY <2>2, <2>3, <2>4 DEF PatchFresh
<1> QED BY <1>6, <1>7, <1>8 DEF Next

\* A patch that leaves the due date out keeps it, while one handler patches.
THEOREM LeftOutIsKept == ASSUME OnePatcher PROVE Spec => LeftOutKept
<1>1. Init => PatchFresh
  BY NothingTyped DEF Init, PatchFresh
<1>2. IInv /\ PatchFresh /\ [Next]_vars => PatchFresh'
  BY FreshStep
<1>3. IInv /\ PatchFresh /\ [Next]_vars =>
        [\A c \in DOMAIN cards \cap DOMAIN cards' :
           cards'[c].due # cards[c].due =>
             \E h \in Handlers : At(h, "patch") /\ local[h].card = c /\ local[h].due # Left]_vars
  <2> SUFFICES ASSUME IInv, PatchFresh, [Next]_vars, NEW c \in DOMAIN cards \cap DOMAIN cards',
                      cards'[c].due # cards[c].due
               PROVE  \E h \in Handlers :
                         At(h, "patch") /\ local[h].card = c /\ local[h].due # Left
    OBVIOUS
  <2>1. c \in 1..(nextCard - 1)
    BY DEF IInv, TablesOK
  <2>2. PICK h \in Handlers : PatchCard(h)
    BY <2>1, DueStep DEF DueKept, IInv, TablesOK
  <2>3. cards[c] \in CardRows(lists)
    BY DEF IInv, TablesOK
  <2> DEFINE due == IF local[h].due = Left THEN local[h].was ELSE local[h].due
  <2>4. cards'[c] = IF c = local[h].card THEN [cards[c] EXCEPT !.due = due] ELSE cards[c]
    BY <2>2 DEF PatchCard
  <2>5. c = local[h].card /\ cards'[c].due = due
    BY <2>3, <2>4 DEF CardRows
  <2>6. At(h, "patch") /\ local[h].due # Left
    BY <2>2, <2>5 DEF PatchCard, At, PatchFresh
  <2> QED BY <2>5, <2>6
<1> QED BY <1>1, <1>2, <1>3, Inductive, PTL DEF Spec, LeftOutKept

-----------------------------------------------------------------------------
(***************************************************************************)
(* The last list.  While one handler removes lists, the other list that it *)
(* counted is there when it deletes, or the whole space has gone.          *)
(***************************************************************************)
OneRemover ==
  \A g, h \in Handlers :
     "remove list" \in Serves[g] /\ "remove list" \in Serves[h] => g = h

\* What a removal has learnt of its list, at each statement.
RemovalKnows(h) ==
  LET l == local[h]
  IN  /\ l.op = "remove list" =>
           /\ "remove list" \in Serves[h] /\ l.list \in 1..(nextList - 1)
           /\ pc[h] \in {"board", "count", "remove"} /\ l.list \in DOMAIN lists =>
                lists[l.list].space = l.space
      /\ pc[h] = "remove" =>
           /\ l.op = "remove list"
           /\ l.space \in spaces => \E x \in DOMAIN lists : x # l.list /\ lists[x].space = l.space

RemovalInv == \A h \in Handlers : RemovalKnows(h)

\* A list goes with its space, or because it was asked for.
LEMMA ListsStep ==
  ASSUME IInv, [Next]_vars, \A h \in Handlers : ~DeleteList(h)
  PROVE  /\ spaces' \subseteq spaces
         /\ \A l \in DOMAIN lists : lists[l].space \in spaces' =>
              l \in DOMAIN lists' /\ lists'[l].space = lists[l].space
<1> DEFINE Goal == /\ spaces' \subseteq spaces
                   /\ \A l \in DOMAIN lists : lists[l].space \in spaces' =>
                        l \in DOMAIN lists' /\ lists'[l].space = lists[l].space
<1>1. CASE UNCHANGED <<spaces, lists>>
  BY <1>1
<1>2. ASSUME NEW s \in Fickle, RemoveSpace(s) PROVE Goal
  BY <1>2 DEF RemoveSpace, DropLists, Only, ListsOf
<1>3. ASSUME NEW s \in Fickle, Switch(s) PROVE Goal
  BY <1>1, <1>3 DEF Switch
<1>4. ASSUME NEW h \in Handlers, Request(h) PROVE Goal
  <2>1. UNCHANGED <<spaces, lists>>
    BY <1>4 DEF Request, RemoveCard, AskBoard, AskList, AskRemoval, AskCard, AskPatch, AskMove,
                Ask, tables
  <2> QED BY <1>1, <2>1
<1>5. ASSUME NEW h \in Handlers, Step(h) PROVE Goal
  <2>1. CASE Seed(h) \/ InsertList(h)
    <3>1. UNCHANGED spaces /\ \E n : AddList(h, n)
      BY <2>1 DEF Seed, InsertList
    <3>2. nextList \notin DOMAIN lists
      BY DEF IInv, TablesOK
    <3> QED BY <3>1, <3>2 DEF AddList, Insert
  <2>2. CASE ~(Seed(h) \/ InsertList(h))
    <3>1. UNCHANGED <<spaces, lists>>
      BY <1>5, <2>2 DEF Step, FindList, FindBoard, CountLists, EnsureCount,
                  PlaceList, PlaceCard, InsertCard, ReadCard, PatchCard, MoveCard, Abandon, tables
    <3> QED BY <1>1, <3>1
  <2> QED BY <2>1, <2>2
<1> QED BY <1>1, <1>2, <1>3, <1>4, <1>5 DEF Next, vars

LEMMA RemovalStep ==
  ASSUME IInv, OneRemover, RemovalInv, [Next]_vars
  PROVE  RemovalInv'
<1>1. nextList \in Nat /\ nextList' \in Nat /\ nextList' >= nextList
  BY NextKeeps DEF Kept, IInv, TablesOK
<1>2. /\ DOMAIN lists \subseteq 1..(nextList - 1)
      /\ \A x \in 1..(nextList - 1) : x < nextList /\ x \in 1..(nextList' - 1)
  BY <1>1 DEF IInv, TablesOK
<1>3. \A l \in DOMAIN lists' : l < nextList =>
         l \in DOMAIN lists /\ lists'[l].space = lists[l].space
  BY <1>1, NextKeeps DEF Kept, IInv, TablesOK
<1>4. ASSUME NEW g \in Handlers, DeleteList(g) PROVE pc[g] = "remove" /\ pc'[g] = "idle"
  BY <1>4 DEF DeleteList, At, Done, Go, IInv, LocalsOK
\* Nobody else deletes a list while g is at its own.
<1>5. ASSUME NEW g \in Handlers, pc[g] = "remove", pc'[g] = "remove", local'[g] = local[g]
      PROVE  local[g].space \in spaces' =>
                \E x \in DOMAIN lists' : x # local[g].list /\ lists'[x].space = local[g].space
  <2>1. ASSUME NEW h \in Handlers, DeleteList(h) PROVE FALSE
    <3>1. pc[h] = "remove" /\ h # g
      BY <1>4, <1>5, <2>1
    <3> QED BY <1>5, <3>1 DEF RemovalInv, RemovalKnows, OneRemover
  <2>2. /\ spaces' \subseteq spaces
        /\ \A l \in DOMAIN lists : lists[l].space \in spaces' =>
              l \in DOMAIN lists' /\ lists'[l].space = lists[l].space
    BY <2>1, ListsStep
  <2> QED BY <1>5, <2>2 DEF RemovalInv, RemovalKnows
<1>6. ASSUME NEW g \in Handlers, pc'[g] = pc[g], local'[g] = local[g] PROVE RemovalKnows(g)'
  <2>1. local[g].op = "remove list" =>
           /\ "remove list" \in Serves[g] /\ local[g].list \in 1..(nextList' - 1)
           /\ pc[g] \in {"board", "count", "remove"} /\ local[g].list \in DOMAIN lists' =>
                lists'[local[g].list].space = local[g].space
    BY <1>2, <1>3 DEF RemovalInv, RemovalKnows
  <2>2. pc[g] = "remove" => local[g].op = "remove list"
    BY DEF RemovalInv, RemovalKnows
  <2> QED BY <1>5, <1>6, <2>1, <2>2 DEF RemovalKnows
<1>7. CASE UNCHANGED vars \/ \E s \in Fickle : Switch(s) \/ RemoveSpace(s)
  <2>1. UNCHANGED <<pc, local>>
    BY <1>7 DEF vars, Switch, RemoveSpace
  <2> QED BY <1>6, <2>1 DEF RemovalInv
<1>8. ASSUME NEW h \in Handlers, Request(h) PROVE RemovalInv'
  <2>1. /\ UNCHANGED lists
        /\ \/ pc'[h] \notin {"patch", "remove"}
           \/ pc'[h] = pc[h] /\ local'[h] = local[h]
        /\ local'[h].op = "remove list" =>
              \/ pc'[h] = pc[h] /\ local'[h] = local[h]
              \/ /\ pc'[h] = "list" /\ "remove list" \in Serves[h]
                 /\ local'[h].list \in DOMAIN lists
        /\ \A g \in Handlers \ {h} : pc'[g] = pc[g] /\ local'[g] = local[g]
    BY <1>8, Arriving
  <2>2. \A g \in Handlers \ {h} : RemovalKnows(g)'
    BY <1>6, <2>1
  <2>3. CASE pc'[h] = pc[h] /\ local'[h] = local[h]
    BY <1>6, <2>2, <2>3 DEF RemovalInv
  <2>4. CASE ~(pc'[h] = pc[h] /\ local'[h] = local[h])
    <3>1. pc'[h] # "remove" /\ (local'[h].op = "remove list" =>
              /\ pc'[h] = "list" /\ "remove list" \in Serves[h]
              /\ local'[h].list \in 1..(nextList' - 1))
      BY <1>2, <2>1, <2>4
    <3>2. RemovalKnows(h)'
      BY <3>1 DEF RemovalKnows
    <3> QED BY <2>2, <3>2 DEF RemovalInv
  <2> QED BY <2>3, <2>4
<1>9. ASSUME NEW h \in Handlers, Step(h) PROVE RemovalInv'
  <2>1. /\ HoldsOn(h) \/ Idles(h)
        /\ \A g \in Handlers \ {h} : pc'[g] = pc[g] /\ local'[g] = local[g]
    BY <1>9, Holding
  <2>2. \A g \in Handlers \ {h} : RemovalKnows(g)'
    BY <1>6, <2>1
  <2>3. CASE Idles(h)
    BY <2>2, <2>3, NothingTyped DEF RemovalInv, RemovalKnows, Idles
  <2>4. CASE HoldsOn(h)
    <3>1. local'[h].op = "remove list" =>
            "remove list" \in Serves[h] /\ local'[h].list \in 1..(nextList' - 1)
      BY <1>2, <2>4 DEF RemovalInv, RemovalKnows, HoldsOn
    <3>2. local[h] \in Locals /\ pc \in [Handlers -> Labels] /\ local \in [Handlers -> Locals]
      BY DEF IInv, LocalsOK
    <3>3. ASSUME pc'[h] = "board", local'[h].op = "remove list"
          PROVE  /\ UNCHANGED <<lists, spaces>>
                 /\ local'[h].space = lists[local'[h].list].space
      <4>1. FindList(h) /\ local[h].op = "remove list"
        BY <2>4, <3>3 DEF HoldsOn
      <4>2. Asked(h) = local[h].list
        BY <4>1 DEF Asked
      <4>3. /\ UNCHANGED <<lists, spaces>>
            /\ local'[h] = [local[h] EXCEPT !.space = lists[local[h].list].space]
        BY <3>2, <3>3, <4>1, <4>2 DEF FindList, Go, Done, tables
      <4> QED BY <3>2, <4>3 DEF Locals
    <3>4. ASSUME pc'[h] = "count", local'[h].op = "remove list"
          PROVE  UNCHANGED <<lists, spaces>> /\ local'[h] = local[h] /\ pc[h] = "board"
      <4>1. FindBoard(h) /\ local[h].op = "remove list"
        BY <2>4, <3>4 DEF HoldsOn
      <4> QED BY <3>2, <3>4, <4>1 DEF FindBoard, Go, Done, tables, At
    <3>5. ASSUME pc'[h] = "remove"
          PROVE  /\ UNCHANGED <<lists, spaces>> /\ local'[h] = local[h] /\ pc[h] = "count"
                 /\ local[h].op = "remove list"
                 /\ \E x \in DOMAIN lists : x # local[h].list /\ lists[x].space = local[h].space
      <4>1. CountLists(h)
        BY <2>4, <3>5 DEF HoldsOn
      <4>2. /\ UNCHANGED <<lists, spaces>> /\ local'[h] = local[h] /\ pc[h] = "count"
            /\ local[h].op = "remove list" /\ ~(Cardinality(ListsOf(local[h].space)) <= 1)
        BY <3>2, <3>5, <4>1 DEF CountLists, Go, Done, tables, At
      <4>3. ASSUME ListsOf(local[h].space) \subseteq {local[h].list} PROVE FALSE
        <5>1. IsFiniteSet({local[h].list}) /\ Cardinality({local[h].list}) = 1
          BY FS_Singleton
        <5> QED BY <4>2, <4>3, <5>1, FS_Subset
      <4> QED BY <4>2, <4>3 DEF ListsOf
    <3>6. RemovalKnows(h)'
      BY <3>1, <3>3, <3>4, <3>5 DEF RemovalInv, RemovalKnows
    <3> QED BY <2>2, <3>6 DEF RemovalInv
  <2> QED BY <2>1, <2>3, <2>4
<1> QED BY <1>7, <1>8, <1>9 DEF Next

\* A board keeps one list, or there is nowhere left to put a card, while one
\* handler removes lists.
THEOREM OneListStays == ASSUME OneRemover PROVE Spec => KeepsOneList
<1>1. Init => RemovalInv
  BY NothingTyped DEF Init, RemovalInv, RemovalKnows
<1>2. IInv /\ RemovalInv /\ [Next]_vars => RemovalInv'
  BY RemovalStep
<1>3. IInv /\ RemovalInv /\ [Next]_vars =>
        [\A s \in spaces \cap spaces' : ListsOf(s) # {} => ListsOf(s)' # {}]_vars
  <2> SUFFICES ASSUME IInv, RemovalInv, [Next]_vars, NEW s \in spaces \cap spaces',
                      NEW l \in DOMAIN lists, lists[l].space = s
               PROVE  \E x \in DOMAIN lists' : lists'[x].space = s
    BY DEF ListsOf
  <2>1. CASE \E h \in Handlers : DeleteList(h)
    <3>1. PICK h \in Handlers : DeleteList(h)
      BY <2>1
    <3>2. pc[h] = "remove" /\ DropLists({local[h].list})
      BY <3>1 DEF DeleteList, At
    <3>3. /\ local[h].list \in DOMAIN lists => lists[local[h].list].space = local[h].space
          /\ local[h].space \in spaces =>
               \E x \in DOMAIN lists : x # local[h].list /\ lists[x].space = local[h].space
      BY <3>2 DEF RemovalInv, RemovalKnows
    <3>4. PICK x \in DOMAIN lists : x # local[h].list /\ lists[x].space = s
      BY <3>3
    <3> QED BY <3>2, <3>4 DEF DropLists, Only
  <2>2. CASE ~(\E h \in Handlers : DeleteList(h))
    BY <2>2, ListsStep
  <2> QED BY <2>1, <2>2
<1> QED BY <1>1, <1>2, <1>3, Inductive, PTL DEF Spec, KeepsOneList

-----------------------------------------------------------------------------
(***************************************************************************)
(* Order.  Position and id order the cards of a list strictly, repeated    *)
(* positions and holes or not, so that the ranks of n cards are the places *)
(* 0 to n - 1.                                                             *)
(***************************************************************************)
Ordered(cs, S) == /\ IsFiniteSet(S)
                  /\ \A x \in S : x \in Nat /\ cs[x].pos \in Nat

LEMMA RankMonotone ==
  ASSUME NEW cs, NEW S, Ordered(cs, S), NEW x \in S, NEW y \in S, Ahead(cs, x, y)
  PROVE  Rank(cs, S, x) \in Nat /\ Rank(cs, S, y) \in Nat /\ Rank(cs, S, x) < Rank(cs, S, y)
<1> DEFINE A == {z \in S : Ahead(cs, z, x)}
           B == {z \in S : Ahead(cs, z, y)}
<1>1. A \subseteq B /\ x \in B /\ x \notin A
  BY DEF Ahead, Ordered
<1>2. IsFiniteSet(B) /\ IsFiniteSet(A)
  BY FS_Subset DEF Ordered
<1>3. Cardinality(A) \in Nat /\ Cardinality(B) \in Nat
  BY <1>2, FS_CardinalityType
<1>4. Cardinality(A) <= Cardinality(B) /\ Cardinality(A) # Cardinality(B)
  BY <1>1, <1>2, FS_Subset
<1> QED BY <1>3, <1>4 DEF Rank

LEMMA RankBelow ==
  ASSUME NEW cs, NEW S, Ordered(cs, S), NEW x \in S
  PROVE  Rank(cs, S, x) \in Nat /\ Cardinality(S) \in Nat /\ Rank(cs, S, x) < Cardinality(S)
<1> DEFINE A == {z \in S : Ahead(cs, z, x)}
<1>1. x \notin A /\ A \subseteq S
  BY DEF Ahead, Ordered
<1>2. IsFiniteSet(S) /\ IsFiniteSet(A)
  BY FS_Subset DEF Ordered
<1>3. Cardinality(A) \in Nat /\ Cardinality(S) \in Nat
  BY <1>2, FS_CardinalityType
<1>4. Cardinality(A) <= Cardinality(S) /\ Cardinality(A) # Cardinality(S)
  BY <1>1, <1>2, FS_Subset
<1> QED BY <1>3, <1>4 DEF Rank

LEMMA OneFirst ==
  ASSUME NEW cs, NEW S, Ordered(cs, S), NEW x \in S, NEW y \in S, x # y
  PROVE  Ahead(cs, x, y) \/ Ahead(cs, y, x)
  BY DEF Ahead, Ordered

\* The n ranks are the places from 0 on, so m of them, or all, are below m.
LEMMA RanksBelow ==
  ASSUME NEW cs, NEW S, Ordered(cs, S), NEW m \in Nat
  PROVE  Cardinality({x \in S : Rank(cs, S, x) < m}) = Smaller(m, Cardinality(S))
<1> DEFINE n == Cardinality(S)
           f == [x \in S |-> Rank(cs, S, x)]
           low == {x \in S : Rank(cs, S, x) < m}
           k == Smaller(m, n)
           g == [x \in low |-> Rank(cs, S, x)]
<1>1. IsFiniteSet(S) /\ n \in Nat
  BY FS_CardinalityType DEF Ordered
<1>2. ASSUME NEW j \in Nat PROVE IsFiniteSet(0..(j - 1)) /\ Cardinality(0..(j - 1)) = j
  <2>1. 0 \in Int /\ j - 1 \in Int
    OBVIOUS
  <2>2. IsFiniteSet(0..(j - 1)) /\ Cardinality(0..(j - 1)) = IF 0 > j - 1 THEN 0 ELSE (j - 1) - 0 + 1
    BY <2>1, FS_Interval
  <2> QED BY <2>2
<1>3. \A x \in S : Rank(cs, S, x) \in Nat /\ Rank(cs, S, x) < n
  BY RankBelow
<1> HIDE DEF n
<1>4. f \in [S -> 0..(n - 1)]
  BY <1>1, <1>3
<1>5. \A x, y \in S : x # y => f[x] # f[y]
  BY OneFirst, RankMonotone
<1>6. f \in Injection(S, 0..(n - 1))
  BY <1>4, <1>5 DEF Injection, IsInjective
<1>7. f \in Surjection(S, 0..(n - 1))
  BY <1>1, <1>2, <1>6, FS_Injection DEF n
<1>8. k \in Nat /\ \A j \in Nat : j < k <=> j < m /\ j < n
  BY <1>1 DEF Smaller
<1> HIDE DEF k
<1>9. g \in [low -> 0..(k - 1)]
  BY <1>3, <1>8
<1>10. \A x, y \in low : x # y => g[x] # g[y]
  BY <1>5
<1>11. \A j \in 0..(k - 1) : \E x \in low : g[x] = j
  <2> SUFFICES ASSUME NEW j \in 0..(k - 1) PROVE \E x \in low : g[x] = j
    OBVIOUS
  <2>1. j \in Nat /\ j < m /\ j \in 0..(n - 1)
    BY <1>1, <1>8
  <2>2. PICK x \in S : f[x] = j
    BY <1>7, <2>1 DEF Surjection
  <2> QED BY <2>1, <2>2
<1>12. g \in Bijection(low, 0..(k - 1))
  BY <1>9, <1>10, <1>11 DEF Bijection, Injection, Surjection, IsInjective
<1>13. IsFiniteSet(low)
  BY <1>1, FS_Subset
<1>14. Cardinality(low) = k
  <2>1. ExistsBijection(low, 0..(k - 1))
    BY <1>12 DEF ExistsBijection
  <2> QED BY <1>2, <1>8, <1>13, <2>1, FS_Bijection
<1> QED BY <1>14 DEF k, n

CardTable(cs) == cs \in [DOMAIN cs -> [list : Nat, pos : Nat, due : Dates]]

LEMMA PlacedAt ==
  ASSUME NEW cs, CardTable(cs), NEW places, \A c \in DOMAIN places : places[c] \in Nat
  PROVE  /\ CardTable(Placed(cs, places)) /\ DOMAIN Placed(cs, places) = DOMAIN cs
         /\ \A c \in DOMAIN cs :
              /\ Placed(cs, places)[c].list = cs[c].list
              /\ Placed(cs, places)[c].pos = IF c \in DOMAIN places THEN places[c] ELSE cs[c].pos
<1> SUFFICES ASSUME NEW c \in DOMAIN cs
             PROVE  /\ Placed(cs, places)[c] \in [list : Nat, pos : Nat, due : Dates]
                    /\ Placed(cs, places)[c].list = cs[c].list
                    /\ Placed(cs, places)[c].pos
                         = IF c \in DOMAIN places THEN places[c] ELSE cs[c].pos
  BY DEF Placed, CardTable
<1>1. cs[c] \in [list : Nat, pos : Nat, due : Dates]
  BY DEF CardTable
<1>2. CASE c \in DOMAIN places
  <2>1. Placed(cs, places)[c] = [cs[c] EXCEPT !.pos = places[c]] /\ places[c] \in Nat
    BY <1>2 DEF Placed
  <2> QED BY <1>1, <1>2, <2>1
<1>3. CASE c \notin DOMAIN places
  BY <1>1, <1>3 DEF Placed
<1> QED BY <1>2, <1>3

\* The places a list is given, of the others by their ranks without the card.
LEMMA PlacesTyped ==
  ASSUME NEW cs, NEW S, Ordered(cs, S), NEW card, NEW to \in Nat
  PROVE  LET rest == S \ {card}
         IN  /\ Ordered(cs, rest) /\ Cardinality(rest) \in Nat
             /\ \A c \in rest :
                  Rank(cs, rest, c) \in Nat /\ Rank(cs, rest, c) < Cardinality(rest)
             /\ \A c \in S \cup {card} : reordered(cs, S, card, to)[c] \in Nat
<1> DEFINE rest == S \ {card}
           places == reordered(cs, S, card, to)
<1>1. IsFiniteSet(rest) /\ Ordered(cs, rest)
  BY FS_Subset DEF Ordered
<1>2. /\ Cardinality(rest) \in Nat
      /\ \A c \in rest : Rank(cs, rest, c) \in Nat /\ Rank(cs, rest, c) < Cardinality(rest)
  BY <1>1, RankBelow, FS_CardinalityType
<1> HIDE DEF rest
<1>3. places = [c \in S \cup {card} |->
                  IF c = card THEN Smaller(to, Cardinality(rest))
                  ELSE LET r == Rank(cs, rest, c) IN IF r < to THEN r ELSE r + 1]
  BY DEF reordered, rest
<1>4. \A c \in rest : c \in S \cup {card} /\ c # card
  BY DEF rest
<1> HIDE DEF places
<1>5. /\ DOMAIN places = S \cup {card} /\ places[card] = Smaller(to, Cardinality(rest))
      /\ \A c \in rest : places[c] = IF Rank(cs, rest, c) < to THEN Rank(cs, rest, c)
                                      ELSE Rank(cs, rest, c) + 1
  BY <1>3, <1>4
<1>6. \A c \in rest : places[c] \in Nat
  BY <1>2, <1>5
<1>7. places[card] \in Nat
  BY <1>2, <1>5 DEF Smaller
<1>8. \A c \in S \cup {card} : c \in rest \/ c = card
  BY DEF rest
<1> QED BY <1>1, <1>2, <1>6, <1>7, <1>8 DEF rest, places

\* The card lands at its place among the others, which keep their order.
LEMMA Landing ==
  ASSUME NEW cs, CardTable(cs), NEW S \in SUBSET DOMAIN cs, Ordered(cs, S), NEW card, NEW to \in Nat
  PROVE  LET cs2 == Placed(cs, reordered(cs, S, card, to))
         IN  /\ \A x, y \in S \ {card} : Ahead(cs, x, y) => Ahead(cs2, x, y)
             /\ card \in S => Rank(cs2, S, card) = Smaller(to, Cardinality(S \ {card}))
<1> DEFINE rest == S \ {card}
           n == Cardinality(rest)
           rank(c) == Rank(cs, rest, c)
           places == reordered(cs, S, card, to)
           cs2 == Placed(cs, places)
<1>1. /\ Ordered(cs, rest) /\ n \in Nat
      /\ \A c \in rest : rank(c) \in Nat /\ rank(c) < n
  BY PlacesTyped
<1>a. /\ DOMAIN places = S \cup {card} /\ places[card] = Smaller(to, n)
      /\ \A c \in rest : places[c] = IF rank(c) < to THEN rank(c) ELSE rank(c) + 1
      /\ \A c \in S \cup {card} : places[c] \in Nat
  <2> HIDE DEF rest, n, rank
  <2>1. places = [c \in S \cup {card} |->
                   IF c = card THEN Smaller(to, n)
                   ELSE LET r == rank(c) IN IF r < to THEN r ELSE r + 1]
    BY DEF reordered, rest, n, rank
  <2>2. \A c \in rest : c \in S \cup {card} /\ c # card
    BY DEF rest
  <2>3. \A c \in S \cup {card} : places[c] \in Nat
    BY PlacesTyped
  <2> HIDE DEF places
  <2> QED BY <2>1, <2>2, <2>3
<1> HIDE DEF places
<1>b. \A c \in DOMAIN cs : cs2[c].pos = IF c \in DOMAIN places THEN places[c] ELSE cs[c].pos
  BY <1>a, PlacedAt
<1> HIDE DEF cs2
<1>2. \A c \in rest : cs2[c].pos = IF rank(c) < to THEN rank(c) ELSE rank(c) + 1
  BY <1>a, <1>b
<1>3. card \in S => cs2[card].pos = Smaller(to, n)
  BY <1>a, <1>b
<1>4. ASSUME NEW x \in rest, NEW y \in rest, Ahead(cs, x, y)
      PROVE  Ahead(cs2, x, y)
  <2>1. rank(x) < rank(y)
    BY <1>1, <1>4, RankMonotone
  <2> HIDE DEF rank
  <2> QED BY <1>1, <1>2, <2>1 DEF Ahead
<1>5. ASSUME card \in S
      PROVE  Rank(cs2, S, card) = Smaller(to, n)
  <2>1. Cardinality({x \in rest : rank(x) < to}) = Smaller(to, n)
    BY <1>1, RanksBelow
  <2> HIDE DEF rank, n
  <2>2. ~Ahead(cs2, card, card)
    BY <1>1, <1>3, <1>5 DEF Ahead, Smaller, Ordered
  <2>3. ASSUME NEW x \in rest PROVE Ahead(cs2, x, card) <=> rank(x) < to
    BY <1>1, <1>2, <1>3, <1>5 DEF Ahead, Smaller
  <2>4. {x \in S : Ahead(cs2, x, card)} = {x \in rest : rank(x) < to}
    BY <2>2, <2>3
  <2> QED BY <2>1, <2>4 DEF Rank
<1> QED BY <1>4, <1>5 DEF cs2, places

\* Closing the holes of a list changes no order.
LEMMA Closing ==
  ASSUME NEW cs, CardTable(cs), NEW S \in SUBSET DOMAIN cs, Ordered(cs, S),
         NEW x \in S, NEW y \in S
  PROVE  LET closed == Placed(cs, [c \in S |-> Rank(cs, S, c)])
         IN  Ahead(closed, x, y) <=> Ahead(cs, x, y)
<1> DEFINE closed == Placed(cs, [c \in S |-> Rank(cs, S, c)])
<1> SUFFICES Ahead(closed, x, y) <=> Ahead(cs, x, y)
  OBVIOUS
<1>1. \A c \in S : Rank(cs, S, c) \in Nat
  BY RankBelow
<1>2. closed[x].pos = Rank(cs, S, x) /\ closed[y].pos = Rank(cs, S, y)
  BY <1>1, PlacedAt
<1> HIDE DEF closed
<1>3. x \in Nat /\ y \in Nat /\ cs[x].pos \in Nat /\ cs[y].pos \in Nat
  BY DEF Ordered
<1>4. CASE Ahead(cs, x, y)
  BY <1>1, <1>2, <1>4, RankMonotone DEF Ahead
<1>5. CASE Ahead(cs, y, x)
  <2>1. Rank(cs, S, y) < Rank(cs, S, x)
    BY <1>5, RankMonotone
  <2> QED BY <1>1, <1>2, <1>3, <1>5, <2>1 DEF Ahead
<1>6. CASE x = y
  BY <1>1, <1>2, <1>3, <1>6 DEF Ahead
<1> QED BY <1>4, <1>5, <1>6, OneFirst

\* The transaction: first the list the card goes to, then the one it was read on.
LEMMA MovedLands ==
  ASSUME IInv, NEW l \in Locals, l.card \in DOMAIN cards => l.list \in DOMAIN lists
  PROVE  LET target == On(Moved(l), l.list)
         IN  /\ l.card \in DOMAIN cards =>
                  Rank(Moved(l), target, l.card) = Smaller(l.to, Cardinality(target \ {l.card}))
             /\ \A x, y \in (DOMAIN cards) \ {l.card} :
                  cards[x].list = cards[y].list /\ Ahead(cards, x, y) => Ahead(Moved(l), x, y)
<1> DEFINE there == [c \in DOMAIN cards |-> IF c = l.card THEN [cards[c] EXCEPT !.list = l.list]
                                            ELSE cards[c]]
           S == On(there, l.list)
           places == reordered(there, S, l.card, l.to)
           placed == Placed(there, places)
           stayed == On(placed, l.from)
           moved == Placed(placed, [c \in stayed |-> Rank(placed, stayed, c)])
           card == l.card
           D == DOMAIN cards
<1>1. Moved(l) = moved
  BY DEF Moved
<1>2. l.to \in Nat /\ l.list \in Nat
  BY DEF Locals
<1>3. /\ CardTable(there) /\ DOMAIN there = D
      /\ card \in D => there[card].list = l.list
      /\ \A c \in D \ {card} : there[c] = cards[c]
  <2>1. \A c \in D : cards[c] \in [list : Nat, pos : Nat, due : Dates]
    BY DEF IInv, TablesOK, CardRows
  <2>2. \A c \in D : there[c] \in [list : Nat, pos : Nat, due : Dates]
    BY <1>2, <2>1
  <2>3. card \in D => there[card].list = l.list
    BY <2>1
  <2> QED BY <2>2, <2>3 DEF CardTable
<1>4. ASSUME NEW cs, CardTable(cs), DOMAIN cs = D, NEW T \in SUBSET D PROVE Ordered(cs, T)
  <2>1. IsFiniteSet(1..(nextCard - 1))
    <3>1. 1 \in Int /\ nextCard - 1 \in Int
      BY DEF IInv, TablesOK
    <3> QED BY <3>1, FS_Interval
  <2>2. T \subseteq 1..(nextCard - 1)
    BY DEF IInv, TablesOK
  <2>3. IsFiniteSet(T)
    BY <2>1, <2>2, FS_Subset
  <2>4. \A c \in T : c \in Nat
    BY <2>2
  <2>5. \A c \in T : cs[c].pos \in Nat
    BY <1>4 DEF CardTable
  <2> QED BY <2>3, <2>4, <2>5 DEF Ordered
<1> HIDE DEF there, card, D
<1>5. S \in SUBSET D /\ Ordered(there, S)
  BY <1>3, <1>4 DEF On
<1>6. /\ DOMAIN places = S \cup {card}
      /\ \A c \in DOMAIN places : places[c] \in Nat
  <2>1. DOMAIN places = S \cup {card}
    BY DEF reordered, card
  <2> QED BY <1>2, <1>5, <2>1, PlacesTyped DEF card
<1>7. /\ \A x, y \in S \ {card} : Ahead(there, x, y) => Ahead(placed, x, y)
      /\ card \in S => Rank(placed, S, card) = Smaller(l.to, Cardinality(S \ {card}))
  <2> DEFINE to == l.to
  <2>1. to \in Nat /\ CardTable(there) /\ S \in SUBSET DOMAIN there /\ Ordered(there, S)
    BY <1>2, <1>3, <1>5
  <2> HIDE DEF to, S
  <2>2. LET cs2 == Placed(there, reordered(there, S, card, to))
        IN  /\ \A x, y \in S \ {card} : Ahead(there, x, y) => Ahead(cs2, x, y)
            /\ card \in S => Rank(cs2, S, card) = Smaller(to, Cardinality(S \ {card}))
    BY <2>1, Landing
  <2> QED BY <2>2 DEF card, to
<1> HIDE DEF places
<1>8. /\ CardTable(placed) /\ DOMAIN placed = D
      /\ \A c \in D : placed[c].list = there[c].list
      /\ \A c \in D \ S : c # card => placed[c].pos = there[c].pos
  BY <1>3, <1>6, PlacedAt
<1> HIDE DEF placed
<1>9. stayed \in SUBSET D /\ Ordered(placed, stayed)
  BY <1>4, <1>8 DEF On
<1>10. \A x, y \in stayed : Ahead(moved, x, y) <=> Ahead(placed, x, y)
  BY <1>8, <1>9, Closing
<1>11. /\ DOMAIN moved = D
       /\ \A c \in D : moved[c].list = placed[c].list
       /\ \A c \in D \ stayed : moved[c].pos = placed[c].pos
  <2>1. \A c \in stayed : Rank(placed, stayed, c) \in Nat
    BY <1>9, RankBelow
  <2> QED BY <1>8, <2>1, PlacedAt
<1> HIDE DEF moved
<1>12. \A x, y \in D : placed[x].list = placed[y].list =>
         (Ahead(moved, x, y) <=> Ahead(placed, x, y))
  <2> SUFFICES ASSUME NEW x \in D, NEW y \in D, placed[x].list = placed[y].list
               PROVE  Ahead(moved, x, y) <=> Ahead(placed, x, y)
    OBVIOUS
  <2>1. CASE placed[x].list = l.from
    BY <1>8, <1>10, <2>1 DEF On
  <2>2. CASE placed[x].list # l.from
    <3>1. moved[x].pos = placed[x].pos /\ moved[y].pos = placed[y].pos
      BY <1>8, <1>11, <2>2 DEF On
    <3> QED BY <3>1 DEF Ahead
  <2> QED BY <2>1, <2>2
<1>13. On(moved, l.list) = S /\ \A c \in S : placed[c].list = l.list
  BY <1>3, <1>8, <1>11 DEF On
<1>14. ASSUME card \in D
       PROVE  Rank(moved, S, card) = Smaller(l.to, Cardinality(S \ {card}))
  <2>1. card \in S
    BY <1>3, <1>14 DEF On
  <2>2. {x \in S : Ahead(moved, x, card)} = {x \in S : Ahead(placed, x, card)}
    BY <1>5, <1>12, <1>13, <2>1
  <2> QED BY <1>7, <2>1, <2>2 DEF Rank
<1>15. ASSUME NEW x \in D \ {card}, NEW y \in D \ {card},
              cards[x].list = cards[y].list, Ahead(cards, x, y)
       PROVE  Ahead(moved, x, y)
  <2>1. there[x].list = there[y].list /\ Ahead(there, x, y)
    BY <1>3, <1>15 DEF Ahead
  <2>2. CASE there[x].list = l.list
    <3>1. Ahead(placed, x, y)
      BY <1>3, <1>7, <2>1, <2>2 DEF On
    <3> QED BY <1>8, <1>12, <2>1, <3>1
  <2>3. CASE there[x].list # l.list
    <3>1. placed[x].pos = there[x].pos /\ placed[y].pos = there[y].pos
      BY <1>8, <2>1, <2>3 DEF On
    <3>2. Ahead(placed, x, y)
      BY <2>1, <3>1 DEF Ahead
    <3> QED BY <1>8, <1>12, <2>1, <3>2
  <2> QED BY <2>2, <2>3
<1> QED BY <1>1, <1>13, <1>14, <1>15 DEF card, D

\* A move that is about to be made goes no further without being made.
LEMMA OnlyMoves ==
  ASSUME IInv, [Next]_vars, NEW h \in Handlers, At(h, "move"), ~At(h, "move")'
  PROVE  MoveCard(h) \/ UNCHANGED cards
<1>1. pc[h] = "move" /\ pc'[h] # "move"
  BY DEF At
<1>2. CASE \E s \in Fickle : Switch(s) \/ RemoveSpace(s)
  BY <1>1, <1>2 DEF Switch, RemoveSpace
<1>3. ASSUME NEW g \in Handlers, Request(g) PROVE FALSE
  <2>1. g # h
    BY <1>1, <1>3 DEF Request, RemoveCard, AskBoard, AskList, AskRemoval, AskCard, AskPatch,
                      AskMove, Ask, At
  <2> QED BY <1>1, <1>3, <2>1, Arriving
<1>4. ASSUME NEW g \in Handlers, Step(g) PROVE MoveCard(h) \/ UNCHANGED cards
  <2>1. g = h
    BY <1>1, <1>4, Holding
  <2>2. MoveCard(h) \/ Abandon(h)
    BY <1>1, <1>4, <2>1 DEF Step, FindList, FindBoard, CountLists, DeleteList, EnsureCount, Seed,
       PlaceList, InsertList, PlaceCard, InsertCard, ReadCard, PatchCard, At
  <2> QED BY <2>2 DEF Abandon, tables
<1> QED BY <1>1, <1>2, <1>3, <1>4 DEF Next, vars

(***************************************************************************)
(* THEOREM: a move puts the card where it was asked to go and changes the  *)
(* order of no other two cards of a list, over positions that repeat or    *)
(* leave holes and whatever happened since the card was read: the          *)
(* transaction of move_card (boards.rs:463).                               *)
(***************************************************************************)
THEOREM MovesLand == Spec => MoveLands
<1>1. IInv /\ [Next]_vars =>
        [\A h \in Handlers :
           At(h, "move") /\ ~At(h, "move")' /\ cards' # cards =>
             LET card == local[h].card
                 target == On(cards', local[h].list)
             IN  /\ card \in DOMAIN cards =>
                      Rank(cards', target, card)
                        = Smaller(local[h].to, Cardinality(target \ {card}))
                 /\ \A x, y \in (DOMAIN cards) \ {card} :
                      cards[x].list = cards[y].list /\ Ahead(cards, x, y) =>
                         Ahead(cards', x, y)]_vars
  <2> SUFFICES ASSUME IInv, [Next]_vars, NEW h \in Handlers,
                      At(h, "move"), ~At(h, "move")', cards' # cards
               PROVE  LET card == local[h].card
                          target == On(cards', local[h].list)
                      IN  /\ card \in DOMAIN cards =>
                               Rank(cards', target, card)
                                 = Smaller(local[h].to, Cardinality(target \ {card}))
                          /\ \A x, y \in (DOMAIN cards) \ {card} :
                               cards[x].list = cards[y].list /\ Ahead(cards, x, y) =>
                                  Ahead(cards', x, y)
    OBVIOUS
  <2>1. MoveCard(h)
    BY OnlyMoves
  <2>2. /\ cards' = Moved(local[h])
        /\ local[h].card \in DOMAIN cards => local[h].list \in DOMAIN lists
    BY <2>1 DEF MoveCard
  <2>3. local[h] \in Locals
    BY DEF IInv, LocalsOK
  <2> QED BY <2>2, <2>3, MovedLands
<1> QED BY <1>1, Inductive, PTL DEF Spec, MoveLands

=============================================================================
