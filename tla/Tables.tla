------------------------------- MODULE Tables -------------------------------
(***************************************************************************)
(* The stock tables of the rcr database and what the server's helpers do   *)
(* with them.  A handler works on the tables inside one transaction; saved *)
(* is what the file holds, the image a rollback or a crash returns to.     *)
(* SQLite lets one connection write at a time, so the tables belong to the *)
(* open transaction.                                                       *)
(***************************************************************************)
EXTENDS BoxPath, Sequences, TLC

CONSTANTS
  Name,        \* card names, with the nominal and the component they go with
  Star,        \* the query name "*", which a card may also bear
  PropLists,   \* property lists of requests: <<type, value>> pairs
  QMod,        \* quantities are unsigned, modulo QMod (2^64)
  Boxes        \* the boxes requests name

ASSUME TablesAssumption == /\ Star \in Name
                           /\ QMod \in Nat \ {0}
                           /\ Boxes \subseteq Path
                           /\ PropLists \subseteq Seq(STRING \X STRING)

VARIABLES
  card,        \* Card and Property: id -> name, property rows in id order
  pack,        \* Package: id -> card, box, qty
  boxes,       \* Box: the ids listed (no row is added but after a look-up)
  journal,     \* Journal, in id order
  lastCard,    \* the AUTOINCREMENT counters
  lastPack,
  saved        \* the committed image of all the above

tables == <<card, pack, boxes, journal, lastCard, lastPack>>

Qty == 0 .. QMod - 1
OpSymbol == {"=", "+", "-", "/"}
CardRow == [name : Name, props : Seq(STRING \X STRING)]
PackRow == [card : Nat, box : Boxes, qty : Qty]
Entry == [op : OpSymbol, pack : Nat, value : Qty]

Image == [card |-> card, pack |-> pack, boxes |-> boxes, journal |-> journal,
          lastCard |-> lastCard, lastPack |-> lastPack]

\* The columns of an image have their types, and ids were issued by the
\* counters.
ImageOK(s) ==
  /\ s.lastCard \in Nat /\ s.lastPack \in Nat
  /\ DOMAIN s.card \subseteq 1 .. s.lastCard
  /\ \A c \in DOMAIN s.card : s.card[c] \in CardRow
  /\ DOMAIN s.pack \subseteq 1 .. s.lastPack
  /\ \A p \in DOMAIN s.pack : s.pack[p] \in PackRow
  /\ s.boxes \subseteq Boxes
  /\ s.journal \in Seq(Entry)
\* Every package belongs to a card of the image.
Orphanless(s) == \A p \in DOMAIN s.pack : s.pack[p].card \in DOMAIN s.card

Empty == [x \in {} |-> x]
Put(f, k, v) == [x \in DOMAIN f \cup {k} |-> IF x = k THEN v ELSE f[x]]

TablesInit ==
  /\ card = Empty /\ pack = Empty /\ boxes = {} /\ journal = <<>>
  /\ lastCard = 0 /\ lastPack = 0
  /\ saved = Image

\* A mutant: packages written by a dead handler stay.
RestoreKeepsPacks ==
  /\ card' = saved.card /\ UNCHANGED pack
  /\ boxes' = saved.boxes /\ journal' = saved.journal
  /\ lastCard' = saved.lastCard /\ lastPack' = saved.lastPack
  /\ UNCHANGED saved

Restore ==
  /\ card' = saved.card /\ pack' = saved.pack
  /\ boxes' = saved.boxes /\ journal' = saved.journal
  /\ lastCard' = saved.lastCard /\ lastPack' = saved.lastPack
  /\ UNCHANGED saved

Commit == saved' = Image /\ UNCHANGED tables

----------------------------------------------------------------------------
(* Reading.                                                                 *)

\* mkCardQueryClause: "*" stands for every name; another is compared.
Matches(query, name) == query = Star \/ query = name

\* hasAllProperties and its two siblings: the loop leaves at the first row
\* whose type is asked for, and compares the hits with the number asked.
HasAllProperties(rows, want) ==
  LET asked == {i \in DOMAIN rows :
                  \E j \in DOMAIN want : want[j][1] = rows[i][1]}
      hit == \E i \in asked : /\ \A k \in asked : i <= k
                              /\ \E j \in DOMAIN want : want[j] = rows[i]
  IN  Len(want) = IF hit THEN 1 ELSE 0

PacksIn(c, b) == {p \in DOMAIN pack : pack[p].card = c /\ InRange(pack[p].box, b)}

\* The cards setCards loops over.
MatchedCards(name, props, b) ==
  {c \in DOMAIN card : /\ Matches(name, card[c].name)
                       /\ PacksIn(c, b) # {}
                       /\ HasAllProperties(card[c].props, props)}

\* findCardByNameNominalProperties: SQL gives no order to "the first" row.
FoundCards(name, props) ==
  {c \in DOMAIN card : /\ card[c].name = name
                       /\ HasAllProperties(card[c].props, props)}

\* A mutant: a place with nothing left counts as no place.
GetQuantityNonEmpty(c, b) ==
  LET full == {p \in PacksIn(c, b) : pack[p].qty > 0}
  IN  IF full = {} THEN {[id |-> 0, qty |-> 0]}
      ELSE {[id |-> p, qty |-> pack[p].qty] : p \in full}

\* getQuantity: the first package in the range, or package 0 with quantity 0.
GetQuantity(c, b) ==
  IF PacksIn(c, b) = {} THEN {[id |-> 0, qty |-> 0]}
  ELSE {[id |-> p, qty |-> pack[p].qty] : p \in PacksIn(c, b)}

----------------------------------------------------------------------------
(* Writing.                                                                 *)

InsertCard(name, props) ==
  /\ lastCard' = lastCard + 1
  /\ card' = Put(card, lastCard + 1, [name |-> name, props |-> props])

InsertPack(c, b, n) ==
  /\ lastPack' = lastPack + 1
  /\ pack' = Put(pack, lastPack + 1, [card |-> c, box |-> b, qty |-> n])

\* setQuantity: insert for package 0, else overwrite the whole row; an update
\* of a row that is not there throws and is swallowed.
SetQuantity(id, c, b, n) ==
  \/ id = 0 /\ InsertPack(c, b, n)
  \/ /\ id \in DOMAIN pack
     /\ pack' = [pack EXCEPT ![id] = [card |-> c, box |-> b, qty |-> n]]
     /\ UNCHANGED lastPack
  \/ id \notin DOMAIN pack \cup {0} /\ UNCHANGED <<pack, lastPack>>

\* The id setQuantity returns.
SetQuantityId(id) == IF id = 0 THEN lastPack + 1 ELSE id

UpdateBoxOnInsert(b) == boxes' = boxes \cup {b}

\* A mutant: the check for packages left out.
UpdateBoxOnRemoveAlways(b) == boxes' = boxes \ {b}

\* A box no package is in any more is taken off the list.
UpdateBoxOnRemove(b) ==
  boxes' = IF \E p \in DOMAIN pack : pack[p].box = b THEN boxes
           ELSE boxes \ {b}

Add2Log(op, id, value) ==
  journal' = Append(journal, [op |-> op, pack |-> id, value |-> value])
=============================================================================
