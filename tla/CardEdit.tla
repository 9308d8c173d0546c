------------------------------ MODULE CardEdit ------------------------------
(***************************************************************************)
(* chCard: a client adds a card with its packages, removes a card or one   *)
(* of its packages, or sends a card back as edited.  The handler is one    *)
(* transaction; todo is what is left of the database calls it makes, in    *)
(* the order of the code.  One step is one call.  A call that throws ends  *)
(* the handler, which then commits what was done; calls on the journal and *)
(* on the list of boxes swallow what they catch.                           *)
(***************************************************************************)
EXTENDS Tables, FiniteSets, SequencesExt

CONSTANTS
  CardOps,       \* operation symbols clients send
  PackLists,     \* packages of a request: id (0 for a new one), box, quantity
  PropEdits,     \* properties of a request: id (0 for a new one), pair
  Layouts,       \* the cards there may be at the start, with their properties
                 \* and packages
  MaxRequests,   \* how many requests the clients send
  MaxFaults      \* how many database calls may throw

ASSUME CardEditAssumption ==
  /\ CardOps \subseteq {"+", "-", "="}
  /\ PackLists \subseteq Seq([id : Nat, box : Boxes, qty : Qty])
  /\ PropEdits \subseteq Seq([id : Nat, pair : STRING \X STRING])
  /\ \A l \in Layouts :
       /\ l.cards \in Seq(Name)
       /\ l.props \in Seq([card : DOMAIN l.cards, pair : STRING \X STRING])
       /\ l.packs \in Seq([card : DOMAIN l.cards, box : Boxes, qty : Qty])
  /\ MaxRequests \in Nat /\ MaxFaults \in Nat

VARIABLES
  prop, lastProp,  \* Property: id -> card, pair; its AUTOINCREMENT counter
  savedProp,       \* the committed image of both
  req,             \* the request of the open handler
  todo,            \* the database calls it has not made yet
  requests, faults

vars == <<tables, saved, prop, lastProp, savedProp, req, todo, requests, faults>>

NoReq == [op |-> "none"]
Idle == req = NoReq

TypeOK ==
  /\ ImageOK(Image) /\ ImageOK(saved)
  /\ \A x \in DOMAIN prop : prop[x] \in [card : Nat, pair : STRING \X STRING]
  /\ DOMAIN prop \subseteq 1 .. lastProp
  /\ Idle => todo = <<>>
  /\ requests \in 0 .. MaxRequests /\ faults \in 0 .. MaxFaults

Init ==
  /\ \E l \in Layouts :
       /\ card = [c \in DOMAIN l.cards |-> [name |-> l.cards[c], props |-> <<>>]]
       /\ prop = l.props /\ pack = l.packs
       /\ boxes = {l.packs[p].box : p \in DOMAIN l.packs}
       /\ lastCard = Cardinality(DOMAIN l.cards)
       /\ lastProp = Cardinality(DOMAIN l.props)
       /\ lastPack = Cardinality(DOMAIN l.packs)
  /\ journal = <<>>
  /\ saved = Image /\ savedProp = <<prop, lastProp>>
  /\ req = NoReq /\ todo = <<>>
  /\ requests = 0 /\ faults = 0

Fault == faults < MaxFaults /\ faults' = faults + 1

----------------------------------------------------------------------------
(* Reading, and the calls a handler makes.                                  *)

InIdOrder(S) == CHOOSE s \in [1 .. Cardinality(S) -> S] :
                  \A i, j \in DOMAIN s : i < j => s[i] < s[j]
PropsOf(c) == {x \in DOMAIN prop : prop[x].card = c}
PacksOf(c) == {p \in DOMAIN pack : pack[p].card = c}
Pairs(c) == LET ids == InIdOrder(PropsOf(c))
            IN  [i \in DOMAIN ids |-> prop[ids[i]].pair]

\* findCardByNameNominalProperties, with the properties in their own table.
CardsLike(name, props) ==
  {c \in DOMAIN card : card[c].name = name /\ HasAllProperties(Pairs(c), props)}

\* One call: the table, what is done to the row of an id, and the row.
Insert(table, row) == <<[table |-> table, do |-> "insert", id |-> 0, row |-> row]>>
Update(table, id, row) ==
  <<[table |-> table, do |-> "update", id |-> id, row |-> row]>>
Erase(table, id) == <<[table |-> table, do |-> "erase", id |-> id, row |-> <<>>]>>
Log(op, id, value) == Insert("log", [op |-> op, pack |-> id, value |-> value])
LastInserted == 0    \* stands for the id persist has just given out

ForEach(Op(_), s) == FlattenSeq([i \in DOMAIN s |-> Op(s[i])])
\* The first hit of find_if, as a set.
FirstOf(S) == {i \in S : \A j \in S : i <= j}

\* A mutant: the ids already dealt with are not looked up.
UnseenAlways(id, seen) == TRUE

Unseen(id, seen) == id \notin seen

----------------------------------------------------------------------------
(* "+"                                                                      *)

\* The sign of an unsigned quantity is never minus: an addition is logged "-".
NewCard(r) ==
  Insert("card", [name |-> r.name, props |-> <<>>])
  \o ForEach(LAMBDA v : Insert("prop", [card |-> lastCard + 1, pair |-> v]), r.props)
  \o ForEach(LAMBDA p : Insert("pack", [card |-> lastCard + 1, box |-> p.box, qty |-> p.qty])
                        \o Log("-", LastInserted, p.qty), r.packs)

\* addPackages: a package in a box that is asked for takes the quantity asked;
\* the ids remembered are those of the request, so one hit stands for all the
\* new packages of it.
AddPackages(c, asked) ==
  LET Asked(p) == FirstOf({i \in DOMAIN asked : asked[i].box = pack[p].box})
      hits == {p \in PacksOf(c) : Asked(p) # {}}
      seen == {asked[i].id : i \in UNION {Asked(p) : p \in hits}}
      Replace(p) == LET q == asked[CHOOSE i \in Asked(p) : TRUE]
                    IN  IF q.qty = 0 THEN Erase("pack", q.id)
                        ELSE Log("-", p, q.qty)
                             \o Update("pack", p, [card |-> c, box |-> q.box, qty |-> q.qty])
      New(q) == IF ~Unseen(q.id, seen) \/ q.qty = 0 THEN <<>>
                ELSE Insert("pack", [card |-> c, box |-> q.box, qty |-> q.qty])
                     \o Log("-", LastInserted, q.qty)
  IN  ForEach(Replace, InIdOrder(hits)) \o ForEach(New, asked)

\* A mutant: the box of the first package only.
ListFirstBox(asked) ==
  IF asked = <<>> THEN <<>> ELSE Insert("box", Head(asked).box)

ListBoxes(asked) == ForEach(LAMBDA p : Insert("box", p.box), asked)

Plus(r) ==
  LET like == CardsLike(r.name, r.props)
  IN  IF like = {} THEN {NewCard(r) \o ListBoxes(r.packs)}
      ELSE {AddPackages(c, r.packs) \o ListBoxes(r.packs) : c \in like}

----------------------------------------------------------------------------
(* "-"                                                                      *)

\* A mutant: without the journal.
ErasePackQuietly(p) == Erase("pack", p)

ErasePack(p) == Erase("pack", p) \o Log("-", p, pack[p].qty)

\* A mutant: the card goes first.
RemoveCardFirst(c, packs) ==
  Erase("card", c)
  \o ForEach(LAMBDA x : Erase("prop", x), InIdOrder(PropsOf(c)))
  \o ForEach(ErasePack, InIdOrder(packs))

RemoveCard(c, packs) ==
  ForEach(LAMBDA x : Erase("prop", x), InIdOrder(PropsOf(c)))
  \o ForEach(ErasePack, InIdOrder(packs))
  \o Erase("card", c)

\* The card goes with the last of its packages.
Minus(r) ==
  LET gone == PacksOf(r.card) \cap {r.pack}
      left == PacksOf(r.card) \ gone
  IN  IF r.pack = 0 THEN RemoveCard(r.card, left)
      ELSE ForEach(ErasePack, InIdOrder(gone))
           \o IF left = {} THEN RemoveCard(r.card, left) ELSE <<>>

----------------------------------------------------------------------------
(* "=".  The card of every row a client sends back is the card it edits.    *)

\* Ids of properties that are still there are taken from their card column.
UpdateProperties(c, asked) ==
  LET Asked(x) == FirstOf({i \in DOMAIN asked : asked[i].id = x})
      seen == {c : x \in {y \in PropsOf(c) : Asked(y) # {}}}
      Keep(x) == LET v == asked[CHOOSE i \in Asked(x) : TRUE]
                 IN  IF Asked(x) = {} THEN Erase("prop", x)
                     ELSE IF v.pair = prop[x].pair THEN <<>>
                     ELSE Update("prop", x, [card |-> c, pair |-> v.pair])
      New(v) == IF ~Unseen(v.id, seen) THEN <<>>
                ELSE Insert("prop", [card |-> c, pair |-> v.pair])
  IN  ForEach(Keep, InIdOrder(PropsOf(c))) \o ForEach(New, asked)

\* updateCardPackages.  What is logged of a package left out is read past the
\* end of the list.  A box name sent back makes any row differ.
UpdateCardPackages(c, asked, named) ==
  LET Asked(p) == FirstOf({i \in DOMAIN asked : asked[i].id = p})
      seen == {p \in PacksOf(c) : Asked(p) # {}}
      Row(q) == [card |-> c, box |-> q.box, qty |-> q.qty]
      Keep(p) == LET q == asked[CHOOSE i \in Asked(p) : TRUE]
                 IN  IF Asked(p) = {}
                     THEN Erase("pack", p) \o <<[table |-> "end", do |-> "read"]>>
                     ELSE IF q.qty = 0 THEN Erase("pack", p) \o Log("-", p, 0)
                     ELSE IF Row(q) = pack[p] /\ ~named THEN <<>>
                     ELSE Update("pack", p, Row(q)) \o Log("=", p, q.qty)
      New(q) == IF ~Unseen(q.id, seen) \/ q.qty = 0 THEN <<>>
                ELSE Insert("pack", Row(q)) \o Log("=", LastInserted, q.qty)
  IN  ForEach(Keep, InIdOrder(PacksOf(c))) \o ForEach(New, asked)

\* A mutant: the package is looked up by its id alone.
UpdateAnyPackage(c, p, asked) ==
  LET q == Head(asked)
      row == [card |-> c, box |-> q.box, qty |-> q.qty]
  IN  IF asked = <<>> THEN <<>>
      ELSE IF p \in DOMAIN pack THEN Update("pack", q.id, row) \o Log("=", q.id, q.qty)
      ELSE Insert("pack", row) \o Log("=", LastInserted, q.qty)

\* updateCardPackage: the first package of the request, when there is one, is
\* what becomes of the selected one.
UpdateCardPackage(c, p, asked) ==
  LET q == Head(asked)
      row == [card |-> c, box |-> q.box, qty |-> q.qty]
  IN  IF asked = <<>> THEN <<>>
      ELSE IF p \in PacksOf(c) THEN Update("pack", q.id, row) \o Log("=", q.id, q.qty)
      ELSE Insert("pack", row) \o Log("=", LastInserted, q.qty)

Edit(r, named) ==
  Update("card", r.card, [name |-> r.name, props |-> <<>>])
  \o UpdateProperties(r.card, r.props)
  \o IF r.pack # 0 THEN UpdateCardPackage(r.card, r.pack, r.packs)
     ELSE UpdateCardPackages(r.card, r.packs, named)

----------------------------------------------------------------------------
(* The handler.                                                             *)

PlusRequests ==
  [op : {"+"}, name : Name, props : PropLists,
   packs : {l \in PackLists : \A i \in DOMAIN l : l[i].id = 0}]
MinusRequests == [op : {"-"}, card : 1 .. lastCard + 1, pack : 0 .. lastPack]

\* A client that edits one package sends that package, or none.
EqualRequests ==
  {r \in [op : {"="}, card : 1 .. lastCard + 1, name : Name, props : PropEdits,
          pack : 0 .. lastPack, packs : PackLists] :
     r.pack # 0 /\ r.packs # <<>> => r.packs[1].id = r.pack}

Open(r, calls) ==
  /\ Idle /\ r.op \in CardOps
  /\ requests < MaxRequests /\ requests' = requests + 1
  /\ req' = r
  /\ todo' = calls
  /\ UNCHANGED <<tables, saved, prop, lastProp, savedProp>>

AddCard == \/ /\ \E r \in PlusRequests : \E calls \in Plus(r) : Open(r, calls)
              /\ UNCHANGED faults
           \/ \* a look-up that throws counts as no card
              \E r \in PlusRequests : Open(r, NewCard(r) \o ListBoxes(r.packs)) /\ Fault
RemoveOne == (\E r \in MinusRequests : Open(r, Minus(r))) /\ UNCHANGED faults
EditCard == /\ \E r \in EqualRequests, named \in BOOLEAN : Open(r, Edit(r, named))
            /\ UNCHANGED faults

Rows(table) == CASE table = "card" -> DOMAIN card
                 [] table = "prop" -> DOMAIN prop
                 [] table = "pack" -> DOMAIN pack
Stored == {"card", "prop", "pack"}

\* The table and its counter after a call.
After(f, last, w) == CASE w.do = "insert" -> Put(f, last + 1, w.row)
                       [] w.do = "update" -> Put(f, w.id, w.row)
                       [] w.do = "erase" -> [x \in DOMAIN f \ {w.id} |-> f[x]]
Counter(last, w) == IF w.do = "insert" THEN last + 1 ELSE last

\* update and erase of a row that is not there throw.
Throws(w) == w.do # "insert" /\ w.id \notin Rows(w.table)

Turn(table, w) == w.table = table /\ (w.table \in Stored => ~Throws(w))

Call(Do(_)) ==
  /\ todo # <<>> /\ Do(Head(todo)) /\ todo' = Tail(todo)
  /\ UNCHANGED <<saved, savedProp, req, requests>>

WriteCard ==
  /\ Call(LAMBDA w : /\ Turn("card", w)
                     /\ card' = After(card, lastCard, w)
                     /\ lastCard' = Counter(lastCard, w))
  /\ UNCHANGED <<pack, boxes, journal, lastPack, prop, lastProp, faults>>

WriteProp ==
  /\ Call(LAMBDA w : /\ Turn("prop", w)
                     /\ prop' = After(prop, lastProp, w)
                     /\ lastProp' = Counter(lastProp, w))
  /\ UNCHANGED <<tables, faults>>

WritePack ==
  /\ Call(LAMBDA w : /\ Turn("pack", w)
                     /\ pack' = After(pack, lastPack, w)
                     /\ lastPack' = Counter(lastPack, w))
  /\ UNCHANGED <<card, boxes, journal, lastCard, prop, lastProp, faults>>

WriteLog ==
  /\ Call(LAMBDA w : /\ Turn("log", w)
                     /\ Add2Log(w.row.op,
                                IF w.row.pack = LastInserted THEN lastPack ELSE w.row.pack,
                                w.row.value))
  /\ UNCHANGED <<card, pack, boxes, lastCard, lastPack, prop, lastProp, faults>>

\* What lies past the end of the list may be anything, or end the process
\* (Abort).
LogPastEnd ==
  /\ Call(LAMBDA w : /\ Turn("end", w)
                     /\ \E p \in 0 .. lastPack : \E n \in Qty : Add2Log("-", p, n))
  /\ UNCHANGED <<card, pack, boxes, lastCard, lastPack, prop, lastProp, faults>>

ListBox ==
  /\ Call(LAMBDA w : Turn("box", w) /\ UpdateBoxOnInsert(w.row))
  /\ UNCHANGED <<card, pack, journal, lastCard, lastPack, prop, lastProp, faults>>

\* Caught in add2log and updateBoxOnInsert: the handler goes on.
Swallow ==
  /\ Call(LAMBDA w : w.table \notin Stored)
  /\ Fault
  /\ UNCHANGED <<tables, prop, lastProp>>

\* Caught at the end of chCard: the calls that follow are not made.
Throw ==
  /\ todo # <<>> /\ Head(todo).table \in Stored
  /\ IF Throws(Head(todo)) THEN UNCHANGED faults ELSE Fault
  /\ todo' = <<>>
  /\ UNCHANGED <<tables, saved, prop, lastProp, savedProp, req, requests>>

Answer ==
  /\ ~Idle /\ todo = <<>>
  /\ Commit /\ savedProp' = <<prop, lastProp>>
  /\ req' = NoReq
  /\ UNCHANGED <<prop, lastProp, todo, requests, faults>>

\* The commit fails, or the process dies.
Abort ==
  /\ ~Idle
  /\ (todo = <<>> /\ Fault) \/ UNCHANGED faults
  /\ Restore /\ prop' = savedProp[1] /\ lastProp' = savedProp[2]
  /\ req' = NoReq /\ todo' = <<>>
  /\ UNCHANGED <<savedProp, requests>>

Next == \/ AddCard \/ RemoveOne \/ EditCard
        \/ WriteCard \/ WriteProp \/ WritePack \/ WriteLog \/ LogPastEnd
        \/ ListBox \/ Swallow \/ Throw \/ Answer \/ Abort

Spec == Init /\ [][Next]_vars

----------------------------------------------------------------------------
(* What it must do.  saved is what the handler found.                       *)

Listed(s) == \A p \in DOMAIN s.pack : s.pack[p].box \in s.boxes
Clean == faults = 0 /\ Answer

\* Whatever call of chCard throws, and wherever the process dies, no package
\* and no property is left in the file without its card.
NoOrphans ==
  /\ Orphanless(saved)
  /\ \A x \in DOMAIN savedProp[1] : savedProp[1][x].card \in DOMAIN saved.card

\* The invariant of chCard: rows and locals are what they should be, and nothing
\* is without its card.
CardInvariant == TypeOK /\ NoOrphans

\* Editing or removing a card never touches the packages of another, also when
\* the package of the request belongs to another card; adding to a card touches
\* cards of that name only.
Touchable(c) == IF req.op = "+" THEN saved.card[c].name = req.name ELSE c = req.card
OthersUntouched ==
  ~Idle => \A p \in DOMAIN saved.pack :
             ~Touchable(saved.pack[p].card) =>
               p \in DOMAIN pack /\ pack[p] = saved.pack[p]

\* Every package a removal takes away, one by one or with its card, is in the
\* journal with the quantity it had, once; and the card goes exactly when none
\* of its packages is left.
NewEntries == {i \in DOMAIN journal : i > Len(saved.journal)}
RemovalLogged ==
  [][Clean /\ req.op = "-" =>
       /\ \A p \in DOMAIN saved.pack \ DOMAIN pack : \E i \in NewEntries :
            journal[i] = [op |-> "-", pack |-> p, value |-> saved.pack[p].qty]
       /\ Cardinality(NewEntries) = Cardinality(DOMAIN saved.pack \ DOMAIN pack)
       /\ req.pack # 0 => DOMAIN saved.pack \ DOMAIN pack \subseteq {req.pack}
       /\ req.card \in DOMAIN card =>
            req.card \in DOMAIN saved.card /\ PacksOf(req.card) # {}]_vars

\* After a card was sent back with all its packages, it has the packages that
\* were sent, each as often as it was sent, and none of quantity zero.
Held(b, n) == {p \in PacksOf(req.card) : pack[p].box = b /\ pack[p].qty = n}
Sent(b, n) == {i \in DOMAIN req.packs : req.packs[i].box = b /\ req.packs[i].qty = n}
PackagesAsSent ==
  [][Clean /\ req.op = "=" /\ req.card \in DOMAIN saved.card /\ req.pack = 0 =>
       \A b \in Boxes, n \in Qty :
         Cardinality(Held(b, n)) = IF n = 0 THEN 0 ELSE Cardinality(Sent(b, n))]_vars

\* Adding packages lists every box they are put in.
AddedListed ==
  [][Clean /\ req.op = "+" /\ Listed(saved) => Listed(saved')]_vars

=============================================================================
