----------------------------- MODULE StockProofs -----------------------------
(***************************************************************************)
(* Theorems about the stock handlers, for all values of the constants, in  *)
(* whatever boxes.                                                         *)
(*                                                                         *)
(*   1. Type correctness and referential integrity: any number of cards,   *)
(*      failing calls, and crashes at any point.                           *)
(*   2. When no database call fails: a move keeps each card's total, an    *)
(*      issue takes what was asked for at most.  The totals are sums over  *)
(*      the packages of a card.                                            *)
(*   3. When no database call fails: every remainder is the one before the *)
(*      query and what the query journalled, and no change of one is left  *)
(*      out of the journal.                                                *)
(*   4. When no database call fails and boxes are leaf boxes: every box    *)
(*      that is not empty is listed, and, when no card is pushed with "=", *)
(*      a card has one remainder per box.  Neither is enforced by a        *)
(*      constraint: both rest on getQuantity being called right before     *)
(*      every setQuantity, on the card and box it writes.                  *)
(*   5. Then the handlers implement the ledger.  The invariant says, call  *)
(*      by call, how far the open handler is on its way from the file to   *)
(*      what one step of the ledger makes of it.                           *)
(***************************************************************************)
EXTENDS StockProperties, OperatorProofs

\* What the open handler knows of its own position: while it works on a leg,
\* the leg is set and the card is in the table; while it loops over cards, the
\* request is a query.
Working ==
  /\ pc \in {"each"} \cup {"get", "set", "ref", "log"} => req # NoReq
  /\ pc = "each" => req \in Queries
  /\ pc = "stream" => req = PushReq
  /\ pc \in {"get", "set", "ref", "log"} =>
       /\ leg \in [kind : Kinds, box : Boxes, n : Qty]
       /\ leg.kind = "NEW" => pc = "ref"
       /\ leg.kind = "LOOK" => pc = "get"
       /\ leg.kind \in {"LOOK", "SUB", "TAKE", "PUT", "NEW"} => req \in Queries
       /\ leg.kind # "NEW" => cur \in DOMAIN card

\* The inductive invariant.
IInv == TypeOK /\ NoOrphans /\ Working

\* What may be left of a list of properties is a list of properties.
LEMMA PartsOfSeq ==
  ASSUME NEW S, NEW s \in Seq(S)
  PROVE  /\ \A k \in 0 .. Len(s) : SubSeq(s, 1, k) \in Seq(S)
         /\ \A k \in DOMAIN s : RemoveAt(s, k) \in Seq(S)
  <1>1. \A m, n \in Int : (\A i \in m .. n : i \in 1 .. Len(s)) => SubSeq(s, m, n) \in Seq(S)
    OBVIOUS
  <1>2. ASSUME NEW k \in DOMAIN s
        PROVE  RemoveAt(s, k) \in Seq(S)
    <2>1. SubSeq(s, 1, k - 1) \in Seq(S) /\ SubSeq(s, k + 1, Len(s)) \in Seq(S)
      BY <1>1
    <2> QED BY <2>1 DEF RemoveAt
  <1> QED BY <1>1, <1>2

LEMMA KindsOfQueries ==
  ASSUME NEW r \in Queries
  PROVE  /\ r.code \in QueryCodes /\ r.box \in Boxes /\ r.dest \in Boxes
         /\ r.n \in Qty /\ r.name \in Name
         /\ r.props \in Seq(STRING \X STRING)
         /\ FirstKind(r.code) \in Kinds \ {"NEW", "PUT", "DROP"}
         /\ r # NoReq /\ r # PushReq
  <1>1. /\ r.code \in QueryCodes /\ r.box \in Boxes /\ r.dest \in Boxes
        /\ r.n \in Qty /\ r.name \in Name
        /\ r.props \in Seq(STRING \X STRING)
    BY StockAssumption, TablesAssumption DEF Queries
  <1>2. r.code \in {"SET", "ADD", "SUB", "MOV", "COUNT", "SUM"}
    BY <1>1, StockAssumption DEF Writing
  <1>3. FirstKind(r.code) \in Kinds \ {"NEW", "PUT", "DROP"}
    BY <1>2 DEF FirstKind, Kinds
  <1>4. r # NoReq /\ r # PushReq
    <2>1. r.code # "NONE" /\ r.code # "PUSH"
      BY <1>2
    <2> QED BY <2>1 DEF NoReq, PushReq
  <1> QED BY <1>1, <1>3, <1>4

\* The new remainder of a leg and the journal's value are quantities.
LEMMA LegValues ==
  ASSUME NEW kind \in {"SET", "ADD", "SUB", "TAKE", "PUT", "DROP"},
         NEW old \in Qty, NEW n \in Qty
  PROVE  /\ NewQty(kind, old, n) \in Qty
         /\ LogValue(kind, old, n) \in Qty
         /\ LogOp(kind) \in OpSymbol
  <1>1. QMod \in Nat \ {0} /\ old \in 0 .. QMod - 1 /\ n \in 0 .. QMod - 1
    BY TablesAssumption DEF Qty
  <1>2. (old + n) % QMod \in 0 .. QMod - 1
    BY <1>1
  <1>3. (old + QMod - n) % QMod \in 0 .. QMod - 1
    BY <1>1
  <1>4. NewQty(kind, old, n) \in 0 .. QMod - 1
    BY <1>1, <1>2, <1>3 DEF NewQty
  <1>5. LogValue(kind, old, n) \in 0 .. QMod - 1
    BY <1>1 DEF LogValue
  <1>6. LogOp(kind) \in OpSymbol
    BY DEF LogOp, OpSymbol
  <1> QED BY <1>4, <1>5, <1>6 DEF Qty

LEMMA InitOK == Init => IInv
  <1> SUFFICES ASSUME Init PROVE IInv
    OBVIOUS
  <1>1. ImageOK(Image) /\ Orphanless(Image)
    BY DEF Init, TablesInit, Image, ImageOK, Orphanless, Empty
  <1>2. saved = Image
    BY DEF Init, TablesInit
  <1>3. 0 \in Qty /\ 0 \in 0 .. MaxFaults
    BY TablesAssumption, StockAssumption DEF Qty
  <1> QED BY <1>1, <1>2, <1>3 DEF Init, IInv, TypeOK, NoOrphans, Working

----------------------------------------------------------------------------
(* What the helpers do to the tables.                                       *)

LEMMA PutRow ==
  ASSUME NEW f, NEW k, NEW v
  PROVE  /\ DOMAIN Put(f, k, v) = DOMAIN f \cup {k}
         /\ Put(f, k, v)[k] = v
         /\ \A x \in DOMAIN f \ {k} : Put(f, k, v)[x] = f[x]
  BY DEF Put

\* The tables, typed and without orphans; the same of the committed image.
TablesOK == /\ ImageOK(Image) /\ ImageOK(saved)
            /\ Orphanless(Image) /\ Orphanless(saved)

LEMMA RestoreOK ==
  ASSUME TablesOK, Restore
  PROVE  TablesOK'
  BY DEF TablesOK, Restore, ImageOK, Orphanless, Image

LEMMA CommitOK ==
  ASSUME TablesOK, Commit
  PROVE  TablesOK'
  BY DEF TablesOK, Commit, tables, ImageOK, Orphanless, Image

LEMMA UnchangedOK ==
  ASSUME TablesOK, UNCHANGED <<tables, saved>>
  PROVE  TablesOK' /\ DOMAIN card' = DOMAIN card
  BY DEF TablesOK, tables, ImageOK, Orphanless, Image

LEMMA InsertCardOK ==
  ASSUME TablesOK, NEW name \in Name, NEW props \in Seq(STRING \X STRING),
         InsertCard(name, props), UNCHANGED <<pack, boxes, journal, lastPack, saved>>
  PROVE  TablesOK' /\ DOMAIN card' = DOMAIN card \cup {lastCard + 1}
  <1> DEFINE row == [name |-> name, props |-> props]
  <1>1. row \in CardRow
    BY DEF CardRow
  <1>2. card' = Put(card, lastCard + 1, row) /\ lastCard' = lastCard + 1
    BY DEF InsertCard
  <1>3. /\ DOMAIN card' = DOMAIN card \cup {lastCard + 1}
        /\ card'[lastCard + 1] = row
        /\ \A c \in DOMAIN card \ {lastCard + 1} : card'[c] = card[c]
    <2> HIDE DEF row
    <2> QED BY <1>2 DEF Put
  <1>4. \A c \in DOMAIN card' : card'[c] \in CardRow
    <2> HIDE DEF row
    <2> QED BY <1>1, <1>3 DEF TablesOK, ImageOK, Image
  <1> QED BY <1>2, <1>3, <1>4 DEF TablesOK, ImageOK, Orphanless, Image

LEMMA InsertPackOK ==
  ASSUME TablesOK, NEW c \in DOMAIN card', NEW b \in Boxes, NEW n \in Qty,
         DOMAIN card' = DOMAIN card,
         InsertPack(c, b, n), UNCHANGED <<card, boxes, journal, lastCard, saved>>
  PROVE  TablesOK'
  <1>1. c \in Nat /\ lastPack \in Nat
    BY DEF TablesOK, ImageOK, Image
  <1> DEFINE row == [card |-> c, box |-> b, qty |-> n]
  <1>2. row \in PackRow /\ row.card \in DOMAIN card
    BY <1>1 DEF PackRow
  <1>3. pack' = Put(pack, lastPack + 1, row) /\ lastPack' = lastPack + 1
    BY DEF InsertPack
  <1>4. /\ DOMAIN pack' = DOMAIN pack \cup {lastPack + 1}
        /\ pack'[lastPack + 1] = row
        /\ \A p \in DOMAIN pack \ {lastPack + 1} : pack'[p] = pack[p]
    <2> HIDE DEF row
    <2> QED BY <1>3 DEF Put
  <1>5. \A p \in DOMAIN pack' : pack'[p] \in PackRow /\ pack'[p].card \in DOMAIN card
    <2> HIDE DEF row
    <2> QED BY <1>2, <1>4 DEF TablesOK, ImageOK, Orphanless, Image
  <1> QED BY <1>1, <1>3, <1>4, <1>5 DEF TablesOK, ImageOK, Orphanless, Image

LEMMA SetQuantityOK ==
  ASSUME TablesOK, NEW id \in Nat, NEW c \in DOMAIN card, NEW b \in Boxes,
         NEW n \in Qty, SetQuantity(id, c, b, n),
         UNCHANGED <<card, boxes, journal, lastCard, saved>>
  PROVE  TablesOK'
  <1>1. CASE id = 0 /\ InsertPack(c, b, n)
    BY <1>1, InsertPackOK
  <1>2. CASE /\ id \in DOMAIN pack
             /\ pack' = [pack EXCEPT ![id] = [card |-> c, box |-> b, qty |-> n]]
             /\ UNCHANGED lastPack
    <2>1. c \in Nat
      BY DEF TablesOK, ImageOK, Image
    <2>2. /\ DOMAIN pack' = DOMAIN pack
          /\ \A p \in DOMAIN pack' : pack'[p] \in PackRow
          /\ \A p \in DOMAIN pack' : pack'[p].card \in DOMAIN card
      BY <1>2, <2>1 DEF PackRow, TablesOK, ImageOK, Orphanless, Image
    <2> QED BY <1>2, <2>2 DEF TablesOK, ImageOK, Orphanless, Image
  <1>3. CASE UNCHANGED <<pack, lastPack>>
    BY <1>3, UnchangedOK DEF tables
  <1> QED BY <1>1, <1>2, <1>3 DEF SetQuantity

LEMMA BoxesOK ==
  ASSUME TablesOK, NEW b \in Boxes, UpdateBoxOnInsert(b) \/ UpdateBoxOnRemove(b),
         UNCHANGED <<card, pack, journal, lastCard, lastPack, saved>>
  PROVE  TablesOK'
  <1>1. boxes' \subseteq Boxes
    BY DEF TablesOK, ImageOK, Image, UpdateBoxOnInsert, UpdateBoxOnRemove
  <1> QED BY <1>1 DEF TablesOK, ImageOK, Orphanless, Image

LEMMA Add2LogOK ==
  ASSUME TablesOK, NEW op \in OpSymbol, NEW id \in Nat, NEW n \in Qty,
         Add2Log(op, id, n),
         UNCHANGED <<card, pack, boxes, lastCard, lastPack, saved>>
  PROVE  TablesOK'
  <1>1. journal' \in Seq(Entry)
    <2>1. [op |-> op, pack |-> id, value |-> n] \in Entry
      BY DEF Entry
    <2> QED BY <2>1 DEF TablesOK, ImageOK, Image, Add2Log
  <1> QED BY <1>1 DEF TablesOK, ImageOK, Orphanless, Image

----------------------------------------------------------------------------
(* Every step preserves the invariant.                                      *)

\* The rest of TypeOK.
LocalsOK ==
  /\ pc \in {"idle", "each", "get", "set", "ref", "log", "stream", "commit"}
  /\ req \in Queries \cup {NoReq, PushReq}
  /\ todo \subseteq DOMAIN card
  /\ cur \in Nat
  /\ leg \in [kind : Kinds, box : Boxes, n : Qty] \cup {NoLeg}
  /\ pid \in Nat /\ q \in Qty
  /\ cnt \in Nat /\ sum \in Qty
  /\ status \in {"ok", "error", "none"}
  /\ faults \in 0 .. MaxFaults

LEMMA InvParts == /\ IInv <=> TablesOK /\ LocalsOK /\ Working
                  /\ IInv' <=> TablesOK' /\ LocalsOK' /\ Working'
  BY DEF IInv, TypeOK, NoOrphans, TablesOK, LocalsOK

LEMMA FaultOK ==
  ASSUME LocalsOK, Fault
  PROVE  faults' \in 0 .. MaxFaults
  BY StockAssumption DEF LocalsOK, Fault

LEMMA QuantitiesOK ==
  ASSUME NEW a \in Nat
  PROVE  0 \in Qty /\ a % QMod \in Qty /\ Qty \subseteq Nat
  BY TablesAssumption DEF Qty

\* The end of a handler, whatever ends it, leaves nothing behind.
LEMMA EndOK ==
  ASSUME IInv, Restore \/ Commit, pc' = "idle", ResetLocals,
         status' \in {"ok", "error", "none"}, faults' \in 0 .. MaxFaults
  PROVE  IInv'
  <1>1. TablesOK'
    BY RestoreOK, CommitOK, InvParts
  <1>2. LocalsOK'
    BY QuantitiesOK DEF ResetLocals, LocalsOK
  <1>3. Working'
    BY DEF Working
  <1> QED BY <1>1, <1>2, <1>3, InvParts

LEMMA QueryStep ==
  ASSUME IInv, NEW r \in Queries, Query(r)
  PROVE  IInv'
  <1>1. TablesOK' /\ DOMAIN card' = DOMAIN card
    BY UnchangedOK, InvParts DEF Query
  <1>2. MatchedCards(r.name, r.props, r.box) \subseteq DOMAIN card
    BY DEF MatchedCards
  <1>3. pc' \in {"each", "commit"} /\ todo' \subseteq DOMAIN card'
    BY <1>1, <1>2 DEF Query
  <1>4. LocalsOK'
    BY <1>3, InvParts DEF Query, LocalsOK
  <1>5. Working'
    BY <1>3, KindsOfQueries DEF Query, Working
  <1> QED BY <1>1, <1>4, <1>5, InvParts

LEMMA NextCardStep ==
  ASSUME IInv, NextCard
  PROVE  IInv'
  <1>1. TablesOK' /\ DOMAIN card' = DOMAIN card
    BY UnchangedOK, InvParts DEF NextCard
  <1>2. req \in Queries /\ req' = req
    BY InvParts DEF NextCard, Working
  <1>3. /\ cur' \in DOMAIN card' /\ todo' \subseteq DOMAIN card'
        /\ cur' \in Nat /\ cnt' \in Nat
    <2>1. todo \subseteq DOMAIN card /\ cnt \in Nat
      BY InvParts DEF LocalsOK
    <2>2. DOMAIN card \subseteq Nat
      BY InvParts DEF TablesOK, ImageOK, Image
    <2>3. cur' \in todo /\ todo' \subseteq todo /\ cnt' = cnt + 1
      BY DEF NextCard
    <2> QED BY <1>1, <2>1, <2>2, <2>3
  <1>4. /\ leg' \in [kind : Kinds, box : Boxes, n : Qty]
        /\ leg'.kind \notin {"NEW", "PUT", "DROP"}
        /\ pc' = "get"
    BY <1>2, KindsOfQueries DEF NextCard
  <1>5. LocalsOK'
    BY <1>2, <1>3, <1>4, InvParts DEF NextCard, LocalsOK
  <1>6. Working'
    BY <1>2, <1>3, <1>4, KindsOfQueries DEF Working
  <1> QED BY <1>1, <1>5, <1>6, InvParts

LEMMA CreateStep ==
  ASSUME IInv, Create
  PROVE  IInv'
  <1>1. req \in Queries /\ req' = req
    BY InvParts DEF Create, MustCreate, Working
  <1> DEFINE c == lastCard + 1
             p == lastPack + 1
  <1>2. ImageOK(Image) /\ Orphanless(Image) /\ lastCard \in Nat /\ lastPack \in Nat
    BY InvParts DEF TablesOK, ImageOK, Image
  <1>3. /\ DOMAIN card' = DOMAIN card \cup {c} /\ lastCard' = c
        /\ \A d \in DOMAIN card' : card'[d] \in CardRow
    <2>1. [name |-> req.name, props |-> req.props] \in CardRow
      BY <1>1, KindsOfQueries DEF CardRow
    <2> DEFINE row == [name |-> req.name, props |-> req.props]
    <2> HIDE DEF row
    <2>2. card' = Put(card, lastCard + 1, row) /\ lastCard' = lastCard + 1
      BY DEF Create, InsertCard, row
    <2> QED BY <1>2, <2>1, <2>2 DEF Put, ImageOK, Image, row
  <1>4. /\ DOMAIN pack' = DOMAIN pack \cup {p} /\ lastPack' = p
        /\ \A d \in DOMAIN pack' : pack'[d] \in PackRow /\ pack'[d].card \in DOMAIN card'
    <2> DEFINE row == [card |-> c, box |-> req.box, qty |-> req.n]
    <2>1. row \in PackRow /\ row.card \in DOMAIN card'
      BY <1>1, <1>2, <1>3, KindsOfQueries DEF PackRow
    <2>2. pack' = Put(pack, p, row) /\ lastPack' = p
      BY DEF Create, InsertPack
    <2> HIDE DEF row, c
    <2> QED BY <1>2, <1>3, <2>1, <2>2 DEF Put, ImageOK, Orphanless, Image
  <1>5. TablesOK'
    BY <1>2, <1>3, <1>4, InvParts DEF Create, TablesOK, ImageOK, Orphanless, Image
  <1>6. /\ leg' \in [kind : Kinds, box : Boxes, n : Qty] /\ leg'.kind = "NEW"
        /\ pc' = "ref"
    BY <1>1, KindsOfQueries DEF Create, Kinds
  <1>7. LocalsOK'
    BY <1>1, <1>3, <1>6, InvParts DEF Create, LocalsOK
  <1>8. Working'
    BY <1>1, <1>6, KindsOfQueries DEF Working
  <1> QED BY <1>5, <1>7, <1>8, InvParts

LEMMA CreateFaultStep ==
  ASSUME IInv, CreateFault
  PROVE  IInv'
  <1>1. req \in Queries
    BY InvParts DEF CreateFault, MustCreate, Working
  <1>2. TablesOK' /\ DOMAIN card \subseteq DOMAIN card'
    <2>1. CASE UNCHANGED <<card, lastCard>>
      BY <2>1, UnchangedOK, InvParts DEF CreateFault, tables
    <2>2. ASSUME NEW k \in 0 .. Len(req.props),
                 InsertCard(req.name, SubSeq(req.props, 1, k))
          PROVE  TablesOK' /\ DOMAIN card \subseteq DOMAIN card'
      <3>1. req.name \in Name /\ SubSeq(req.props, 1, k) \in Seq(STRING \X STRING)
        BY <1>1, KindsOfQueries, PartsOfSeq
      <3> QED BY <2>2, <3>1, InsertCardOK, InvParts DEF CreateFault
    <2> QED BY <2>1, <2>2 DEF CreateFault
  <1>3. pc' = "commit"
    BY DEF CreateFault
  <1>4. LocalsOK'
    BY <1>2, <1>3, FaultOK, InvParts DEF CreateFault, LocalsOK, locals
  <1>5. Working'
    BY <1>3 DEF Working
  <1> QED BY <1>2, <1>4, <1>5, InvParts

LEMMA SkipFaultStep ==
  ASSUME IInv, SkipFault
  PROVE  IInv'
  <1>1. TablesOK' /\ DOMAIN card' = DOMAIN card
    BY UnchangedOK, InvParts DEF SkipFault
  <1>2. todo' \subseteq todo
    BY DEF SkipFault
  <1>3. LocalsOK'
    BY <1>1, <1>2, FaultOK, InvParts DEF SkipFault, LocalsOK
  <1>4. Working'
    BY InvParts DEF SkipFault, Working
  <1> QED BY <1>1, <1>3, <1>4, InvParts

LEMMA LoopFaultStep ==
  ASSUME IInv, LoopFault
  PROVE  IInv'
  <1>1. TablesOK' /\ DOMAIN card' = DOMAIN card
    BY UnchangedOK, InvParts DEF LoopFault
  <1>2. LocalsOK'
    BY <1>1, FaultOK, InvParts DEF LoopFault, LocalsOK, locals
  <1>3. Working'
    BY DEF LoopFault, Working
  <1> QED BY <1>1, <1>2, <1>3, InvParts

LEMMA PushOpenStep ==
  ASSUME IInv, PushOpen
  PROVE  IInv'
  <1>1. TablesOK' /\ DOMAIN card' = DOMAIN card
    BY UnchangedOK, InvParts DEF PushOpen
  <1>2. LocalsOK'
    BY <1>1, InvParts DEF PushOpen, LocalsOK
  <1>3. Working'
    BY DEF PushOpen, Working
  <1> QED BY <1>1, <1>2, <1>3, InvParts

LEMMA UpsertOK ==
  ASSUME IInv, NEW i \in Items, Upsert(i),
         UNCHANGED <<pack, boxes, journal, lastPack, saved>>
  PROVE  /\ TablesOK' /\ DOMAIN card \subseteq DOMAIN card'
         /\ cur' \in DOMAIN card' /\ cur' \in Nat
         /\ faults' \in 0 .. MaxFaults
  <1>1. CASE cur' \in FoundCards(i.name, i.props) /\ UNCHANGED <<card, lastCard, faults>>
    <2>1. TablesOK' /\ DOMAIN card' = DOMAIN card
      BY <1>1, UnchangedOK, InvParts DEF tables
    <2>2. cur' \in DOMAIN card
      BY <1>1 DEF FoundCards
    <2>3. DOMAIN card \subseteq Nat
      BY InvParts DEF TablesOK, ImageOK, Image
    <2>4. faults' \in 0 .. MaxFaults
      BY <1>1, InvParts DEF LocalsOK
    <2> QED BY <2>1, <2>2, <2>3, <2>4
  <1>2. ASSUME UNCHANGED faults \/ Fault,
               NEW props \in Seq(STRING \X STRING), InsertCard(i.name, props),
               cur' = lastCard + 1
        PROVE  /\ TablesOK' /\ DOMAIN card \subseteq DOMAIN card'
               /\ cur' \in DOMAIN card' /\ cur' \in Nat
               /\ faults' \in 0 .. MaxFaults
    <2>1. i.name \in Name
      BY DEF Items
    <2>2. TablesOK' /\ DOMAIN card' = DOMAIN card \cup {lastCard + 1}
      BY <1>2, <2>1, InsertCardOK, InvParts
    <2>3. faults' \in 0 .. MaxFaults
      BY <1>2, FaultOK, InvParts DEF LocalsOK
    <2> QED BY <1>2, <2>2, <2>3, InvParts DEF TablesOK, ImageOK, Image
  <1>3. /\ i.props \in Seq(STRING \X STRING)
        /\ \A k \in DOMAIN i.props : RemoveAt(i.props, k) \in Seq(STRING \X STRING)
    BY PartsOfSeq, TablesAssumption DEF Items
  <1> QED BY <1>1, <1>2, <1>3 DEF Upsert

LEMMA PushAddStep ==
  ASSUME IInv, NEW i \in Items, PushAdd(i)
  PROVE  IInv'
  <1>1. /\ TablesOK' /\ DOMAIN card \subseteq DOMAIN card'
        /\ cur' \in DOMAIN card' /\ cur' \in Nat /\ faults' \in 0 .. MaxFaults
    BY UpsertOK DEF PushAdd
  <1>2. /\ leg' \in [kind : Kinds, box : Boxes, n : Qty] /\ leg'.kind = "ADD"
        /\ pc' = "get" /\ req' = req /\ req # NoReq
    <2>1. i.box \in Boxes /\ i.n \in Qty
      BY StockAssumption DEF Items
    <2> QED BY <2>1, InvParts DEF PushAdd, Kinds, Working, PushReq, NoReq
  <1>3. LocalsOK'
    BY <1>1, <1>2, InvParts DEF PushAdd, LocalsOK
  <1>4. Working'
    BY <1>1, <1>2 DEF Working
  <1> QED BY <1>1, <1>3, <1>4, InvParts

LEMMA PushSubStep ==
  ASSUME IInv, NEW i \in Items, PushSub(i)
  PROVE  IInv'
  <1>1. TablesOK' /\ DOMAIN card' = DOMAIN card
    BY UnchangedOK, InvParts DEF PushSub
  <1>2. cur' \in DOMAIN card' /\ cur' \in Nat
    BY <1>1, InvParts DEF PushSub, FoundCards, TablesOK, ImageOK, Image
  <1>3. /\ leg' \in [kind : Kinds, box : Boxes, n : Qty] /\ leg'.kind = "DROP"
        /\ pc' = "get" /\ req' = req /\ req # NoReq
    <2>1. i.box \in Boxes /\ i.n \in Qty
      BY StockAssumption DEF Items
    <2> QED BY <2>1, InvParts DEF PushSub, Kinds, Working, PushReq, NoReq
  <1>4. LocalsOK'
    BY <1>1, <1>2, <1>3, InvParts DEF PushSub, LocalsOK
  <1>5. Working'
    BY <1>2, <1>3 DEF Working
  <1> QED BY <1>1, <1>4, <1>5, InvParts

LEMMA PushSetStep ==
  ASSUME IInv, NEW i \in Items, PushSet(i)
  PROVE  IInv'
  <1>1. /\ TablesOK' /\ DOMAIN card \subseteq DOMAIN card'
        /\ cur' \in DOMAIN card' /\ cur' \in Nat /\ faults' \in 0 .. MaxFaults
    BY UpsertOK DEF PushSet
  <1>2. /\ leg' \in [kind : Kinds, box : Boxes, n : Qty] /\ leg'.kind = "SET"
        /\ pc' = "set" /\ req' = req /\ req # NoReq
    <2>1. i.box \in Boxes /\ i.n \in Qty
      BY StockAssumption DEF Items
    <2> QED BY <2>1, InvParts DEF PushSet, Kinds, Working, PushReq, NoReq
  <1>3. pid' \in Nat /\ q' \in Qty
    <2>1. lastPack \in Nat /\ 0 \in Qty
      BY TablesAssumption, InvParts DEF TablesOK, ImageOK, Image, Qty
    <2> QED BY <2>1 DEF PushSet
  <1>4. LocalsOK'
    BY <1>1, <1>2, <1>3, InvParts DEF PushSet, LocalsOK
  <1>5. Working'
    BY <1>1, <1>2 DEF Working
  <1> QED BY <1>1, <1>4, <1>5, InvParts

LEMMA PushEndStep ==
  ASSUME IInv, PushEnd
  PROVE  IInv'
  <1>1. TablesOK' /\ DOMAIN card' = DOMAIN card
    BY UnchangedOK, InvParts DEF PushEnd
  <1>2. LocalsOK'
    BY <1>1, InvParts DEF PushEnd, LocalsOK, locals
  <1>3. Working'
    BY DEF PushEnd, Working
  <1> QED BY <1>1, <1>2, <1>3, InvParts

LEMMA EndSteps ==
  ASSUME IInv, PushFault \/ Answer \/ CommitFault \/ Crash
  PROVE  IInv'
  <1>1. faults' \in 0 .. MaxFaults
    BY FaultOK, InvParts DEF PushFault, Answer, CommitFault, Crash, LocalsOK
  <1>2. status' \in {"ok", "error", "none"}
    BY InvParts DEF PushFault, Answer, CommitFault, Crash, LocalsOK
  <1> QED BY <1>1, <1>2, EndOK DEF PushFault, Answer, CommitFault, Crash

\* What holds while a leg is worked on.
LEMMA LegOK ==
  ASSUME IInv, pc \in {"get", "set", "ref", "log"}
  PROVE  /\ leg \in [kind : Kinds, box : Boxes, n : Qty]
         /\ leg.box \in Boxes /\ leg.n \in Qty /\ leg.kind \in Kinds
         /\ pid \in Nat /\ q \in Qty /\ sum \in Qty /\ req # NoReq
         /\ (pc # "ref" => leg.kind # "NEW" /\ cur \in DOMAIN card)
         /\ (pc \in {"set", "log"} =>
               leg.kind \in {"SET", "ADD", "SUB", "TAKE", "PUT", "DROP"})
  BY InvParts DEF LocalsOK, Working, Kinds

\* Whatever getQuantity reports, the handler's locals stay typed.
LEMMA AfterGetOK ==
  ASSUME IInv, pc = "get", AfterGet, pid' \in Nat, q' \in Qty, sum' \in Qty,
         faults' \in 0 .. MaxFaults,
         UNCHANGED <<tables, saved, req, todo, cur, leg, cnt, status>>
  PROVE  IInv'
  <1>1. TablesOK' /\ card' = card
    BY UnchangedOK, InvParts DEF tables
  <1>2. LocalsOK'
    BY <1>1, InvParts DEF LocalsOK, AfterGet
  <1>3. Working'
    BY <1>1, LegOK, InvParts DEF Working, AfterGet
  <1> QED BY <1>1, <1>2, <1>3, InvParts

LEMMA GetSteps ==
  ASSUME IInv, Get \/ GetFault
  PROVE  IInv'
  <1>1. CASE Get
    <2>1. PICK row \in GetQuantity(cur, leg.box) :
            pid' = row.id /\ q' = row.qty /\ Count(row.qty)
      BY <1>1 DEF Get
    <2>2. row.id \in Nat /\ row.qty \in Qty
      <3>1. CASE PacksIn(cur, leg.box) = {}
        BY <3>1, TablesAssumption DEF GetQuantity, Qty
      <3>2. CASE PacksIn(cur, leg.box) # {}
        <4>1. PICK p \in PacksIn(cur, leg.box) : row = [id |-> p, qty |-> pack[p].qty]
          BY <3>2 DEF GetQuantity
        <4>2. p \in DOMAIN pack /\ p \in Nat /\ pack[p] \in PackRow
          BY InvParts DEF PacksIn, TablesOK, ImageOK, Image
        <4> QED BY <4>1, <4>2 DEF PackRow
      <3> QED BY <3>1, <3>2
    <2>3. sum' \in Qty
      <3>1. pc = "get" /\ sum \in Qty
        BY <1>1, LegOK DEF Get
      <3>2. (sum + row.qty) % QMod \in Qty
        BY <2>2, <3>1, TablesAssumption DEF Qty
      <3> QED BY <2>1, <3>1, <3>2 DEF Count
    <2>4. faults' \in 0 .. MaxFaults
      BY <1>1, InvParts DEF Get, LocalsOK
    <2> QED BY <1>1, <2>1, <2>2, <2>3, <2>4, AfterGetOK DEF Get
  <1>2. CASE GetFault
    <2>1. 0 \in Nat /\ 0 \in Qty
      BY TablesAssumption DEF Qty
    <2>2. sum' \in Qty /\ faults' \in 0 .. MaxFaults
      BY <1>2, FaultOK, InvParts DEF GetFault, LocalsOK
    <2> QED BY <1>2, <2>1, <2>2, AfterGetOK DEF GetFault
  <1> QED BY <1>1, <1>2

LEMMA SetSteps ==
  ASSUME IInv, Set \/ SetFault
  PROVE  IInv'
  <1>1. pc = "set" /\ pc' = "ref"
    BY DEF Set, SetFault
  <1>2. /\ UNCHANGED <<req, todo, cur, leg, q, cnt, sum, status>>
        /\ card' = card
    BY DEF Set, SetFault, locals, tables
  <1>3. TablesOK' /\ pid' \in Nat /\ faults' \in 0 .. MaxFaults
    <2>1. CASE Set
      <3>1. NewQty(leg.kind, q, leg.n) \in Qty
        BY <1>1, LegOK, LegValues
      <3>2. TablesOK'
        BY <1>1, <2>1, <3>1, LegOK, SetQuantityOK, InvParts DEF Set
      <3>3. pid' \in Nat
        BY <1>1, <2>1, LegOK, InvParts
           DEF Set, SetQuantityId, TablesOK, ImageOK, Image
      <3> QED BY <2>1, <3>2, <3>3, InvParts DEF Set, LocalsOK
    <2>2. CASE SetFault
      BY <2>2, UnchangedOK, FaultOK, InvParts DEF SetFault, LocalsOK, locals
    <2> QED BY <2>1, <2>2
  <1>4. LocalsOK'
    BY <1>1, <1>2, <1>3, InvParts DEF LocalsOK
  <1>5. Working'
    BY <1>1, <1>2, LegOK, InvParts DEF Working
  <1> QED BY <1>3, <1>4, <1>5, InvParts

LEMMA RefSteps ==
  ASSUME IInv, Ref \/ RefFault
  PROVE  IInv'
  <1>1. pc = "ref" /\ pc' = IF leg.kind = "NEW" THEN "commit" ELSE "log"
    BY DEF Ref, RefFault, AfterRef
  <1>2. UNCHANGED <<locals, status>> /\ card' = card
    BY DEF Ref, RefFault, tables
  <1>3. TablesOK' /\ faults' \in 0 .. MaxFaults
    <2>1. CASE Ref
      BY <1>1, <2>1, LegOK, BoxesOK, InvParts DEF Ref, LocalsOK
    <2>2. CASE RefFault
      BY <2>2, UnchangedOK, FaultOK, InvParts DEF RefFault
    <2> QED BY <2>1, <2>2
  <1>4. LocalsOK'
    BY <1>1, <1>2, <1>3, InvParts DEF LocalsOK, locals
  <1>5. leg.kind # "LOOK"
    BY <1>1, InvParts DEF Working
  <1>6. Working'
    BY <1>1, <1>2, <1>5, LegOK, InvParts DEF Working, locals
  <1> QED BY <1>3, <1>4, <1>6, InvParts

LEMMA LogSteps ==
  ASSUME IInv, Log \/ LogFault
  PROVE  IInv'
  <1>1. pc = "log" /\ AfterLog
    BY DEF Log, LogFault
  <1>2. UNCHANGED <<req, todo, cur, pid, q, cnt, sum, status>> /\ card' = card
    BY <1>1 DEF AfterLog
  <1>3. TablesOK' /\ faults' \in 0 .. MaxFaults
    <2>1. CASE Log
      BY <1>1, <2>1, LegOK, LegValues, Add2LogOK, InvParts DEF Log, AfterLog, LocalsOK
    <2>2. CASE LogFault
      BY <1>1, <2>2, UnchangedOK, FaultOK, InvParts DEF LogFault, AfterLog, tables
    <2> QED BY <2>1, <2>2
  <1>4. CASE leg.kind = "TAKE"
    <2>1. req \in Queries
      BY <1>1, <1>4, InvParts DEF Working
    <2>2. LogValue("TAKE", q, leg.n) \in Qty
      BY <1>1, LegOK, LegValues
    <2>3. /\ leg' \in [kind : Kinds, box : Boxes, n : Qty] /\ leg'.kind = "PUT"
          /\ pc' = "get"
      BY <1>1, <1>4, <2>1, <2>2, KindsOfQueries DEF AfterLog, Kinds
    <2>4. LocalsOK'
      BY <1>2, <1>3, <2>3, InvParts DEF LocalsOK
    <2>5. Working'
      BY <1>1, <1>2, <2>1, <2>3, LegOK DEF Working
    <2> QED BY <1>3, <2>4, <2>5, InvParts
  <1>5. CASE leg.kind # "TAKE"
    <2>1. leg' = leg /\ pc' = IF req = PushReq THEN "stream" ELSE "each"
      BY <1>1, <1>5 DEF AfterLog
    <2>2. LocalsOK'
      BY <1>2, <1>3, <2>1, InvParts DEF LocalsOK
    <2>3. Working'
      BY <1>1, <1>2, <2>1, LegOK, InvParts DEF Working, LocalsOK
    <2> QED BY <1>3, <2>2, <2>3, InvParts
  <1> QED BY <1>4, <1>5

LEMMA StutterOK ==
  ASSUME IInv, UNCHANGED vars
  PROVE  IInv'
  <1>1. TablesOK' /\ card' = card
    BY UnchangedOK, InvParts DEF vars, tables
  <1>2. LocalsOK' /\ Working'
    BY <1>1, InvParts DEF LocalsOK, Working, vars, locals
  <1> QED BY <1>1, <1>2, InvParts

LEMMA StepOK ==
  ASSUME IInv, [Next]_vars
  PROVE  IInv'
  <1>1. CASE \E r \in Queries : Query(r)
    BY <1>1, QueryStep
  <1>2. CASE PushOpen
    BY <1>2, PushOpenStep
  <1>3. CASE Step
    BY <1>3, NextCardStep, CreateStep, GetSteps, SetSteps, RefSteps, LogSteps,
       PushEndStep, EndSteps, PushAddStep, PushSubStep, PushSetStep DEF Step
  <1>4. CASE Failure
    BY <1>4, LoopFaultStep, SkipFaultStep, CreateFaultStep, GetSteps, SetSteps, RefSteps,
       LogSteps, EndSteps DEF Failure
  <1> QED BY <1>1, <1>2, <1>3, <1>4, StutterOK DEF Next

\* The invariant holds in every state.
LEMMA Invariance == Spec => []IInv
  <1>1. IInv /\ [Next]_vars => IInv'
    BY StepOK
  <1> QED BY <1>1, InitOK, PTL DEF Spec

\* Every column, local and counter keeps its type, and ids stay below their
\* counters, whatever fails: in the tables and in the locals of RCQueryProcessor.
THEOREM TypeCorrect == Spec => []TypeOK
  <1>1. IInv => TypeOK
    BY DEF IInv
  <1> QED BY <1>1, Invariance, PTL

\* Referential integrity, which no constraint of the schema enforces: no
\* package ever refers to a card that is not there, in the open transaction or
\* in the file, for any number of failing calls and for a crash anywhere.
THEOREM ReferentialIntegrity == Spec => []NoOrphans
  <1>1. IInv => NoOrphans
    BY DEF IInv
  <1> QED BY <1>1, Invariance, PTL

----------------------------------------------------------------------------
(* When no database call fails.                                             *)

NoFaults == MaxFaults = 0

LEMMA NoFault ==
  ASSUME IInv, NoFaults
  PROVE  ~Fault
  BY InvParts DEF NoFaults, Fault, LocalsOK

(* What a table of packages holds of a card.                                *)

PacksOf(packs, c) == {p \in DOMAIN packs : packs[p].card = c}
Quantities(packs) == [p \in DOMAIN packs |-> packs[p].qty]
Numbered(packs) == /\ IsFiniteSet(DOMAIN packs)
                   /\ \A p \in DOMAIN packs : packs[p].qty \in Nat

TotalAdds(g, packs, S) ==
  g = [s \in SUBSET S |-> IF s = {} THEN 0
                          ELSE packs[AnyOf(s)].qty + g[s \ {AnyOf(s)}]]

LEMMA TotalIsSum ==
  ASSUME NEW packs, NEW c, Numbered(packs)
  PROVE  CardTotal(packs, c) = Sum(Quantities(packs), PacksOf(packs, c))
  <1> DEFINE S == PacksOf(packs, c)
             w == Quantities(packs)
             a == CHOOSE g : TotalAdds(g, packs, S)
             b == CHOOSE g : Adds(g, w, S)
  <1>1. CardTotal(packs, c) = a[S]
    BY Zenon DEF CardTotal, MapThenSumSet, MapThenFoldSet, TotalAdds, AnyOf, PacksOf
  <1>2. IsFiniteSet(S)
    BY FS_Subset DEF Numbered, PacksOf
  <1>3. \A g : TotalAdds(g, packs, S) <=> Adds(g, w, S)
    <2>1. ASSUME NEW s \in SUBSET S, s # {} PROVE packs[AnyOf(s)].qty = w[AnyOf(s)]
      BY <2>1, AnyOfIn DEF PacksOf, Quantities
    <2> HIDE DEF S, w
    <2>2. \A g : [s \in SUBSET S |-> IF s = {} THEN 0
                                     ELSE packs[AnyOf(s)].qty + g[s \ {AnyOf(s)}]]
               = [s \in SUBSET S |-> IF s = {} THEN 0
                                     ELSE w[AnyOf(s)] + g[s \ {AnyOf(s)}]]
      BY <2>1
    <2> QED BY <2>2 DEF TotalAdds, Adds
  <1>4. Adds(a, w, S) /\ Adds(b, w, S)
    <2> HIDE DEF S, w
    <2>1. \E g : Adds(g, w, S)
      BY <1>2, SumExists
    <2> QED BY <1>3, <2>1
  <1>5. a[S] = b[S]
    <2> HIDE DEF S, w, a, b
    <2> QED BY <1>2, <1>4, SumUnique
  <1> QED BY <1>1, <1>5 DEF Sum

LEMMA TotalIsNat ==
  ASSUME NEW packs, NEW c, Numbered(packs)
  PROVE  CardTotal(packs, c) \in Nat
  <1>1. IsFiniteSet(PacksOf(packs, c))
    BY FS_Subset DEF Numbered, PacksOf
  <1>2. \A p \in PacksOf(packs, c) : Quantities(packs)[p] \in Nat
    BY DEF Numbered, PacksOf, Quantities
  <1>3. Sum(Quantities(packs), PacksOf(packs, c)) \in Nat
    BY <1>1, <1>2, SumIsInt
  <1> QED BY <1>3, TotalIsSum

\* A row of the card is taken out of the sum.
LEMMA TotalWithout ==
  ASSUME NEW packs, Numbered(packs), NEW p \in DOMAIN packs
  PROVE  CardTotal(packs, packs[p].card)
           = packs[p].qty + Sum(Quantities(packs), PacksOf(packs, packs[p].card) \ {p})
  <1> DEFINE S == PacksOf(packs, packs[p].card)
  <1>1. IsFiniteSet(S)
    BY FS_Subset DEF Numbered, PacksOf
  <1>2. /\ \A x \in S : Quantities(packs)[x] \in Int
        /\ p \in S /\ Quantities(packs)[p] = packs[p].qty
    BY DEF Numbered, PacksOf, Quantities
  <1>3. Sum(Quantities(packs), S) = Quantities(packs)[p] + Sum(Quantities(packs), S \ {p})
    <2> HIDE DEF S
    <2> QED BY <1>1, <1>2, SumWithout
  <1>4. CardTotal(packs, packs[p].card) = Sum(Quantities(packs), S)
    BY TotalIsSum
  <1> QED BY <1>2, <1>3, <1>4

\* One row is written, or inserted: the total of its card changes by what the
\* row holds more, that of no other card does.
LEMMA TotalOfChanged ==
  ASSUME NEW packs, NEW next, Numbered(packs), Numbered(next), NEW p \in DOMAIN next,
         DOMAIN next = DOMAIN packs \cup {p},
         \A x \in DOMAIN packs : x # p => next[x] = packs[x],
         p \in DOMAIN packs => packs[p].card = next[p].card, NEW c
  PROVE  /\ c # next[p].card => CardTotal(next, c) = CardTotal(packs, c)
         /\ c = next[p].card =>
              CardTotal(next, c) + (IF p \in DOMAIN packs THEN packs[p].qty ELSE 0)
                = CardTotal(packs, c) + next[p].qty
  <1> DEFINE rest == PacksOf(packs, c) \ {p}
  <1>1. PacksOf(next, c) \ {p} = rest
    BY DEF PacksOf
  <1>2. IsFiniteSet(rest) /\ \A x \in rest : Quantities(next)[x] = Quantities(packs)[x]
    BY FS_Subset DEF PacksOf, Numbered, Quantities
  <1>3. Sum(Quantities(next), rest) = Sum(Quantities(packs), rest)
    <2> HIDE DEF rest
    <2> QED BY <1>2, SumOfEqual
  <1>4. /\ CardTotal(next, c) = Sum(Quantities(next), PacksOf(next, c))
        /\ CardTotal(packs, c) = Sum(Quantities(packs), PacksOf(packs, c))
        /\ CardTotal(next, c) \in Nat /\ CardTotal(packs, c) \in Nat
    BY TotalIsSum, TotalIsNat
  <1>5. CASE c # next[p].card
    <2>1. PacksOf(next, c) = rest /\ PacksOf(packs, c) = rest
      BY <1>5 DEF PacksOf
    <2> QED BY <1>3, <1>4, <1>5, <2>1
  <1>6. CASE c = next[p].card
    <2>1. CardTotal(next, c) = next[p].qty + Sum(Quantities(next), rest)
      BY <1>1, <1>6, TotalWithout
    <2>2. CASE p \in DOMAIN packs
      <3>1. CardTotal(packs, c) = packs[p].qty + Sum(Quantities(packs), rest)
        BY <1>6, <2>2, TotalWithout
      <3>2. packs[p].qty \in Nat /\ next[p].qty \in Nat
        BY <2>2 DEF Numbered
      <3>3. Sum(Quantities(packs), rest) \in Int
        <4>1. \A x \in rest : Quantities(packs)[x] \in Int
          BY DEF PacksOf, Numbered, Quantities
        <4> HIDE DEF rest
        <4> QED BY <1>2, <4>1, SumIsInt
      <3> HIDE DEF rest
      <3> QED BY <1>3, <1>6, <2>1, <2>2, <3>1, <3>2, <3>3
    <2>3. CASE p \notin DOMAIN packs
      <3>1. PacksOf(packs, c) = rest
        BY <2>3 DEF PacksOf
      <3>2. next[p].qty \in Nat
        BY DEF Numbered
      <3> HIDE DEF rest
      <3> QED BY <1>3, <1>4, <1>6, <2>1, <2>3, <3>1, <3>2
    <2> QED BY <2>2, <2>3
  <1> QED BY <1>5, <1>6

----------------------------------------------------------------------------
(* What a query moves and issues.                                           *)

\* The quantity that has left its box and is not yet in another, and that is
\* of card c.
Moving(c) ==
  IF c # cur THEN 0
  ELSE IF leg.kind = "TAKE" /\ pc \in {"ref", "log"} THEN LogValue("TAKE", q, leg.n)
  ELSE IF leg.kind = "PUT" /\ pc \in {"get", "set"} THEN leg.n
  ELSE 0

\* Between requests the tables are those of the file.
Settled == pc = "idle" => pack = saved.pack

\* A query's legs are those of its code.
LegsFit ==
  pc \in {"get", "set", "ref", "log"} /\ req \in Queries =>
    /\ req.code = "MOV" => leg.kind \in {"TAKE", "PUT"}
    /\ req.code = "SUB" => leg.kind = "SUB" /\ leg.n = req.n

\* What getQuantity told a query is still so when setQuantity is called.
Held ==
  pc = "set" /\ req \in Queries =>
    \/ pid = 0 /\ q = 0
    \/ pid \in DOMAIN pack /\ pack[pid].card = cur /\ pack[pid].qty = q

\* A move: nothing is lost on the way.
Conserved ==
  req \in Queries /\ req.code = "MOV" =>
    \A c \in Nat : (CardTotal(pack, c) + Moving(c)) % QMod = CardTotal(saved.pack, c) % QMod

\* An issue: a card not yet visited has what it had, and none has lost more
\* than was asked for.
Issued ==
  req \in Queries /\ req.code = "SUB" =>
    /\ pc \in {"get", "set", "ref", "log"} => cur \notin todo
    /\ \A c \in Nat :
         /\ c \in todo \/ (c = cur /\ pc \in {"get", "set"}) =>
              CardTotal(pack, c) = CardTotal(saved.pack, c)
         /\ CardTotal(pack, c) <= CardTotal(saved.pack, c)
         /\ CardTotal(saved.pack, c) <= CardTotal(pack, c) + req.n

QInv == Settled /\ LegsFit /\ Held /\ Conserved /\ Issued

LEMMA ImageIsNumbered ==
  ASSUME NEW s, ImageOK(s)
  PROVE  Numbered(s.pack)
  <1>1. IsFiniteSet(1 .. s.lastPack)
    <2>1. s.lastPack \in Int
      BY DEF ImageOK
    <2> QED BY <2>1, FS_Interval
  <1>2. IsFiniteSet(DOMAIN s.pack)
    BY <1>1, FS_Subset DEF ImageOK
  <1>3. \A p \in DOMAIN s.pack : s.pack[p].qty \in Nat
    BY QuantitiesOK DEF ImageOK, PackRow
  <1> QED BY <1>2, <1>3 DEF Numbered

LEMMA PacksAreNumbered ==
  /\ IInv => Numbered(pack) /\ Numbered(saved.pack)
  /\ IInv' => Numbered(pack')
  <1>1. IInv => ImageOK(Image) /\ ImageOK(saved)
    BY InvParts DEF TablesOK
  <1>2. IInv' => ImageOK(Image')
    BY InvParts DEF TablesOK
  <1>3. Image.pack = pack /\ (Image').pack = pack'
    BY DEF Image
  <1> QED BY <1>1, <1>2, <1>3, ImageIsNumbered

LEMMA QueryInit == Init => QInv
  <1>1. NoReq \notin Queries
    BY KindsOfQueries
  <1> QED BY <1>1
          DEF Init, TablesInit, Image, QInv, Settled, LegsFit, Held, Conserved, Issued

\* A handler that ends leaves the tables as in the file, and no request.
LEMMA QueryEnd ==
  ASSUME Restore \/ Commit, ResetLocals, pc' = "idle"
  PROVE  QInv'
  <1>1. pack' = saved'.pack
    BY DEF Restore, Commit, Image, tables
  <1>2. req' \notin Queries
    BY KindsOfQueries DEF ResetLocals
  <1> QED BY <1>1, <1>2 DEF QInv, Settled, LegsFit, Held, Conserved, Issued

\* A pushed card is no query.
LEMMA PushIsNoQuery ==
  ASSUME IInv, req' = PushReq, pc' # "idle"
  PROVE  QInv'
  <1>1. PushReq \notin Queries
    BY KindsOfQueries
  <1> QED BY <1>1 DEF QInv, Settled, LegsFit, Held, Conserved, Issued

LEMMA QueryOpens ==
  ASSUME IInv, QInv, NEW r \in Queries, Query(r)
  PROVE  QInv'
  <1>1. /\ pc = "idle" /\ pc' \in {"each", "commit"} /\ req' = r
        /\ UNCHANGED <<pack, saved>>
    BY DEF Query, tables
  <1>2. pack = saved.pack
    BY <1>1 DEF QInv, Settled
  <1>3. \A c : Moving(c)' = 0
    BY <1>1 DEF Moving
  <1>4. \A c : CardTotal(pack, c) \in Nat
    BY PacksAreNumbered, TotalIsNat
  <1>5. r.n \in Nat
    BY KindsOfQueries, QuantitiesOK
  <1>6. \A c \in Nat : CardTotal(pack, c)' = CardTotal(saved.pack, c)'
                       /\ CardTotal(pack, c)' \in Nat
    BY <1>1, <1>2, <1>4
  <1>7. Conserved'
    BY <1>3, <1>6 DEF Conserved
  <1>8. Issued'
    BY <1>1, <1>5, <1>6 DEF Issued
  <1> QED BY <1>1, <1>2, <1>7, <1>8 DEF QInv, Settled, LegsFit, Held

\* Steps that write nothing, and do not begin or end a leg.
LEMMA QueryQuiet ==
  ASSUME IInv, QInv, UNCHANGED <<pack, saved, req, cur, leg>>,
         todo' = todo \/ (todo' \subseteq todo /\ pc = "each"),
         pc = "idle" <=> pc' = "idle", pc' # "set",
         pc' \in {"get", "ref", "log"} => pc \in {"get", "ref", "log"},
         \A c \in Nat : Moving(c)' = Moving(c),
         pc' = "get" => pc = "get"
  PROVE  QInv'
  <1>1. \A c \in Nat : /\ CardTotal(pack, c)' = CardTotal(pack, c)
                       /\ CardTotal(saved.pack, c)' = CardTotal(saved.pack, c)
    OBVIOUS
  <1>2. Conserved'
    BY <1>1 DEF QInv, Conserved
  <1>3. Issued'
    BY <1>1 DEF QInv, Issued
  <1> QED BY <1>2, <1>3 DEF QInv, Settled, LegsFit, Held

LEMMA QueryNextCard ==
  ASSUME IInv, QInv, NextCard
  PROVE  QInv'
  <1>1. /\ pc = "each" /\ pc' = "get" /\ req' = req
        /\ cur' \in todo /\ todo' = todo \ {cur'}
        /\ leg' = [kind |-> FirstKind(req.code), box |-> req.box, n |-> req.n]
        /\ UNCHANGED <<pack, saved>>
    BY DEF NextCard, tables
  <1>2. \A c \in Nat : /\ CardTotal(pack, c)' = CardTotal(pack, c)
                       /\ CardTotal(saved.pack, c)' = CardTotal(saved.pack, c)
    BY <1>1
  <1>3. leg'.kind # "PUT" /\ \A c \in Nat : Moving(c) = 0 /\ Moving(c)' = 0
    <2>1. leg'.kind # "PUT"
      BY <1>1, KindsOfQueries, InvParts DEF Working
    <2> QED BY <1>1, <2>1 DEF Moving
  <1>4. Conserved'
    BY <1>1, <1>2, <1>3 DEF QInv, Conserved
  <1>5. Issued'
    BY <1>1, <1>2 DEF QInv, Issued
  <1>6. LegsFit'
    BY <1>1 DEF LegsFit, FirstKind
  <1> QED BY <1>1, <1>4, <1>5, <1>6 DEF QInv, Settled, Held

LEMMA QueryCreate ==
  ASSUME IInv, QInv, Create
  PROVE  QInv'
  <1>1. pc' = "ref" /\ req' = req /\ req.code = "SET"
    BY DEF Create, MustCreate
  <1> QED BY <1>1 DEF QInv, Settled, LegsFit, Held, Conserved, Issued

LEMMA QueryGet ==
  ASSUME IInv, QInv, Get
  PROVE  QInv'
  <1>1. /\ pc = "get" /\ pc' \in {"each", "set"}
        /\ UNCHANGED <<pack, saved, req, todo, cur, leg>>
        /\ pc' = IF leg.kind = "LOOK" THEN "each" ELSE "set"
    BY DEF Get, AfterGet, tables
  <1>2. \A c \in Nat : /\ CardTotal(pack, c)' = CardTotal(pack, c)
                       /\ CardTotal(saved.pack, c)' = CardTotal(saved.pack, c)
                       /\ Moving(c)' = Moving(c)
    BY <1>1 DEF Moving
  <1>3. Held'
    BY <1>1 DEF Get, GetQuantity, PacksIn, Held
  <1>4. Conserved'
    BY <1>1, <1>2 DEF QInv, Conserved
  <1>5. Issued'
    BY <1>1, <1>2 DEF QInv, Issued
  <1> QED BY <1>1, <1>3, <1>4, <1>5 DEF QInv, Settled, LegsFit

LEMMA QueryRefLog ==
  ASSUME IInv, QInv, Ref \/ Log
  PROVE  QInv'
  <1>1. CASE Ref
    <2>1. /\ pc = "ref" /\ pc' \in {"commit", "log"} /\ (pc' = "commit" <=> leg.kind = "NEW")
          /\ UNCHANGED <<pack, saved, req, todo, cur, leg, q>>
      BY <1>1 DEF Ref, AfterRef, locals
    <2>2. \A c \in Nat : Moving(c)' = Moving(c)
      BY <2>1 DEF Moving
    <2> QED BY <2>1, <2>2, QueryQuiet
  <1>2. CASE Log
    <2>1. /\ pc = "log" /\ AfterLog /\ UNCHANGED <<pack, saved, req, todo, cur>>
      BY <1>2 DEF Log, AfterLog
    <2>2. CASE leg.kind # "TAKE"
      <3>1. UNCHANGED leg /\ pc' \in {"stream", "each"}
        BY <2>1, <2>2 DEF AfterLog
      <3>2. \A c \in Nat : Moving(c)' = Moving(c)
        BY <2>1, <2>2, <3>1 DEF Moving
      <3> QED BY <2>1, <3>1, <3>2, QueryQuiet
    <2>3. CASE leg.kind = "TAKE"
      <3>1. leg' = [kind |-> "PUT", box |-> req.dest, n |-> LogValue("TAKE", q, leg.n)]
            /\ pc' = "get"
        BY <2>1, <2>3 DEF AfterLog
      <3>2. \A c \in Nat : /\ CardTotal(pack, c)' = CardTotal(pack, c)
                           /\ CardTotal(saved.pack, c)' = CardTotal(saved.pack, c)
                           /\ Moving(c)' = Moving(c)
        BY <2>1, <2>3, <3>1 DEF Moving
      <3>3. Conserved'
        BY <2>1, <3>2 DEF QInv, Conserved
      <3>4. req \in Queries => req.code # "SUB"
        BY <2>1, <2>3 DEF QInv, LegsFit
      <3> QED BY <2>1, <3>1, <3>3, <3>4 DEF QInv, Settled, LegsFit, Held, Issued
    <2> QED BY <2>2, <2>3
  <1> QED BY <1>1, <1>2

\* A write of a query changes the total of its card by what the new quantity is
\* more than the one it was told.
LEMMA SetTotals ==
  ASSUME IInv, IInv', QInv, Set, req \in Queries
  PROVE  \A c \in Nat :
           /\ c # cur => CardTotal(pack', c) = CardTotal(pack, c)
           /\ c = cur => CardTotal(pack', c) + q
                           = CardTotal(pack, c) + NewQty(leg.kind, q, leg.n)
  <1> DEFINE n == NewQty(leg.kind, q, leg.n)
             row == [card |-> cur, box |-> leg.box, qty |-> n]
  <1>1. Numbered(pack) /\ Numbered(pack')
    BY PacksAreNumbered
  <1>2. pc = "set" /\ SetQuantity(pid, cur, leg.box, n)
    BY DEF Set
  <1>3. DOMAIN pack \subseteq 1 .. lastPack /\ lastPack \in Nat
    BY InvParts DEF TablesOK, ImageOK, Image
  <1>4. CASE pid = 0 /\ q = 0
    <2> DEFINE p == lastPack + 1
    <2>1. pack' = Put(pack, p, row)
      BY <1>2, <1>3, <1>4 DEF SetQuantity, InsertPack
    <2> HIDE DEF row
    <2>2. /\ DOMAIN pack' = DOMAIN pack \cup {p} /\ pack'[p] = row
          /\ \A x \in DOMAIN pack : x # p => pack'[x] = pack[x]
          /\ p \notin DOMAIN pack /\ p \in DOMAIN pack'
      BY <1>3, <2>1 DEF Put
    <2>3. row.card = cur /\ row.qty = n
      BY DEF row
    <2> HIDE DEF p, n
    <2>4. ASSUME NEW c \in Nat
          PROVE  /\ c # cur => CardTotal(pack', c) = CardTotal(pack, c)
                 /\ c = cur => CardTotal(pack', c) + 0 = CardTotal(pack, c) + n
      BY <1>1, <2>2, <2>3, TotalOfChanged
    <2> QED BY <1>4, <2>4 DEF n
  <1>5. CASE pid \in DOMAIN pack /\ pack[pid].card = cur /\ pack[pid].qty = q
    <2>1. pack' = [pack EXCEPT ![pid] = row]
      BY <1>2, <1>3, <1>5 DEF SetQuantity
    <2> HIDE DEF row
    <2>2. /\ DOMAIN pack' = DOMAIN pack \cup {pid} /\ pack'[pid] = row
          /\ \A x \in DOMAIN pack : x # pid => pack'[x] = pack[x]
          /\ pid \in DOMAIN pack'
      BY <1>5, <2>1
    <2>3. row.card = cur /\ row.qty = n
      BY DEF row
    <2> HIDE DEF n
    <2>4. ASSUME NEW c \in Nat
          PROVE  /\ c # cur => CardTotal(pack', c) = CardTotal(pack, c)
                 /\ c = cur => CardTotal(pack', c) + pack[pid].qty = CardTotal(pack, c) + n
      BY <1>1, <1>5, <2>2, <2>3, TotalOfChanged
    <2> QED BY <1>5, <2>4 DEF n
  <1> QED BY <1>2, <1>4, <1>5 DEF QInv, Held

LEMMA Arrives ==
  ASSUME NEW before \in Int, NEW after \in Int, NEW old \in Int, NEW new \in Int,
         NEW n \in Int, NEW m \in Int, new = old + n \/ new + m = old + n,
         after + old = before + new
  PROVE  after = before + n \/ after + m = before + n
  OBVIOUS

LEMMA QuerySet ==
  ASSUME IInv, IInv', QInv, Set
  PROVE  QInv'
  <1>1. /\ pc = "set" /\ pc' = "ref"
        /\ UNCHANGED <<saved, req, todo, cur, leg, q>>
    BY DEF Set
  <1>2. q \in 0 .. QMod - 1 /\ leg.n \in 0 .. QMod - 1 /\ QMod \in Nat \ {0}
    BY <1>1, LegOK, TablesAssumption DEF Qty
  <1>3. \A c \in Nat : CardTotal(pack, c) \in Nat /\ CardTotal(pack', c) \in Nat
                       /\ CardTotal(saved.pack, c) \in Nat
    BY PacksAreNumbered, TotalIsNat
  <1>4. CASE req \notin Queries
    BY <1>1, <1>4 DEF QInv, Settled, LegsFit, Held, Conserved, Issued
  <1>5. CASE req \in Queries
    <2>1. \A c \in Nat :
           /\ c # cur => CardTotal(pack', c) = CardTotal(pack, c)
           /\ c = cur => CardTotal(pack', c) + q
                           = CardTotal(pack, c) + NewQty(leg.kind, q, leg.n)
      BY <1>5, SetTotals
    <2>2. Conserved'
      <3> SUFFICES ASSUME req.code = "MOV", NEW c \in Nat
                   PROVE  (CardTotal(pack', c) + Moving(c)') % QMod = CardTotal(saved.pack, c) % QMod
        BY <1>1 DEF Conserved
      <3>1. (CardTotal(pack, c) + Moving(c)) % QMod = CardTotal(saved.pack, c) % QMod
        BY <1>5 DEF QInv, Conserved
      <3>2. CASE c # cur
        BY <1>1, <2>1, <3>1, <3>2 DEF Moving
      <3>3. CASE c = cur /\ leg.kind = "TAKE"
        <4>1. Moving(c) = 0 /\ Moving(c)' = LogValue("TAKE", q, leg.n)
          BY <1>1, <3>3 DEF Moving
        <4>2. NewQty("TAKE", q, leg.n) + LogValue("TAKE", q, leg.n) = q
              /\ NewQty("TAKE", q, leg.n) \in Int /\ LogValue("TAKE", q, leg.n) \in Int
          BY <1>2 DEF NewQty, LogValue
        <4>3. CardTotal(pack', c) + Moving(c)' = CardTotal(pack, c) + Moving(c)
          <5>1. CardTotal(pack', c) + q = CardTotal(pack, c) + NewQty("TAKE", q, leg.n)
            BY <2>1, <3>3
          <5>2. CardTotal(pack', c) \in Int /\ CardTotal(pack, c) \in Int /\ q \in Int
            BY <1>2, <1>3
          <5>3. CardTotal(pack', c) + LogValue("TAKE", q, leg.n) = CardTotal(pack, c)
            BY <4>2, <5>1, <5>2
          <5>4. CardTotal(pack, c) + 0 = CardTotal(pack, c)
            BY <5>2
          <5> QED BY <4>1, <5>3, <5>4
        <4> QED BY <3>1, <4>3
      <3>4. CASE c = cur /\ leg.kind = "PUT"
        <4>1. Moving(c) = leg.n /\ Moving(c)' = 0
          BY <1>1, <3>4 DEF Moving
        <4>2. NewQty("PUT", q, leg.n) = q + leg.n \/ NewQty("PUT", q, leg.n) + QMod = q + leg.n
          BY <1>2 DEF NewQty
        <4>3. NewQty("PUT", q, leg.n) \in Int
          BY <1>2 DEF NewQty
        <4>4. \/ CardTotal(pack', c) = CardTotal(pack, c) + leg.n
              \/ CardTotal(pack', c) + QMod = CardTotal(pack, c) + leg.n
          <5>1. CardTotal(pack', c) + q = CardTotal(pack, c) + NewQty("PUT", q, leg.n)
            BY <2>1, <3>4
          <5>2. /\ CardTotal(pack', c) \in Int /\ CardTotal(pack, c) \in Int /\ q \in Int
                /\ leg.n \in Int /\ QMod \in Int
            BY <1>2, <1>3
          <5> DEFINE before == CardTotal(pack, c)
                     after == CardTotal(pack', c)
                     new == NewQty("PUT", q, leg.n)
          <5>3. /\ before \in Int /\ after \in Int /\ q \in Int /\ new \in Int
                /\ leg.n \in Int /\ QMod \in Int
            BY <4>3, <5>2
          <5>4. after + q = before + new /\ (new = q + leg.n \/ new + QMod = q + leg.n)
            BY <4>2, <5>1
          <5> HIDE DEF before, after, new
          <5>5. after = before + leg.n \/ after + QMod = before + leg.n
            BY <5>3, <5>4, Arrives
          <5> QED BY <5>5 DEF before, after
        <4>5. CardTotal(pack', c) % QMod = (CardTotal(pack, c) + leg.n) % QMod
          <5>1. (CardTotal(pack', c) + QMod) % QMod = CardTotal(pack', c) % QMod
            <6>1. CardTotal(pack', c) \in Int /\ QMod \in Nat \ {0}
              BY <1>2, <1>3
            <6> QED BY <6>1, ModAgain
          <5> QED BY <4>4, <5>1
        <4>6. CardTotal(pack', c) + Moving(c)' = CardTotal(pack', c)
          BY <1>3, <4>1
        <4> QED BY <3>1, <4>1, <4>5, <4>6
      <3> QED BY <1>1, <1>5, <3>2, <3>3, <3>4 DEF QInv, LegsFit
    <2>3. Issued'
      <3> SUFFICES ASSUME req.code = "SUB"
                   PROVE  /\ cur \notin todo
                          /\ \A c \in Nat :
                               /\ c \in todo => CardTotal(pack', c) = CardTotal(saved.pack, c)
                               /\ CardTotal(pack', c) <= CardTotal(saved.pack, c)
                               /\ CardTotal(saved.pack, c) <= CardTotal(pack', c) + req.n
        BY <1>1 DEF Issued
      <3>1. leg.kind = "SUB" /\ leg.n = req.n /\ cur \notin todo
        BY <1>1, <1>5 DEF QInv, LegsFit, Issued
      <3>2. NewQty("SUB", q, leg.n) <= q /\ q <= NewQty("SUB", q, leg.n) + leg.n
            /\ NewQty("SUB", q, leg.n) \in Int
        BY <1>2 DEF NewQty
      <3>3. ASSUME NEW c \in Nat
            PROVE  /\ c \in todo => CardTotal(pack', c) = CardTotal(saved.pack, c)
                   /\ CardTotal(pack', c) <= CardTotal(saved.pack, c)
                   /\ CardTotal(saved.pack, c) <= CardTotal(pack', c) + req.n
        <4>1. /\ c \in todo \/ c = cur => CardTotal(pack, c) = CardTotal(saved.pack, c)
              /\ CardTotal(pack, c) <= CardTotal(saved.pack, c)
              /\ CardTotal(saved.pack, c) <= CardTotal(pack, c) + req.n
          BY <1>1, <1>5 DEF QInv, Issued
        <4>2. CASE c # cur
          BY <2>1, <4>1, <4>2
        <4>3. CASE c = cur
          BY <1>2, <1>3, <2>1, <3>1, <3>2, <4>1, <4>3
        <4> QED BY <4>2, <4>3
      <3> QED BY <3>1, <3>3
    <2> QED BY <1>1, <2>2, <2>3 DEF QInv, Settled, LegsFit, Held
  <1> QED BY <1>4, <1>5

LEMMA QueryStepOK ==
  ASSUME IInv, IInv', QInv, NoFaults, [Next]_vars
  PROVE  QInv'
  <1>1. CASE \E r \in Queries : Query(r)
    BY <1>1, QueryOpens
  <1>2. CASE PushOpen
    BY <1>2, PushIsNoQuery DEF PushOpen
  <1>3. CASE PushEnd \/ \E i \in Items : PushAdd(i) \/ PushSub(i) \/ PushSet(i)
    <2>1. req = PushReq /\ req' = req /\ pc' # "idle"
      BY <1>3, InvParts DEF PushEnd, PushAdd, PushSub, PushSet, locals, Working
    <2> QED BY <2>1, PushIsNoQuery
  <1>4. CASE Answer \/ Crash
    BY <1>4, QueryEnd DEF Answer, Crash
  <1>5. CASE Step
    BY <1>3, <1>4, <1>5, QueryNextCard, QueryCreate, QueryGet, QuerySet, QueryRefLog DEF Step
  <1>6. CASE Failure
    BY <1>4, <1>6, NoFault DEF Failure, LoopFault, CreateFault, PushFault,
       SkipFault, GetFault, SetFault, RefFault, LogFault, CommitFault
  <1>7. CASE UNCHANGED vars
    <2>1. \A c : Moving(c)' = Moving(c)
      BY <1>7 DEF vars, locals, Moving
    <2> QED BY <1>7, <2>1 DEF QInv, Settled, LegsFit, Held, Conserved, Issued, vars, tables, locals
  <1> QED BY <1>1, <1>2, <1>5, <1>6, <1>7 DEF Next

LEMMA QueryInvariance ==
  ASSUME NoFaults
  PROVE  Spec => [](IInv /\ QInv)
  <1>1. IInv /\ QInv /\ [Next]_vars => IInv' /\ QInv'
    BY StepOK, QueryStepOK
  <1> QED BY <1>1, InitOK, QueryInit, PTL DEF Spec

\* A query that moves changes no card's total, modulo 2^64, in whatever boxes,
\* also when one is part of the other or both are the same: for any number of
\* cards, boxes and packages, as long as no database call throws.
THEOREM MovesConserve ==
  ASSUME NoFaults
  PROVE  Spec => MoveConserves
  <1>1. ASSUME IInv, QInv, Answer, req.code = "MOV", NEW c \in DOMAIN card
        PROVE  CardTotal(pack, c) % QMod = CardTotal(saved.pack, c) % QMod
    <2>1. req \in Queries
      <3>1. req # NoReq /\ req # PushReq
        BY <1>1 DEF NoReq, PushReq
      <3> QED BY <1>1, <3>1, InvParts DEF LocalsOK
    <2>2. c \in Nat /\ CardTotal(pack, c) \in Nat
      BY PacksAreNumbered, TotalIsNat, InvParts, <1>1 DEF TablesOK, ImageOK, Image
    <2>3. Moving(c) = 0
      BY <1>1 DEF Answer, Done, Moving
    <2> QED BY <1>1, <2>1, <2>2, <2>3 DEF QInv, Conserved
  <1> DEFINE Kept ==
        Answer /\ req.code = "MOV" =>
          \A c \in DOMAIN card :
            CardTotal(pack, c) % QMod = CardTotal(saved.pack, c) % QMod
  <1>2. IInv /\ QInv => Kept
    BY <1>1
  <1>3. MoveConserves <=> [][Kept]_vars
    BY DEF MoveConserves
  <1> HIDE DEF Kept
  <1> QED BY <1>2, <1>3, QueryInvariance, PTL

\* A query that issues leaves no card more than it had, which a wrap below zero
\* would, and takes at most the number asked for from each, in whatever boxes,
\* as long as no database call throws.
THEOREM IssuesAreBounded ==
  ASSUME NoFaults
  PROVE  Spec => IssueBounded
  <1>1. ASSUME IInv, QInv, Answer, req.code = "SUB", NEW c \in DOMAIN saved.card
        PROVE  /\ CardTotal(pack, c) <= CardTotal(saved.pack, c)
               /\ CardTotal(saved.pack, c) <= CardTotal(pack, c) + req.n
    <2>1. req \in Queries
      <3>1. req # NoReq /\ req # PushReq
        BY <1>1 DEF NoReq, PushReq
      <3> QED BY <1>1, <3>1, InvParts DEF LocalsOK
    <2>2. c \in Nat
      BY <1>1, InvParts DEF TablesOK, ImageOK
    <2> QED BY <1>1, <2>1, <2>2 DEF QInv, Issued
  <1> DEFINE Bounded ==
        Answer /\ req.code = "SUB" =>
          \A c \in DOMAIN saved.card :
            /\ CardTotal(pack, c) <= CardTotal(saved.pack, c)
            /\ CardTotal(saved.pack, c) <= CardTotal(pack, c) + req.n
  <1>2. IInv /\ QInv => Bounded
    BY <1>1
  <1>3. IssueBounded <=> [][Bounded]_vars
    BY DEF IssueBounded
  <1> HIDE DEF Bounded
  <1> QED BY <1>2, <1>3, QueryInvariance, PTL

----------------------------------------------------------------------------
(* What the journal accounts for.                                           *)

Signs(log) == [i \in DOMAIN log |-> SignedValue(log[i])]
LogTotal(p) == Sum(Signs(journal), Logged(p))

\* The entry still to be written, for package p.
Pending(p) ==
  IF pc \in {"ref", "log"} /\ p = pid
  THEN SignedValue([op |-> LogOp(leg.kind), value |-> LogValue(leg.kind, q, leg.n)])
  ELSE 0

Accounting == req \in Queries /\ req.code \in {"ADD", "MOV"}

\* A transaction only adds to the tables; its entries are about packages there
\* are, and its legs are of the kinds of its code.
Grown ==
  /\ pc = "idle" => journal = saved.journal
  /\ Accounting =>
       /\ Len(saved.journal) <= Len(journal)
       /\ DOMAIN saved.pack \subseteq DOMAIN pack
       /\ \A i \in NewEntries : journal[i].pack \in DOMAIN pack
       /\ pc \in {"get", "set", "ref", "log"} => leg.kind \in {"ADD", "TAKE", "PUT"}
       /\ pc \in {"ref", "log"} => pid \in DOMAIN pack

\* Every remainder is what it was and what was logged since.
Accounted ==
  Accounting =>
    \A p \in DOMAIN pack :
      pack[p].qty = (QtyBefore(p) + (LogTotal(p) + Pending(p))) % QMod

JInv == Grown /\ Accounted

LEMMA SumOfLogged ==
  ASSUME NEW S, IsFiniteSet(S), NEW log, S \subseteq DOMAIN log
  PROVE  MapThenSumSet(LAMBDA i : SignedValue(log[i]), S) = Sum(Signs(log), S)
  <1> DEFINE LogAdds(g) == g = [s \in SUBSET S |-> IF s = {} THEN 0
                                ELSE SignedValue(log[AnyOf(s)]) + g[s \ {AnyOf(s)}]]
             w == Signs(log)
             a == CHOOSE g : LogAdds(g)
             b == CHOOSE g : Adds(g, w, S)
  <1>1. MapThenSumSet(LAMBDA i : SignedValue(log[i]), S) = a[S]
    BY Zenon DEF MapThenSumSet, MapThenFoldSet, AnyOf
  <1>2. \A g : LogAdds(g) <=> Adds(g, w, S)
    <2>1. ASSUME NEW s \in SUBSET S, s # {} PROVE SignedValue(log[AnyOf(s)]) = w[AnyOf(s)]
      BY <2>1, AnyOfIn DEF Signs
    <2> HIDE DEF w
    <2>2. \A g : [s \in SUBSET S |-> IF s = {} THEN 0
                                     ELSE SignedValue(log[AnyOf(s)]) + g[s \ {AnyOf(s)}]]
               = [s \in SUBSET S |-> IF s = {} THEN 0
                                     ELSE w[AnyOf(s)] + g[s \ {AnyOf(s)}]]
      BY <2>1
    <2> QED BY <2>2 DEF Adds
  <1>3. Adds(a, w, S) /\ Adds(b, w, S)
    <2> HIDE DEF w, LogAdds
    <2>1. \E g : Adds(g, w, S)
      BY SumExists
    <2> QED BY <1>2, <2>1
  <1>4. a[S] = b[S]
    <2> HIDE DEF w, a, b
    <2> QED BY <1>3, SumUnique
  <1> QED BY <1>1, <1>4 DEF Sum

LEMMA LogIsTyped ==
  ASSUME IInv
  PROVE  /\ journal \in Seq(Entry) /\ Len(journal) \in Nat /\ DOMAIN journal = 1 .. Len(journal)
         /\ Len(saved.journal) \in Nat
         /\ \A i \in DOMAIN journal : SignedValue(journal[i]) \in Int
         /\ \A p : IsFiniteSet(Logged(p)) /\ Logged(p) \subseteq DOMAIN journal
         /\ \A p : LogTotal(p) \in Int
         /\ \A p : QtyBefore(p) \in Int
  <1>1. journal \in Seq(Entry) /\ saved.journal \in Seq(Entry)
    BY InvParts DEF TablesOK, ImageOK, Image
  <1>2. Len(journal) \in Nat /\ DOMAIN journal = 1 .. Len(journal) /\ Len(saved.journal) \in Nat
    BY <1>1
  <1>3. ASSUME NEW i \in DOMAIN journal PROVE SignedValue(journal[i]) \in Int
    <2>1. journal[i] \in Entry
      BY <1>1, <1>2
    <2> QED BY <2>1, TablesAssumption DEF Entry, SignedValue, Qty
  <1>4. \A p : IsFiniteSet(Logged(p)) /\ Logged(p) \subseteq DOMAIN journal
    <2>1. IsFiniteSet(1 .. Len(journal))
      BY <1>2, FS_Interval
    <2>2. \A p : Logged(p) \subseteq DOMAIN journal
      BY DEF Logged, NewEntries
    <2> QED BY <1>2, <2>1, <2>2, FS_Subset
  <1>5. ASSUME NEW p PROVE LogTotal(p) \in Int
    <2>1. \A i \in Logged(p) : Signs(journal)[i] \in Int
      BY <1>3, <1>4 DEF Signs
    <2> QED BY <1>4, <2>1, SumIsInt DEF LogTotal
  <1>6. ASSUME NEW p PROVE QtyBefore(p) \in Int
    BY PacksAreNumbered DEF QtyBefore, Numbered
  <1> QED BY <1>1, <1>2, <1>3, <1>4, <1>5, <1>6

\* What a leg makes of a remainder is what its entry says.
LEMMA LegIsLogged ==
  ASSUME NEW kind \in {"ADD", "TAKE", "PUT"}, NEW old \in Qty, NEW n \in Qty
  PROVE  LET s == SignedValue([op |-> LogOp(kind), value |-> LogValue(kind, old, n)])
         IN  s \in Int /\ NewQty(kind, old, n) = (old + s) % QMod
  <1>1. QMod \in Nat \ {0} /\ old \in 0 .. QMod - 1 /\ n \in 0 .. QMod - 1
    BY TablesAssumption DEF Qty
  <1>2. CASE kind \in {"ADD", "PUT"}
    BY <1>1, <1>2 DEF SignedValue, LogOp, LogValue, NewQty
  <1>3. CASE kind = "TAKE"
    <2> DEFINE left == NewQty("TAKE", old, n)
    <2>1. SignedValue([op |-> LogOp(kind), value |-> LogValue(kind, old, n)])
            = QMod - (IF n > old THEN old ELSE n)
      BY <1>3 DEF SignedValue, LogOp, LogValue
    <2>2. /\ left \in 0 .. QMod - 1
          /\ old + (QMod - (IF n > old THEN old ELSE n)) = left + QMod
      BY <1>1 DEF NewQty
    <2>3. (left + QMod) % QMod = left % QMod /\ left % QMod = left
      <3> HIDE DEF left
      <3>1. left \in Int
        BY <1>1, <2>2
      <3>2. left % QMod = left
        BY <1>1, <2>2
      <3> QED BY <1>1, <3>1, <3>2, ModAgain
    <2>4. NewQty(kind, old, n) = left
      BY <1>3
    <2>5. QMod - (IF n > old THEN old ELSE n) \in Int
      BY <1>1
    <2> HIDE DEF left
    <2> QED BY <2>1, <2>2, <2>3, <2>4, <2>5
  <1> QED BY <1>2, <1>3

LEMMA JournalEnd ==
  ASSUME Restore \/ Commit, ResetLocals, pc' = "idle"
  PROVE  JInv'
  <1>1. journal' = saved'.journal
    BY DEF Restore, Commit, Image, tables
  <1>2. req' \notin Queries
    BY KindsOfQueries DEF ResetLocals
  <1> QED BY <1>1, <1>2 DEF JInv, Grown, Accounted, Accounting

\* Where nothing is accounted for there is nothing to show.
LEMMA JournalIdle ==
  ASSUME ~Accounting', pc' # "idle"
  PROVE  JInv'
  BY DEF JInv, Grown, Accounted

LEMMA JournalOpens ==
  ASSUME IInv, QInv, JInv, NEW r \in Queries, Query(r)
  PROVE  JInv'
  <1>1. /\ pc = "idle" /\ pc' \in {"each", "commit"}
        /\ UNCHANGED <<pack, journal, saved>>
    BY DEF Query, tables
  <1>2. pack = saved.pack /\ journal = saved.journal
    BY <1>1 DEF QInv, Settled, JInv, Grown
  <1>3. NewEntries' = {}
    BY <1>1, <1>2, LogIsTyped DEF NewEntries
  <1>4. \A p : LogTotal(p)' = 0 /\ Pending(p)' = 0
    BY <1>1, <1>3, SumOfNone DEF LogTotal, Logged, Pending
  <1>5. Grown'
    BY <1>1, <1>2, <1>3, LogIsTyped DEF Grown
  <1>6. ASSUME NEW p \in DOMAIN pack
        PROVE  pack[p].qty = (QtyBefore(p) + (0 + 0)) % QMod
    <2>1. pack[p].qty \in 0 .. QMod - 1
      BY InvParts DEF TablesOK, ImageOK, Image, PackRow, Qty
    <2>2. QtyBefore(p) = pack[p].qty
      BY <1>2 DEF QtyBefore
    <2> QED BY <2>1, <2>2, TablesAssumption
  <1>7. QtyBefore(0)' = QtyBefore(0) /\ \A p : QtyBefore(p)' = QtyBefore(p)
    BY <1>1 DEF QtyBefore
  <1>8. Accounted'
    BY <1>1, <1>4, <1>6, <1>7 DEF Accounted
  <1> QED BY <1>5, <1>8 DEF JInv

\* Steps that write neither packages nor entries.
LEMMA JournalQuiet ==
  ASSUME IInv, JInv, UNCHANGED <<pack, journal, saved, req>>, pc' # "idle",
         Accounting /\ pc' \in {"get", "set", "ref", "log"} => leg'.kind \in {"ADD", "TAKE", "PUT"},
         pc' \in {"ref", "log"} => pc \in {"ref", "log"} /\ UNCHANGED pid,
         Accounting => \A p : Pending(p)' = Pending(p)
  PROVE  JInv'
  <1>1. /\ Accounting' = Accounting /\ NewEntries' = NewEntries
        /\ \A p : QtyBefore(p)' = QtyBefore(p) /\ LogTotal(p)' = LogTotal(p)
    BY DEF Accounting, NewEntries, QtyBefore, LogTotal, Logged
  <1>2. Grown'
    BY <1>1 DEF JInv, Grown
  <1>3. Accounted'
    BY <1>1 DEF JInv, Accounted
  <1> QED BY <1>2, <1>3 DEF JInv

LEMMA JournalNextCard ==
  ASSUME IInv, JInv, NextCard
  PROVE  JInv'
  <1>1. /\ pc = "each" /\ pc' = "get" /\ leg'.kind = FirstKind(req.code)
        /\ UNCHANGED <<pack, journal, saved, req>>
    BY DEF NextCard, tables
  <1>2. Accounting => leg'.kind \in {"ADD", "TAKE", "PUT"}
    BY <1>1 DEF Accounting, FirstKind
  <1>3. \A p : Pending(p)' = Pending(p)
    BY <1>1 DEF Pending
  <1> QED BY <1>1, <1>2, <1>3, JournalQuiet

LEMMA JournalGetRef ==
  ASSUME IInv, JInv, Get \/ Ref
  PROVE  JInv'
  <1>1. CASE Get
    <2>1. /\ pc = "get" /\ pc' \in {"each", "set"}
          /\ UNCHANGED <<pack, journal, saved, req, leg>>
      BY <1>1 DEF Get, AfterGet, tables
    <2>2. \A p : Pending(p)' = Pending(p)
      BY <2>1 DEF Pending
    <2> QED BY <2>1, <2>2, JournalQuiet DEF JInv, Grown
  <1>2. CASE Ref
    <2>1. /\ pc = "ref" /\ pc' \in {"commit", "log"} /\ (leg.kind # "NEW" => pc' = "log")
          /\ UNCHANGED <<pack, journal, saved, req, leg, pid, q>>
      BY <1>2 DEF Ref, AfterRef, locals
    <2>2. Accounting => pc' = "log"
      BY <2>1 DEF JInv, Grown
    <2>3. Accounting => \A p : Pending(p)' = Pending(p)
      BY <2>1, <2>2 DEF Pending
    <2> QED BY <2>1, <2>2, <2>3, JournalQuiet DEF JInv, Grown
  <1> QED BY <1>1, <1>2

LEMMA JournalLog ==
  ASSUME IInv, JInv, Log
  PROVE  JInv'
  <1> DEFINE v == LogValue(leg.kind, q, leg.n)
             e == [op |-> LogOp(leg.kind), pack |-> pid, value |-> v]
             k == Len(journal) + 1
  <1>1. /\ pc = "log" /\ AfterLog /\ journal' = Append(journal, e) /\ pc' \in {"get", "stream", "each"}
        /\ UNCHANGED <<pack, saved, req, pid>>
    BY DEF Log, AfterLog, Add2Log
  <1>2. /\ Len(journal') = k /\ DOMAIN journal' = DOMAIN journal \cup {k} /\ k \notin DOMAIN journal
        /\ journal'[k] = e /\ \A i \in DOMAIN journal : journal'[i] = journal[i]
        /\ k \in Nat /\ Len(journal) < k
    <2> HIDE DEF e
    <2>1. journal \in Seq(Entry) /\ Len(journal) \in Nat /\ DOMAIN journal = 1 .. Len(journal)
      BY LogIsTyped
    <2> QED BY <1>1, <2>1
  <1>3. CASE ~Accounting
    BY <1>1, <1>3, JournalIdle DEF Accounting
  <1>4. CASE Accounting
    <2>1. /\ Len(saved.journal) <= Len(journal) /\ pid \in DOMAIN pack
          /\ DOMAIN saved.pack \subseteq DOMAIN pack
          /\ \A i \in NewEntries : journal[i].pack \in DOMAIN pack
      BY <1>1, <1>4 DEF JInv, Grown
    <2>2. NewEntries' = NewEntries \cup {k}
      BY <1>1, <1>2, <2>1, LogIsTyped DEF NewEntries
    <2>3. ASSUME NEW p
          PROVE  /\ p # pid => Logged(p)' = Logged(p)
                 /\ p = pid => Logged(p)' = Logged(p) \cup {k}
                 /\ k \notin Logged(p)
      BY <1>2, <2>2 DEF Logged, NewEntries
    <2>4. leg'.kind \in {"ADD", "TAKE", "PUT"}
      BY <1>1, <1>4 DEF JInv, Grown, AfterLog
    <2>5. Grown'
      <3>1. Len(saved.journal) <= Len(journal')
        BY <1>2, <2>1, LogIsTyped
      <3>2. \A i \in NewEntries' : journal'[i].pack \in DOMAIN pack
        BY <1>2, <2>1, <2>2 DEF NewEntries
      <3> QED BY <1>1, <2>1, <2>4, <3>1, <3>2 DEF Grown
    <2>6. \A i \in DOMAIN journal : Signs(journal')[i] = Signs(journal)[i]
      BY <1>2 DEF Signs
    <2>7. Signs(journal')[k] = Pending(pid) /\ Pending(pid) \in Int
      <3>1. Signs(journal')[k] = SignedValue(e)
        BY <1>2 DEF Signs
      <3>2. SignedValue(e) = SignedValue([op |-> LogOp(leg.kind), value |-> v])
        BY DEF SignedValue
      <3>3. Pending(pid) = SignedValue([op |-> LogOp(leg.kind), value |-> v])
        BY <1>1 DEF Pending
      <3>4. leg.kind \in {"ADD", "TAKE", "PUT"} /\ q \in Qty /\ leg.n \in Qty
        BY <1>1, <1>4, LegOK DEF JInv, Grown
      <3> HIDE DEF e
      <3> QED BY <3>1, <3>2, <3>3, <3>4, LegIsLogged
    <2>8. ASSUME NEW p
          PROVE  /\ p # pid => LogTotal(p)' = LogTotal(p)
                 /\ p = pid => LogTotal(p)' = LogTotal(p) + Pending(pid)
      <3> DEFINE S == Logged(p)
                 w == Signs(journal')
      <3>1. IsFiniteSet(S) /\ S \subseteq DOMAIN journal
        BY LogIsTyped
      <3>2. Sum(w, S) = Sum(Signs(journal), S)
        <4>1. \A i \in S : w[i] = Signs(journal)[i]
          BY <2>6, <3>1
        <4> HIDE DEF S, w
        <4> QED BY <3>1, <4>1, SumOfEqual
      <3>3. CASE p # pid
        BY <2>3, <3>2, <3>3 DEF LogTotal
      <3>4. CASE p = pid
        <4>1. IsFiniteSet(S \cup {k})
          BY <3>1, FS_AddElement
        <4>2. \A i \in S \cup {k} : w[i] \in Int
          BY <2>6, <2>7, <3>1, LogIsTyped DEF Signs
        <4>3. (S \cup {k}) \ {k} = S
          BY <2>3
        <4>4. Sum(w, S \cup {k}) = w[k] + Sum(w, (S \cup {k}) \ {k})
          <5>1. k \in S \cup {k}
            OBVIOUS
          <5> HIDE DEF S, w, k
          <5> QED BY <4>1, <4>2, <5>1, SumWithout
        <4>5. LogTotal(p)' = Sum(w, S \cup {k})
          BY <2>3, <3>4 DEF LogTotal
        <4>6. LogTotal(p) \in Int /\ LogTotal(p) = Sum(Signs(journal), S)
          BY LogIsTyped DEF LogTotal
        <4>7. w[k] = Pending(pid) /\ w[k] \in Int
          BY <2>7
        <4>8. Sum(w, S \cup {k}) = w[k] + LogTotal(p)
          <5> HIDE DEF S, w, k
          <5> QED BY <3>2, <4>3, <4>4, <4>6
        <4> HIDE DEF S, w, k
        <4> QED BY <3>4, <4>5, <4>6, <4>7, <4>8
      <3> QED BY <3>3, <3>4
    <2>9. ASSUME NEW p \in DOMAIN pack
          PROVE  pack[p].qty = (QtyBefore(p) + (LogTotal(p)' + 0)) % QMod
      <3>1. pack[p].qty = (QtyBefore(p) + (LogTotal(p) + Pending(p))) % QMod
        BY <1>4 DEF JInv, Accounted
      <3>2. LogTotal(p)' + 0 = LogTotal(p) + Pending(p)
        <4>1. LogTotal(p) \in Int
          BY LogIsTyped
        <4>2. CASE p # pid
          <5>1. Pending(p) = 0
            BY <4>2 DEF Pending
          <5> QED BY <2>8, <4>1, <4>2, <5>1
        <4>3. CASE p = pid
          BY <2>7, <2>8, <4>1, <4>3
        <4> QED BY <4>2, <4>3
      <3> QED BY <3>1, <3>2
    <2>10. Accounted'
      <3>1. \A p : Pending(p)' = 0 /\ QtyBefore(p)' = QtyBefore(p)
        BY <1>1 DEF Pending, QtyBefore
      <3> QED BY <1>1, <2>9, <3>1 DEF Accounted
    <2> QED BY <2>5, <2>10 DEF JInv
  <1> QED BY <1>3, <1>4

LEMMA JournalSet ==
  ASSUME IInv, QInv, JInv, Set
  PROVE  JInv'
  <1> DEFINE n == NewQty(leg.kind, q, leg.n)
             s == SignedValue([op |-> LogOp(leg.kind), value |-> LogValue(leg.kind, q, leg.n)])
             row == [card |-> cur, box |-> leg.box, qty |-> n]
  <1>1. /\ pc = "set" /\ pc' = "ref" /\ SetQuantity(pid, cur, leg.box, n)
        /\ pid' = SetQuantityId(pid)
        /\ UNCHANGED <<journal, saved, req, leg, q>>
    BY DEF Set
  <1>2. CASE ~Accounting
    BY <1>1, <1>2, JournalIdle DEF Accounting
  <1>3. CASE Accounting
    <2>1. DOMAIN pack \subseteq 1 .. lastPack /\ lastPack \in Nat /\ QMod \in Nat \ {0}
      BY InvParts, TablesAssumption DEF TablesOK, ImageOK, Image
    <2>2. /\ pid' \in DOMAIN pack' /\ DOMAIN pack' = DOMAIN pack \cup {pid'}
          /\ pack'[pid'].qty = n
          /\ \A p \in DOMAIN pack : p # pid' => pack'[p] = pack[p]
          /\ pid' \in DOMAIN pack => pack[pid'].qty = q
          /\ pid' \notin DOMAIN pack => q = 0
      <3>1. CASE pid = 0 /\ q = 0
        <4>1. pid' = lastPack + 1 /\ pack' = Put(pack, pid', row)
          BY <1>1, <2>1, <3>1 DEF SetQuantity, InsertPack, SetQuantityId
        <4> HIDE DEF row
        <4>2. /\ DOMAIN pack' = DOMAIN pack \cup {pid'} /\ pack'[pid'] = row
              /\ \A p \in DOMAIN pack : p # pid' => pack'[p] = pack[p]
          BY <4>1 DEF Put
        <4>3. pid' \notin DOMAIN pack
          BY <2>1, <4>1
        <4> QED BY <3>1, <4>2, <4>3 DEF row
      <3>2. CASE pid \in DOMAIN pack /\ pack[pid].qty = q
        <4>1. pid' = pid /\ pack' = [pack EXCEPT ![pid] = row]
          BY <1>1, <2>1, <3>2 DEF SetQuantity, SetQuantityId
        <4> HIDE DEF row
        <4>2. /\ DOMAIN pack' = DOMAIN pack \cup {pid'} /\ pack'[pid'] = row
              /\ \A p \in DOMAIN pack : p # pid' => pack'[p] = pack[p]
          BY <3>2, <4>1
        <4> QED BY <3>2, <4>1, <4>2 DEF row
      <3> QED BY <1>1, <1>3, <3>1, <3>2 DEF QInv, Held, Accounting
    <2>3. leg.kind \in {"ADD", "TAKE", "PUT"} /\ q \in Qty /\ leg.n \in Qty
      BY <1>1, <1>3, LegOK DEF JInv, Grown
    <2>4. s \in Int /\ n = (q + s) % QMod
      BY <2>3, LegIsLogged
    <2>5. /\ NewEntries' = NewEntries
          /\ \A p : LogTotal(p)' = LogTotal(p) /\ QtyBefore(p)' = QtyBefore(p)
      BY <1>1 DEF NewEntries, LogTotal, Logged, QtyBefore
    <2>6. \A p : Pending(p)' = IF p = pid' THEN s ELSE 0
      BY <1>1 DEF Pending
    <2>7. Grown'
      BY <1>1, <1>3, <2>2, <2>3, <2>5 DEF JInv, Grown, Accounting, NewEntries
    <2>8. \A p \in DOMAIN pack : pack[p].qty = (QtyBefore(p) + (LogTotal(p) + 0)) % QMod
      <3>1. \A p : Pending(p) = 0
        BY <1>1 DEF Pending
      <3> QED BY <1>3, <3>1 DEF JInv, Accounted
    <2>9. ASSUME NEW p \in DOMAIN pack'
          PROVE  pack'[p].qty = (QtyBefore(p) + (LogTotal(p) + Pending(p)')) % QMod
      <3>1. QtyBefore(p) \in Int /\ LogTotal(p) \in Int
        BY LogIsTyped
      <3>2. CASE p # pid'
        <4>1. pack'[p] = pack[p] /\ p \in DOMAIN pack /\ Pending(p)' = 0
          BY <2>2, <2>6, <3>2
        <4> QED BY <2>8, <4>1
      <3>3. CASE p = pid' /\ pid' \in DOMAIN pack
        <4> DEFINE a == QtyBefore(p) + LogTotal(p)
        <4>1. a \in Int /\ LogTotal(p) + 0 = LogTotal(p)
          BY <3>1
        <4>2. q = a % QMod
          BY <2>2, <2>8, <3>3, <4>1
        <4>3. QtyBefore(p) + (LogTotal(p) + s) = a + s
          BY <2>4, <3>1
        <4>4. ((a % QMod) + s) % QMod = (a + s) % QMod
          <5> HIDE DEF a, s
          <5> QED BY <2>1, <2>4, <4>1, ModAdd
        <4>5. pack'[p].qty = (q + s) % QMod /\ Pending(p)' = s
          BY <2>2, <2>4, <2>6, <3>3
        <4> HIDE DEF a, s
        <4> QED BY <4>2, <4>3, <4>4, <4>5
      <3>4. CASE p = pid' /\ pid' \notin DOMAIN pack
        <4>1. QtyBefore(p) = 0
          BY <1>3, <3>4 DEF JInv, Grown, QtyBefore
        <4>2. Logged(p) = {}
          BY <1>3, <3>4 DEF JInv, Grown, Logged
        <4>3. LogTotal(p) = 0
          BY <4>2, SumOfNone DEF LogTotal
        <4>4. pack'[p].qty = (0 + s) % QMod /\ Pending(p)' = s
          BY <2>2, <2>4, <2>6, <3>4
        <4>5. 0 + (0 + s) = 0 + s
          BY <2>4
        <4> HIDE DEF s
        <4> QED BY <4>1, <4>3, <4>4, <4>5
      <3> QED BY <3>2, <3>3, <3>4
    <2>10. Accounted'
      BY <2>5, <2>9 DEF Accounted
    <2> QED BY <2>7, <2>10 DEF JInv
  <1> QED BY <1>2, <1>3

LEMMA JournalStep ==
  ASSUME IInv, QInv, JInv, NoFaults, [Next]_vars
  PROVE  JInv'
  <1>1. CASE \E r \in Queries : Query(r)
    BY <1>1, JournalOpens
  <1>2. CASE PushOpen \/ PushEnd \/ \E i \in Items : PushAdd(i) \/ PushSub(i) \/ PushSet(i)
    <2>1. req' = PushReq /\ pc' # "idle"
      BY <1>2, InvParts DEF PushOpen, PushEnd, PushAdd, PushSub, PushSet, locals, Working
    <2>2. PushReq \notin Queries
      BY KindsOfQueries
    <2> QED BY <2>1, <2>2, JournalIdle DEF Accounting
  <1>3. CASE Create
    <2>1. req' = req /\ req.code = "SET" /\ pc' # "idle"
      BY <1>3 DEF Create, MustCreate
    <2> QED BY <2>1, JournalIdle DEF Accounting
  <1>4. CASE Answer \/ Crash
    BY <1>4, JournalEnd DEF Answer, Crash
  <1>5. CASE Step
    BY <1>2, <1>3, <1>4, <1>5, JournalNextCard, JournalGetRef, JournalSet, JournalLog DEF Step
  <1>6. CASE Failure
    BY <1>4, <1>6, NoFault DEF Failure, LoopFault, CreateFault, PushFault,
       SkipFault, GetFault, SetFault, RefFault, LogFault, CommitFault
  <1>7. CASE UNCHANGED vars
    <2>1. /\ Accounting' = Accounting /\ NewEntries' = NewEntries
          /\ \A p : QtyBefore(p)' = QtyBefore(p) /\ LogTotal(p)' = LogTotal(p)
          /\ \A p : Pending(p)' = Pending(p)
      BY <1>7 DEF vars, tables, locals, Accounting, NewEntries, QtyBefore, LogTotal, Logged, Pending
    <2> QED BY <1>7, <2>1 DEF JInv, Grown, Accounted, vars, tables, locals
  <1> QED BY <1>1, <1>2, <1>5, <1>6, <1>7 DEF Next

LEMMA JournalInit == Init => JInv
  <1>1. NoReq \notin Queries
    BY KindsOfQueries
  <1> QED BY <1>1 DEF Init, TablesInit, Image, JInv, Grown, Accounted, Accounting

\* When a query that adds or moves is answered, every remainder is what it was
\* before plus what the journal gained for it, modulo 2^64: however many legs
\* wrote one package, and when the boxes of a move are one or part of another.
THEOREM JournalIsTrue ==
  ASSUME NoFaults
  PROVE  Spec => JournalAccounts
  <1>1. ASSUME IInv, JInv, Answer, req.code \in {"ADD", "MOV"}, NEW p \in DOMAIN pack
        PROVE  pack[p].qty =
                 (QtyBefore(p) + MapThenSumSet(LAMBDA i : SignedValue(journal[i]), Logged(p))) % QMod
    <2>1. req \in Queries
      <3>1. req # NoReq /\ req # PushReq
        BY <1>1 DEF NoReq, PushReq
      <3> QED BY <1>1, <3>1, InvParts DEF LocalsOK
    <2>2. Pending(p) = 0
      BY <1>1 DEF Answer, Done, Pending
    <2>3. LogTotal(p) \in Int /\ IsFiniteSet(Logged(p)) /\ Logged(p) \subseteq DOMAIN journal
      BY <1>1, LogIsTyped
    <2>4. MapThenSumSet(LAMBDA i : SignedValue(journal[i]), Logged(p)) = LogTotal(p)
      BY <2>3, SumOfLogged DEF LogTotal
    <2>5. LogTotal(p) + 0 = LogTotal(p)
      BY <2>3
    <2>6. pack[p].qty = (QtyBefore(p) + (LogTotal(p) + Pending(p))) % QMod
      BY <1>1, <2>1 DEF JInv, Accounted, Accounting
    <2> QED BY <2>2, <2>4, <2>5, <2>6
  <1> DEFINE Kept ==
        Answer /\ (req.code \in {"ADD", "MOV"}) =>
          \A p \in DOMAIN pack :
            pack[p].qty =
              (QtyBefore(p) + MapThenSumSet(LAMBDA i : SignedValue(journal[i]), Logged(p))) % QMod
  <1>2. IInv /\ JInv => Kept
    BY <1>1
  <1>3. JournalAccounts <=> [][Kept]_vars
    BY DEF JournalAccounts
  <1>4. IInv /\ QInv /\ JInv /\ [Next]_vars => JInv'
    BY JournalStep
  <1> HIDE DEF Kept
  <1> QED BY <1>2, <1>3, <1>4, JournalInit, QueryInvariance, PTL DEF Spec

----------------------------------------------------------------------------
(* What the journal does not leave out.                                     *)

\* Between requests the tables are those of the file, and a transaction issues
\* ids and entries beyond the file's.
Beyond ==
  /\ pc = "idle" => /\ pack = saved.pack /\ journal = saved.journal
                    /\ lastCard = saved.lastCard /\ lastPack = saved.lastPack
  /\ saved.lastCard <= lastCard /\ saved.lastPack <= lastPack
  /\ Len(saved.journal) <= Len(journal)

Owed(p) == pc \in {"ref", "log"} /\ leg.kind # "NEW" /\ p = pid
OfNewCard(p) == p \notin DOMAIN saved.pack /\ pack[p].card \notin DOMAIN saved.card

\* A changed remainder has its entry, or the leg at work is about to write it.
Noted == \A p \in DOMAIN pack :
           QtyBefore(p) # pack[p].qty => Logged(p) # {} \/ Owed(p) \/ OfNewCard(p)

LInv == Beyond /\ Noted

LEMMA CountersAreNat ==
  ASSUME IInv
  PROVE  /\ lastCard \in Nat /\ lastPack \in Nat
         /\ saved.lastCard \in Nat /\ saved.lastPack \in Nat
         /\ DOMAIN pack \subseteq 1 .. lastPack
         /\ DOMAIN saved.card \subseteq 1 .. saved.lastCard
         /\ DOMAIN saved.pack \subseteq 1 .. saved.lastPack
  BY InvParts DEF TablesOK, ImageOK, Image

LEMMA NotedInit == Init => LInv
  BY DEF Init, TablesInit, Image, Empty, LInv, Beyond, Noted, QtyBefore

LEMMA NotedEnd ==
  ASSUME IInv, Restore \/ Commit
  PROVE  LInv'
  <1>1. /\ pack' = saved'.pack /\ journal' = saved'.journal
        /\ lastCard' = saved'.lastCard /\ lastPack' = saved'.lastPack
    BY DEF Restore, Commit, Image, tables
  <1>2. lastCard' \in Nat /\ lastPack' \in Nat /\ Len(journal') \in Nat
    BY CountersAreNat, LogIsTyped DEF Restore, Commit, Image, tables
  <1> QED BY <1>1, <1>2 DEF LInv, Beyond, Noted, QtyBefore

\* Steps that write neither packages nor entries, and leave no leg unlogged.
LEMMA NotedQuiet ==
  ASSUME IInv, LInv, UNCHANGED <<pack, journal, lastPack, saved>>, pc' # "idle",
         lastCard' \in Nat /\ lastCard <= lastCard',
         \A p : Owed(p) => Owed(p)'
  PROVE  LInv'
  <1>1. \A p : /\ QtyBefore(p)' = QtyBefore(p) /\ Logged(p)' = Logged(p)
               /\ OfNewCard(p)' <=> OfNewCard(p)
    BY DEF QtyBefore, Logged, NewEntries, OfNewCard
  <1>2. Noted'
    BY <1>1 DEF LInv, Noted
  <1>3. Beyond'
    BY CountersAreNat DEF LInv, Beyond
  <1> QED BY <1>2, <1>3 DEF LInv

LEMMA NotedCreate ==
  ASSUME IInv, LInv, Create
  PROVE  LInv'
  <1> DEFINE row == [card |-> lastCard + 1, box |-> req.box, qty |-> req.n]
             k == lastPack + 1
  <1>1. /\ pc = "each" /\ pc' = "ref" /\ leg'.kind = "NEW" /\ pack' = Put(pack, k, row)
        /\ lastPack' = lastPack + 1 /\ lastCard' = lastCard + 1
        /\ UNCHANGED <<journal, saved>>
    BY DEF Create, MustCreate, InsertCard, InsertPack
  <1>2. row.card = lastCard + 1 /\ lastCard + 1 \notin DOMAIN saved.card
        /\ k \notin DOMAIN saved.pack
    BY CountersAreNat DEF LInv, Beyond
  <1> HIDE DEF row, k
  <1>3. DOMAIN pack' = DOMAIN pack \cup {k} /\ pack'[k] = row
        /\ \A p \in DOMAIN pack : p # k => pack'[p] = pack[p]
    BY <1>1 DEF Put
  <1>4. \A p : QtyBefore(p)' = QtyBefore(p) /\ Logged(p)' = Logged(p) /\ ~Owed(p)
    BY <1>1 DEF QtyBefore, Logged, NewEntries, Owed
  <1>5. Noted'
    BY <1>1, <1>2, <1>3, <1>4 DEF LInv, Noted, OfNewCard
  <1>6. Beyond'
    BY <1>1, CountersAreNat DEF LInv, Beyond
  <1> QED BY <1>5, <1>6 DEF LInv

\* The one package a leg writes is the one it is about to log.
LEMMA NotedSet ==
  ASSUME IInv, LInv, Set
  PROVE  LInv'
  <1> DEFINE row == [card |-> cur, box |-> leg.box, qty |-> NewQty(leg.kind, q, leg.n)]
  <1>1. /\ pc = "set" /\ pc' = "ref" /\ pid' = SetQuantityId(pid) /\ leg' = leg
        /\ SetQuantity(pid, cur, leg.box, NewQty(leg.kind, q, leg.n))
        /\ UNCHANGED <<journal, lastCard, saved>>
    BY DEF Set
  <1>2. leg.kind # "NEW"
    BY <1>1, InvParts DEF Working
  <1>3. /\ \A p \in DOMAIN pack' : p # pid' => p \in DOMAIN pack /\ pack'[p] = pack[p]
        /\ lastPack <= lastPack'
    <2>1. CASE pid = 0 /\ InsertPack(cur, leg.box, NewQty(leg.kind, q, leg.n))
      <3>1. pid' = lastPack + 1 /\ pack' = Put(pack, lastPack + 1, row)
            /\ lastPack' = lastPack + 1
        BY <1>1, <2>1 DEF InsertPack, SetQuantityId
      <3> HIDE DEF row
      <3> QED BY <3>1, CountersAreNat DEF Put
    <2>2. CASE /\ pid \in DOMAIN pack /\ UNCHANGED lastPack
               /\ pack' = [pack EXCEPT ![pid] = row]
      <3>1. pid' = pid
        BY <1>1, <2>2, CountersAreNat DEF SetQuantityId
      <3> HIDE DEF row
      <3> QED BY <2>2, <3>1, CountersAreNat
    <2>3. CASE UNCHANGED <<pack, lastPack>>
      BY <2>3, CountersAreNat
    <2> QED BY <1>1, <2>1, <2>2, <2>3 DEF SetQuantity
  <1>4. \A p : QtyBefore(p)' = QtyBefore(p) /\ Logged(p)' = Logged(p) /\ ~Owed(p)
    BY <1>1 DEF QtyBefore, Logged, NewEntries, Owed
  <1>5. \A p : Owed(p)' <=> p = pid'
    BY <1>1, <1>2 DEF Owed
  <1>6. \A p \in DOMAIN pack' : p # pid' => (OfNewCard(p)' <=> OfNewCard(p))
    BY <1>1, <1>3 DEF OfNewCard
  <1>7. Noted'
    BY <1>3, <1>4, <1>5, <1>6 DEF LInv, Noted
  <1>8. lastPack' \in Nat
    BY <1>1, CountersAreNat DEF SetQuantity, InsertPack
  <1>9. Beyond'
    BY <1>1, <1>3, <1>8, CountersAreNat DEF LInv, Beyond
  <1> QED BY <1>7, <1>9 DEF LInv

LEMMA NotedLog ==
  ASSUME IInv, LInv, Log
  PROVE  LInv'
  <1> DEFINE e == [op |-> LogOp(leg.kind), pack |-> pid, value |-> LogValue(leg.kind, q, leg.n)]
             k == Len(journal) + 1
  <1>1. /\ pc = "log" /\ journal' = Append(journal, e) /\ pc' \in {"get", "stream", "each"}
        /\ UNCHANGED <<pack, lastPack, lastCard, saved, pid>>
    BY DEF Log, AfterLog, Add2Log
  <1>2. e.pack = pid
    OBVIOUS
  <1> HIDE DEF e
  <1>3. /\ Len(journal') = k /\ DOMAIN journal' = DOMAIN journal \cup {k}
        /\ k \notin DOMAIN journal
        /\ journal'[k] = e /\ \A i \in DOMAIN journal : journal'[i] = journal[i]
        /\ Len(saved.journal) < k /\ k \in Nat
    <2>1. journal \in Seq(Entry) /\ Len(journal) \in Nat /\ DOMAIN journal = 1 .. Len(journal)
          /\ Len(saved.journal) \in Nat
      BY LogIsTyped
    <2> QED BY <1>1, <2>1 DEF LInv, Beyond
  <1>4. k \in Logged(pid)' /\ \A p : Logged(p) \subseteq Logged(p)'
    <2> HIDE DEF k
    <2> QED BY <1>1, <1>2, <1>3 DEF Logged, NewEntries
  <1>5. \A p : /\ QtyBefore(p)' = QtyBefore(p) /\ (OfNewCard(p)' <=> OfNewCard(p))
               /\ Owed(p) => p = pid
    BY <1>1 DEF QtyBefore, OfNewCard, Owed
  <1>6. Noted'
    <2> HIDE DEF k
    <2> QED BY <1>1, <1>4, <1>5 DEF LInv, Noted
  <1>7. Beyond'
    BY <1>1, <1>3, LogIsTyped, CountersAreNat DEF LInv, Beyond
  <1> QED BY <1>6, <1>7 DEF LInv

LEMMA NotedStep ==
  ASSUME IInv, LInv, NoFaults, [Next]_vars
  PROVE  LInv'
  <1>1. CASE (\E r \in Queries : Query(r)) \/ PushOpen \/ NextCard \/ Get \/ Ref \/ PushEnd
    <2>1. UNCHANGED <<pack, journal, lastPack, lastCard, saved>>
      BY <1>1 DEF Query, PushOpen, NextCard, Get, Ref, PushEnd, tables
    <2>2. pc' # "idle"
      BY <1>1 DEF Query, PushOpen, NextCard, Get, AfterGet, Ref, AfterRef, PushEnd
    <2>3. lastCard' \in Nat /\ lastCard <= lastCard'
      BY <2>1, CountersAreNat
    <2>4. \A p : Owed(p) => Owed(p)'
      BY <1>1 DEF Query, PushOpen, NextCard, Get, Ref, AfterRef, PushEnd, Owed, locals
    <2> QED BY <2>1, <2>2, <2>3, <2>4, NotedQuiet
  <1>2. ASSUME NEW i \in Items, PushAdd(i) \/ PushSub(i) \/ PushSet(i)
        PROVE  LInv'
    <2>1. /\ pc = "stream" /\ pc' # "idle" /\ UNCHANGED <<pack, journal, lastPack, saved>>
          /\ lastCard' \in {lastCard, lastCard + 1}
      BY <1>2 DEF PushAdd, PushSub, PushSet, Upsert, InsertCard, tables
    <2> QED BY <2>1, NotedQuiet, CountersAreNat DEF Owed
  <1>3. CASE Answer \/ Crash
    BY <1>3, NotedEnd DEF Answer, Crash
  <1>4. CASE Step
    BY <1>1, <1>2, <1>3, <1>4, NotedCreate, NotedSet, NotedLog DEF Step
  <1>5. CASE Failure
    BY <1>3, <1>5, NoFault DEF Failure, LoopFault, CreateFault, PushFault,
       SkipFault, GetFault, SetFault, RefFault, LogFault, CommitFault
  <1>6. CASE UNCHANGED vars
    <2>1. \A p : /\ QtyBefore(p)' = QtyBefore(p) /\ Logged(p)' = Logged(p)
                 /\ (OfNewCard(p)' <=> OfNewCard(p)) /\ (Owed(p)' <=> Owed(p))
      BY <1>6 DEF vars, tables, locals, QtyBefore, Logged, NewEntries, OfNewCard, Owed
    <2> QED BY <1>6, <2>1 DEF LInv, Beyond, Noted, vars, tables, locals
  <1> QED BY <1>1, <1>4, <1>5, <1>6 DEF Next

\* A remainder an answered request left changed has an entry of that request in
\* the journal, or is that of a card the request created: for queries and
\* streams of pushed cards alike, also with a pushed "=", which writes whichever
\* package its unset id names.
THEOREM ChangesAreLogged ==
  ASSUME NoFaults
  PROVE  Spec => ChangesLogged
  <1> DEFINE Told ==
        Answer =>
          \A p \in DOMAIN pack :
            QtyBefore(p) # pack[p].qty =>
              \/ Logged(p) # {}
              \/ p \notin DOMAIN saved.pack /\ pack[p].card \notin DOMAIN saved.card
  <1>1. LInv => Told
    <2>1. Answer => \A p : ~Owed(p)
      BY DEF Answer, Done, Owed
    <2> QED BY <2>1 DEF LInv, Noted, OfNewCard
  <1>2. ChangesLogged <=> [][Told]_vars
    BY DEF ChangesLogged
  <1>3. IInv /\ LInv /\ [Next]_vars => LInv'
    BY NotedStep
  <1> HIDE DEF Told
  <1> QED BY <1>1, <1>2, <1>3, NotedInit, Invariance, PTL DEF Spec

----------------------------------------------------------------------------
(* Leaf boxes.                                                              *)

\* No box lies in another, and no database call fails.
Flat == FlatBoxes /\ NoFaults

\* A pushed "=" writes to a package it has not looked up.
Looked == "=" \notin PushOps
Stray == ~Looked /\ req = PushReq /\ leg.kind = "SET"

\* One package per card and box.
OneRow(packs) ==
  \A p1, p2 \in DOMAIN packs :
    packs[p1].card = packs[p2].card /\ packs[p1].box = packs[p2].box => p1 = p2

RowsAt(c, b) == {p \in DOMAIN pack : pack[p].card = c /\ pack[p].box = b}

\* The legs that take out.
Departs == leg.kind \in {"SUB", "TAKE"}

\* Between getQuantity and setQuantity the handler knows the one row it will
\* write, or that there is none.
Targeted ==
  pc = "set" => \/ Stray
                \/ pid = 0 /\ RowsAt(cur, leg.box) = {} /\ ~Departs
                \/ pid \in RowsAt(cur, leg.box)

\* Only the box the handler has just put something in may be off the list.
Listed ==
  \A p \in DOMAIN pack : \/ pack[p].box \in boxes
                         \/ pc = "ref" /\ ~Departs /\ leg.box = pack[p].box

\* What is taken out of a box was found in it.
Present ==
  /\ \A c \in todo : req \in Queries => RowsAt(c, req.box) # {}
  /\ pc = "get" /\ Departs => RowsAt(cur, leg.box) # {}

OneRows == Looked => OneRow(pack) /\ OneRow(saved.pack)

FInv == OneRows /\ BoxListed /\ Targeted /\ Listed /\ Present

\* In leaf boxes the range clause of getQuantity finds the rows of that box.
LEMMA FlatPacks ==
  ASSUME IInv, Flat, NEW c, NEW b \in Boxes
  PROVE  PacksIn(c, b) = RowsAt(c, b)
  <1>1. \A p \in DOMAIN pack : pack[p].box \in Boxes
    BY InvParts DEF TablesOK, ImageOK, Image, PackRow
  <1>2. InRange(b, b)
    BY InOwnRange, TablesAssumption
  <1>3. \A p \in DOMAIN pack : InRange(pack[p].box, b) <=> pack[p].box = b
    BY <1>1, <1>2 DEF Flat, FlatBoxes
  <1> QED BY <1>3 DEF PacksIn, RowsAt

\* The invariant of leaf boxes holds at the start, and each step keeps it.
LEMMA FlatInit == Init => FInv
  BY DEF Init, TablesInit, Empty, Image, FInv, OneRows, OneRow, Looked, Stray, BoxListed, Targeted,
         Listed, Present

\* A transaction ends in an image with the property, the open one's or the last
\* one's.
LEMMA FlatEnd ==
  ASSUME IInv, FInv, Restore \/ (Commit /\ pc # "ref"), pc' = "idle", todo' = {}
  PROVE  FInv'
  <1>1. CASE Restore
    BY <1>1 DEF FInv, OneRows, OneRow, Looked, Stray, BoxListed, Targeted, Listed, Present, Restore
  <1>2. CASE Commit /\ pc # "ref"
    <2>1. \A p \in DOMAIN pack : pack[p].box \in boxes
      BY <1>2 DEF FInv, Listed
    <2>2. /\ saved'.pack = pack /\ saved'.boxes = boxes
          /\ pack' = pack /\ boxes' = boxes
      BY <1>2 DEF Commit, Image, tables
    <2> QED BY <2>1, <2>2 DEF FInv, OneRows, OneRow, Looked, Stray, BoxListed, Targeted, Listed, Present
  <1> QED BY <1>1, <1>2

\* Steps that touch neither packages nor the list, and begin no write.
LEMMA FlatQuiet ==
  ASSUME IInv, FInv, UNCHANGED <<pack, boxes, saved>>,
         pc \notin {"ref"}, pc' \notin {"get", "set"},
         todo' = {} \/ (todo' \subseteq todo /\ req' = req)
  PROVE  FInv'
  <1>1. RowsAt(1, 1)' = RowsAt(1, 1) /\ \A c, b : RowsAt(c, b)' = RowsAt(c, b)
    BY DEF RowsAt
  <1> QED BY <1>1 DEF FInv, OneRows, OneRow, Looked, Stray, BoxListed, Targeted, Listed, Present

LEMMA FlatQuery ==
  ASSUME IInv, FInv, Flat, NEW r \in Queries, Query(r)
  PROVE  FInv'
  <1>1. /\ pc = "idle" /\ pc' \in {"each", "commit"} /\ req' = r
        /\ todo' \subseteq MatchedCards(r.name, r.props, r.box)
        /\ UNCHANGED <<pack, boxes, saved>>
    BY DEF Query, tables
  <1>2. r.box \in Boxes
    BY KindsOfQueries
  <1>3. \A c \in todo' : RowsAt(c, r.box)' # {}
    BY <1>1, <1>2, FlatPacks DEF MatchedCards, RowsAt
  <1> QED BY <1>1, <1>3 DEF FInv, OneRows, OneRow, Looked, Stray, BoxListed, Targeted, Listed, Present

LEMMA FlatNextCard ==
  ASSUME IInv, FInv, Flat, NextCard
  PROVE  FInv'
  <1>1. /\ pc = "each" /\ pc' = "get" /\ req' = req
        /\ cur' \in todo /\ todo' \subseteq todo /\ leg'.box = req.box
        /\ UNCHANGED <<pack, boxes, saved>>
    BY DEF NextCard, tables
  <1>2. req \in Queries
    BY <1>1, InvParts DEF Working
  <1>3. RowsAt(cur, leg.box)' # {} /\ \A c \in todo' : RowsAt(c, req.box)' # {}
    BY <1>1, <1>2 DEF RowsAt, FInv, Present
  <1> QED BY <1>1, <1>3 DEF FInv, OneRows, OneRow, Looked, Stray, BoxListed, Targeted, Listed, Present

LEMMA FlatCreate ==
  ASSUME IInv, FInv, Create
  PROVE  FInv'
  <1> DEFINE p == lastPack + 1
             c == lastCard + 1
             row == [card |-> c, box |-> req.box, qty |-> req.n]
  <1>1. /\ pc = "each" /\ pc' = "ref" /\ todo = {} /\ todo' = {}
        /\ leg'.kind = "NEW" /\ leg'.box = req.box
        /\ pack' = Put(pack, p, row)
        /\ UNCHANGED <<boxes, saved>>
    BY DEF Create, MustCreate, InsertPack
  <1>2. p \notin DOMAIN pack /\ \A x \in DOMAIN pack : pack[x].card # c
    BY InvParts DEF TablesOK, ImageOK, Orphanless, Image
  <1>3. /\ DOMAIN pack' = DOMAIN pack \cup {p} /\ pack'[p] = row
        /\ \A x \in DOMAIN pack : pack'[x] = pack[x]
    <2> HIDE DEF row, p, c
    <2> QED BY <1>1, <1>2 DEF Put
  <1>4. OneRows'
    <2>1. row.card = c
      OBVIOUS
    <2> HIDE DEF row, p, c
    <2> QED BY <1>1, <1>2, <1>3, <2>1 DEF FInv, OneRows, OneRow, Looked
  <1>5. Listed'
    BY <1>1, <1>3 DEF FInv, Listed, Departs
  <1> QED BY <1>1, <1>4, <1>5 DEF FInv, OneRows, OneRow, Looked, Stray, BoxListed, Targeted, Present

LEMMA FlatPush ==
  ASSUME IInv, FInv, NEW i \in Items, PushAdd(i) \/ PushSub(i) \/ PushSet(i)
  PROVE  FInv'
  <1>1. /\ pc = "stream" /\ leg'.kind \in {"ADD", "DROP", "SET"}
        /\ pc' = "get" \/ (pc' = "set" /\ leg'.kind = "SET" /\ "=" \in PushOps)
        /\ todo' = todo /\ req' = req /\ UNCHANGED <<pack, boxes, saved>>
    <2>1. CASE PushAdd(i)
      BY <2>1 DEF PushAdd
    <2>2. CASE PushSub(i)
      BY <2>2 DEF PushSub, tables
    <2>3. CASE PushSet(i)
      BY <2>3 DEF PushSet
    <2> QED BY <2>1, <2>2, <2>3
  <1>2. req = PushReq /\ req \notin Queries
    BY <1>1, KindsOfQueries, InvParts DEF Working
  <1> QED BY <1>1, <1>2 DEF FInv, OneRows, OneRow, Looked, Stray, BoxListed, Targeted, Listed, Present, Departs

LEMMA FlatGet ==
  ASSUME IInv, FInv, Flat, Get
  PROVE  FInv'
  <1>1. /\ pc = "get" /\ pc' \in {"each", "set"}
        /\ UNCHANGED <<pack, boxes, saved, req, todo, cur, leg>>
    BY DEF Get, AfterGet, tables
  <1>2. leg.box \in Boxes
    BY <1>1, LegOK
  <1>3. PacksIn(cur, leg.box) = RowsAt(cur, leg.box)
    BY <1>2, FlatPacks
  <1>4. \/ pid' = 0 /\ RowsAt(cur, leg.box) = {}
        \/ pid' \in RowsAt(cur, leg.box)
    BY <1>3 DEF Get, GetQuantity
  <1>5. Departs => RowsAt(cur, leg.box) # {}
    BY <1>1 DEF FInv, Present
  <1>6. Targeted'
    BY <1>1, <1>4, <1>5 DEF Targeted, RowsAt, Departs
  <1> QED BY <1>1, <1>6 DEF FInv, OneRows, OneRow, Looked, Stray, BoxListed, Listed, Present, RowsAt, Departs

LEMMA FlatSet ==
  ASSUME IInv, FInv, Set
  PROVE  FInv'
  <1> DEFINE n == NewQty(leg.kind, q, leg.n)
             row == [card |-> cur, box |-> leg.box, qty |-> n]
  <1>1. /\ pc = "set" /\ pc' = "ref"
        /\ UNCHANGED <<boxes, saved, req, todo, cur, leg>>
    BY DEF Set
  <1>2. DOMAIN pack \subseteq 1 .. lastPack /\ lastPack \in Nat
    BY InvParts DEF TablesOK, ImageOK, Image
  <1>3. row.card = cur /\ row.box = leg.box
    OBVIOUS
  <1>4. CASE pid = 0 /\ RowsAt(cur, leg.box) = {} /\ ~Departs
    <2> DEFINE p == lastPack + 1
    <2>1. pack' = Put(pack, p, row)
      BY <1>2, <1>4 DEF Set, SetQuantity, InsertPack
    <2> HIDE DEF row
    <2>2. /\ DOMAIN pack' = DOMAIN pack \cup {p} /\ pack'[p] = row
          /\ \A x \in DOMAIN pack : pack'[x] = pack[x]
      BY <1>2, <2>1 DEF Put
    <2>3. OneRows'
      BY <1>1, <1>3, <1>4, <2>2 DEF FInv, OneRows, OneRow, Looked, RowsAt
    <2>4. Listed'
      BY <1>1, <1>3, <1>4, <2>2 DEF FInv, Listed, Departs
    <2>5. Present'
      <3>1. \A c, b : RowsAt(c, b) # {} => RowsAt(c, b)' # {}
        <4> HIDE DEF p
        <4> QED BY <2>2 DEF RowsAt
      <3> QED BY <1>1, <3>1 DEF FInv, Present, RowsAt
    <2> QED BY <1>1, <2>3, <2>4, <2>5 DEF FInv, OneRows, OneRow, Looked, Stray, BoxListed, Targeted
  <1>5. CASE pid \in RowsAt(cur, leg.box)
    <2>1. pid \in DOMAIN pack /\ pid # 0
      BY <1>2, <1>5 DEF RowsAt
    <2>2. pack' = [pack EXCEPT ![pid] = row]
      BY <2>1 DEF Set, SetQuantity
    <2> HIDE DEF row
    <2>3. /\ DOMAIN pack' = DOMAIN pack
          /\ \A x \in DOMAIN pack : /\ pack'[x].card = pack[x].card
                                   /\ pack'[x].box = pack[x].box
      BY <1>3, <1>5, <2>2 DEF RowsAt
    <2>4. OneRows'
      BY <1>1, <2>3 DEF FInv, OneRows, OneRow, Looked
    <2>5. Listed'
      BY <1>1, <2>3 DEF FInv, Listed
    <2>6. \A c, b : RowsAt(c, b)' = RowsAt(c, b)
      BY <2>3 DEF RowsAt
    <2> QED BY <1>1, <2>4, <2>5, <2>6 DEF FInv, OneRows, OneRow, Looked, Stray, BoxListed, Targeted, Present
  <1>6. CASE Stray
    <2>1. req \notin Queries
      BY <1>6, KindsOfQueries DEF Stray
    <2>2. \A p \in DOMAIN pack' : \/ p \in DOMAIN pack /\ pack'[p] = pack[p]
                                 \/ pack'[p].box = leg.box
      <3>1. CASE pid = 0 /\ InsertPack(cur, leg.box, n)
        <4>1. pack' = Put(pack, lastPack + 1, row)
          BY <3>1 DEF InsertPack
        <4> HIDE DEF row
        <4> QED BY <1>3, <4>1 DEF Put
      <3>2. CASE pid \in DOMAIN pack /\ pack' = [pack EXCEPT ![pid] = row]
        <4> HIDE DEF row
        <4> QED BY <1>3, <3>2
      <3>3. CASE UNCHANGED pack
        BY <3>3
      <3> QED BY <3>1, <3>2, <3>3 DEF Set, SetQuantity
    <2>3. Listed'
      BY <1>1, <1>6, <2>2 DEF FInv, Listed, Departs, Stray
    <2> QED BY <1>1, <1>6, <2>1, <2>3 DEF FInv, OneRows, BoxListed, Targeted, Present,
               Stray, Looked
  <1> QED BY <1>1, <1>4, <1>5, <1>6 DEF FInv, Targeted

LEMMA FlatRef ==
  ASSUME IInv, FInv, Ref
  PROVE  FInv'
  <1>1. /\ pc = "ref" /\ pc' \in {"commit", "log"}
        /\ UNCHANGED <<pack, saved, req, todo, cur, leg, pid>>
    BY DEF Ref, AfterRef, locals
  <1>2. CASE Departs
    <2>1. \A p \in DOMAIN pack : pack[p].box \in boxes
      BY <1>2 DEF FInv, Listed
    <2>2. UpdateBoxOnRemove(leg.box)
      BY <1>2 DEF Ref, Departs
    <2>3. \A p \in DOMAIN pack' : pack'[p].box \in boxes'
      BY <1>1, <2>1, <2>2 DEF UpdateBoxOnRemove
    <2> QED BY <1>1, <2>3 DEF FInv, OneRows, OneRow, Looked, Stray, BoxListed, Targeted, Listed, Present,
               RowsAt, Departs
  <1>3. CASE ~Departs
    <2>1. boxes' = boxes \cup {leg.box}
      BY <1>3 DEF Ref, Departs, UpdateBoxOnInsert
    <2>2. \A p \in DOMAIN pack' : pack'[p].box \in boxes'
      BY <1>1, <2>1 DEF FInv, Listed
    <2> QED BY <1>1, <2>2 DEF FInv, OneRows, OneRow, Looked, Stray, BoxListed, Targeted, Listed, Present,
               RowsAt, Departs
  <1> QED BY <1>2, <1>3

LEMMA FlatLog ==
  ASSUME IInv, FInv, Log
  PROVE  FInv'
  <1>1. /\ pc = "log"
        /\ UNCHANGED <<pack, boxes, saved, req, todo, cur>>
    BY DEF Log, AfterLog
  <1>2. \/ pc' = "get" /\ leg'.kind = "PUT"
        \/ pc' \in {"stream", "each"}
    BY DEF Log, AfterLog
  <1> QED BY <1>1, <1>2 DEF FInv, OneRows, OneRow, Looked, Stray, BoxListed, Targeted, Listed, Present,
             RowsAt, Departs

\* All actions together.
LEMMA FlatStep ==
  ASSUME IInv, FInv, Flat, [Next]_vars
  PROVE  FInv'
  <1>1. CASE \E r \in Queries : Query(r)
    BY <1>1, FlatQuery
  <1>2. CASE PushOpen
    <2>1. PushReq \notin Queries
      BY KindsOfQueries
    <2> QED BY <1>2, <2>1 DEF PushOpen, FInv, OneRows, OneRow, Looked, Stray, BoxListed, Targeted, Listed,
               Present, RowsAt, tables
  <1>3. CASE PushEnd
    BY <1>3, FlatQuiet DEF PushEnd, tables, locals
  <1>4. CASE Answer \/ Crash
    <2>1. Restore \/ (Commit /\ pc # "ref")
      BY <1>4 DEF Answer, Crash, Done
    <2> QED BY <1>4, <2>1, FlatEnd DEF Answer, Crash, ResetLocals
  <1>5. CASE Step
    BY <1>3, <1>4, <1>5, FlatNextCard, FlatCreate, FlatGet, FlatSet, FlatRef,
       FlatLog, FlatPush DEF Step
  <1>6. CASE Failure
    BY <1>4, <1>6, NoFault DEF Flat, Failure, LoopFault, CreateFault, PushFault,
       SkipFault, GetFault, SetFault, RefFault, LogFault, CommitFault
  <1>7. CASE UNCHANGED vars
    BY <1>7 DEF FInv, OneRows, OneRow, Looked, Stray, BoxListed, Targeted, Listed, Present, RowsAt,
       Departs, vars, tables, locals
  <1> QED BY <1>1, <1>2, <1>5, <1>6, <1>7 DEF Next

\* The invariant of leaf boxes, of every reachable state.
LEMMA FlatInvariance ==
  ASSUME Flat
  PROVE  Spec => [](IInv /\ FInv)
  <1>1. IInv /\ FInv /\ [Next]_vars => IInv' /\ FInv'
    BY FlatStep, StepOK
  <1> QED BY <1>1, InitOK, FlatInit, PTL DEF Spec

\* One remainder per card and box in every committed image: for any number of
\* cards, leaf boxes and requests, queries and pushed cards alike, and a crash
\* anywhere.  A pushed "=" is left out: it writes to whichever package its unset
\* id names.
THEOREM OneRemainder ==
  ASSUME Flat, Looked
  PROVE  Spec => []OneRowPerBox
  <1>1. FInv => OneRowPerBox
    BY DEF FInv, OneRows, OneRow, OneRowPerBox
  <1> QED BY <1>1, FlatInvariance, PTL

\* Every box that holds something is on the list of boxes, in every committed
\* image; also when cards are pushed with "=".
THEOREM BoxesAreListed ==
  ASSUME Flat
  PROVE  Spec => []BoxListed
  <1>1. FInv => BoxListed
    BY DEF FInv
  <1> QED BY <1>1, FlatInvariance, PTL

----------------------------------------------------------------------------
(* The remainders of a package table.                                       *)

\* The quantity at each place (card and box) some package is at.
PlaceMap(packs) ==
  LET at == {<<packs[p].card, packs[p].box>> : p \in DOMAIN packs}
  IN  [l \in at |->
         packs[CHOOSE p \in DOMAIN packs : packs[p].card = l[1] /\ packs[p].box = l[2]].qty]

LEMMA PlacesAre ==
  /\ Places = PlaceMap(saved.pack)
  /\ Places' = PlaceMap(saved'.pack)
  BY DEF Places, PlaceMap

\* One remainder for each place there is a package in, that of the package.
LEMMA PlaceMapIs ==
  ASSUME NEW packs, OneRow(packs)
  PROVE  /\ DOMAIN PlaceMap(packs) = {<<packs[p].card, packs[p].box>> : p \in DOMAIN packs}
         /\ PlaceMap(packs) = [l \in DOMAIN PlaceMap(packs) |-> PlaceMap(packs)[l]]
         /\ \A p \in DOMAIN packs :
              PlaceMap(packs)[<<packs[p].card, packs[p].box>>] = packs[p].qty
  <1> DEFINE at == {<<packs[p].card, packs[p].box>> : p \in DOMAIN packs}
             Of(l) == CHOOSE p \in DOMAIN packs : packs[p].card = l[1] /\ packs[p].box = l[2]
  <1>1. PlaceMap(packs) = [l \in at |-> packs[Of(l)].qty]
    BY DEF PlaceMap
  <1>2. ASSUME NEW p \in DOMAIN packs
        PROVE  Of(<<packs[p].card, packs[p].box>>) = p
    <2> DEFINE l == <<packs[p].card, packs[p].box>>
    <2>1. l[1] = packs[p].card /\ l[2] = packs[p].box
      OBVIOUS
    <2> HIDE DEF l
    <2>2. /\ Of(l) \in DOMAIN packs
          /\ packs[Of(l)].card = packs[p].card /\ packs[Of(l)].box = packs[p].box
      BY <2>1
    <2> HIDE DEF Of
    <2>3. Of(l) = p
      BY <2>2 DEF OneRow
    <2> QED BY <2>3 DEF l
  <1> HIDE DEF Of
  <1> QED BY <1>1, <1>2

\* A table in which one package was written has one new remainder.
LEMMA SetPlace ==
  ASSUME NEW packs, OneRow(packs), NEW new, OneRow(new), NEW p, NEW c, NEW b, NEW n,
         DOMAIN new = DOMAIN packs \cup {p},
         new[p].card = c, new[p].box = b, new[p].qty = n,
         p \in DOMAIN packs => packs[p].card = c /\ packs[p].box = b,
         \A x \in DOMAIN packs \ {p} : new[x] = packs[x]
  PROVE  PlaceMap(new) = Put(PlaceMap(packs), <<c, b>>, n)
  <1> DEFINE P == PlaceMap(packs)
             N == PlaceMap(new)
             U == Put(P, <<c, b>>, n)
  <1>1. /\ DOMAIN P = {<<packs[x].card, packs[x].box>> : x \in DOMAIN packs}
        /\ \A x \in DOMAIN packs : P[<<packs[x].card, packs[x].box>>] = packs[x].qty
    BY PlaceMapIs
  <1>2. /\ DOMAIN N = {<<new[x].card, new[x].box>> : x \in DOMAIN new}
        /\ N = [l \in DOMAIN N |-> N[l]]
        /\ \A x \in DOMAIN new : N[<<new[x].card, new[x].box>>] = new[x].qty
    BY PlaceMapIs
  <1> HIDE DEF P, N
  <1>3. DOMAIN N = DOMAIN P \cup {<<c, b>>}
    <2>1. \A x \in DOMAIN packs \ {p} : new[x].card = packs[x].card /\ new[x].box = packs[x].box
      OBVIOUS
    <2> QED BY <1>1, <1>2, <2>1
  <1>4. N[<<c, b>>] = n
    BY <1>2
  <1>5. ASSUME NEW l \in DOMAIN P, l # <<c, b>> PROVE N[l] = P[l]
    <2>1. PICK x \in DOMAIN packs : l = <<packs[x].card, packs[x].box>>
      BY <1>1, <1>5
    <2>2. x # p
      BY <1>5, <2>1
    <2> QED BY <1>1, <1>2, <2>1, <2>2
  <1> QED BY <1>2, <1>3, <1>4, <1>5 DEF Put, P, N

\* What the tables hold at a place; nothing when no package is there.
Holds(f, c, b) == IF <<c, b>> \in DOMAIN f THEN f[<<c, b>>] ELSE 0

----------------------------------------------------------------------------
(* The ledger's operators.                                                  *)

\* The cards of the file a query hits.
Hits == {c \in DOMAIN saved.card : /\ Matches(req.name, saved.card[c].name)
                                   /\ HasAllProperties(saved.card[c].props, req.props)
                                   /\ <<c, req.box>> \in DOMAIN Places}

\* The cards the ledger says a query hits.
LEMMA HitIs == L!Hit(req) = Hits
  BY Zenon DEF L!Hit, Hits

LEMMA WithIsPut == \A f, k, v : L!With(f, k, v) = Put(f, k, v)
  BY Zenon DEF L!With, Put

\* Steps of the ledger, and a file with the same cards and places, a stutter.
LEMMA LedgerStep ==
  ASSUME NEW r \in Queries, L!SetAll(r) \/ L!SetNew(r) \/ L!Add(r) \/ L!Sub(r) \/ L!Move(r)
  PROVE  L!Next
  BY Zenon DEF L!Next

LEMMA LedgerStutter ==
  ASSUME saved'.card = saved.card, Places' = Places
  PROVE  UNCHANGED L!vars
  BY DEF L!vars

LEMMA LedgerInit == Init => L!Init
  <1> SUFFICES ASSUME Init PROVE L!Init
    OBVIOUS
  <1>1. saved.card = Empty /\ saved.pack = Empty
    BY DEF Init, TablesInit, Image
  <1> QED BY <1>1 DEF L!Init, Places, Empty

----------------------------------------------------------------------------
(* Streams.                                                                 *)

\* g gives the states a stream of k cards leads to from s, for each k.
Reaches(g, s) == g = [k \in 0 .. MaxJournal |->
                        IF k = 0 THEN {s} ELSE g[k - 1] \cup L!AfterOne(g[k - 1])]

\* The states a stream of at most k cards leads to from s.
Reach(s, k) == (CHOOSE g : Reaches(g, s))[k]

\* The state of the ledger that stands for the file.
Start == [cards |-> saved.card, places |-> Places]

\* What the ledger calls streams, and the recursion behind it: it exists, is
\* what its equation says, and grows.
LEMMA StreamsAre == L!Streams = Reach(Start, MaxJournal)
  BY Zenon DEF L!Streams, Reach, Reaches, Start

\* The equation for n cards has a solution: that for one card less, extended.
LEMMA ReachExists ==
  ASSUME NEW s
  PROVE  \E g : Reaches(g, s)
  <1> DEFINE Upto(g, n) == g = [k \in 0 .. n |-> IF k = 0 THEN {s}
                                                ELSE g[k - 1] \cup L!AfterOne(g[k - 1])]
             Bad == {n \in Nat : ~\E g : Upto(g, n)}
  <1> SUFFICES ASSUME Bad # {} PROVE FALSE
    BY StockAssumption DEF Reaches
  <1>1. PICK n \in Bad : \A y \in Bad : n <= y
    BY LeastNumber
  <1>2. n # 0
    <2> DEFINE g == [k \in 0 .. 0 |-> {s}]
    <2>1. Upto(g, 0)
      OBVIOUS
    <2> QED BY <1>1, <2>1
  <1>3. n - 1 \in Nat /\ n - 1 \notin Bad
    <2>1. n \in Nat
      BY <1>1
    <2>2. \A y \in Bad : y \in Nat
      OBVIOUS
    <2> HIDE DEF Bad
    <2> QED BY <1>1, <1>2, <2>1, <2>2
  <1>4. PICK g : Upto(g, n - 1)
    BY <1>3
  <1> DEFINE h == [k \in 0 .. n |-> IF k = n THEN g[n - 1] \cup L!AfterOne(g[n - 1]) ELSE g[k]]
  <1>5. ASSUME NEW k \in 0 .. n
        PROVE  h[k] = IF k = 0 THEN {s} ELSE h[k - 1] \cup L!AfterOne(h[k - 1])
    <2>1. CASE k = n
      <3>1. h[k - 1] = g[n - 1]
        BY <1>3, <2>1
      <3> QED BY <1>2, <2>1, <3>1
    <2>2. CASE k # n
      <3>1. k \in 0 .. n - 1 /\ h[k] = g[k] /\ (k # 0 => h[k - 1] = g[k - 1])
        BY <1>3, <2>2
      <3>2. g[k] = IF k = 0 THEN {s} ELSE g[k - 1] \cup L!AfterOne(g[k - 1])
        BY <1>4, <3>1
      <3> QED BY <3>1, <3>2
    <2> QED BY <2>1, <2>2
  <1>6. Upto(h, n)
    <2> HIDE DEF h
    <2>1. h = [k \in 0 .. n |-> h[k]]
      BY DEF h
    <2> QED BY <1>5, <2>1
  <1> QED BY <1>1, <1>6

\* One more card, one more application of AfterOne.
LEMMA ReachIs ==
  ASSUME NEW s
  PROVE  /\ Reach(s, 0) = {s}
         /\ \A k \in 1 .. MaxJournal :
              Reach(s, k) = Reach(s, k - 1) \cup L!AfterOne(Reach(s, k - 1))
  <1> DEFINE g == CHOOSE g : Reaches(g, s)
  <1>1. Reaches(g, s)
    BY ReachExists
  <1>2. \A k : Reach(s, k) = g[k]
    BY DEF Reach
  <1> HIDE DEF g
  <1>3. 0 \in 0 .. MaxJournal /\ \A k \in 1 .. MaxJournal : k \in 0 .. MaxJournal /\ k # 0
    BY StockAssumption
  <1>4. \A k \in 0 .. MaxJournal : g[k] = IF k = 0 THEN {s} ELSE g[k - 1] \cup L!AfterOne(g[k - 1])
    BY <1>1 DEF Reaches
  <1> QED BY <1>2, <1>3, <1>4

\* A longer stream may also end early.
LEMMA ReachGrows ==
  ASSUME NEW s, NEW k \in 0 .. MaxJournal
  PROVE  Reach(s, k) \subseteq Reach(s, MaxJournal)
  <1> DEFINE Bad == {d \in Nat : d <= MaxJournal
                                 /\ ~(Reach(s, MaxJournal - d) \subseteq Reach(s, MaxJournal))}
  <1>1. MaxJournal \in Nat /\ MaxJournal - k \in Nat
    BY StockAssumption
  <1> SUFFICES ASSUME Bad # {} PROVE FALSE
    <2>1. MaxJournal - k \notin Bad
      OBVIOUS
    <2>2. MaxJournal - (MaxJournal - k) = k /\ MaxJournal - k <= MaxJournal
      BY <1>1
    <2> QED BY <1>1, <2>1, <2>2
  <1>2. PICK d \in Bad : \A y \in Bad : d <= y
    BY LeastNumber
  <1>3. d # 0
    BY <1>1, <1>2
  <1>4. d - 1 \in Nat /\ d - 1 \notin Bad /\ d - 1 <= MaxJournal
    BY <1>1, <1>2, <1>3
  <1>5. /\ MaxJournal - (d - 1) \in 1 .. MaxJournal
        /\ (MaxJournal - (d - 1)) - 1 = MaxJournal - d
    BY <1>1, <1>2, <1>3
  <1>6. Reach(s, MaxJournal - d) \subseteq Reach(s, MaxJournal - (d - 1))
    BY <1>5, ReachIs
  <1> QED BY <1>2, <1>4, <1>6

\* A card pushed in one of the states leads to one of the next.
LEMMA AfterOneIs ==
  ASSUME NEW S, NEW s \in S, NEW i \in Items, NEW t \in L!Pushed(s, i)
  PROVE  t \in L!AfterOne(S)
  BY DEF L!AfterOne

\* A pushed card adds to or takes from the remainder of a card that was found,
\* or is a new one.
LEMMA PushedIs ==
  ASSUME NEW i \in Items, NEW cards, NEW places, NEW c,
         NEW found, found = {x \in DOMAIN cards : /\ cards[x].name = i.name
                                                  /\ HasAllProperties(cards[x].props, i.props)}
  PROVE  LET plus == Put(places, <<c, i.box>>, (i.n + Holds(places, c, i.box)) % QMod)
             minus == Put(places, <<c, i.box>>, (Holds(places, c, i.box) + QMod - i.n) % QMod)
             s == [cards |-> cards, places |-> places]
         IN  /\ c \in found => /\ [cards |-> cards, places |-> plus] \in L!Pushed(s, i)
                               /\ [cards |-> cards, places |-> minus] \in L!Pushed(s, i)
             /\ found = {} /\ c \in 1 .. MaxCards \ DOMAIN cards =>
                  [cards |-> Put(cards, c, [name |-> i.name, props |-> i.props]), places |-> plus]
                    \in L!Pushed(s, i)
  <1> DEFINE s == [cards |-> cards, places |-> places]
             Plus(x) == L!With(s.places, <<x, i.box>>,
                               (i.n + IF <<x, i.box>> \in DOMAIN s.places
                                        THEN s.places[<<x, i.box>>] ELSE 0) % QMod)
             Minus(x) == L!With(s.places, <<x, i.box>>,
                                ((IF <<x, i.box>> \in DOMAIN s.places
                                    THEN s.places[<<x, i.box>>] ELSE 0) + QMod - i.n) % QMod)
             hit == {x \in DOMAIN s.cards : /\ s.cards[x].name = i.name
                                            /\ HasAllProperties(s.cards[x].props, i.props)}
  <1>1. L!Pushed(s, i) =
          {[s EXCEPT !.places = Plus(x)] : x \in hit}
            \cup {[s EXCEPT !.places = Minus(x)] : x \in hit}
            \cup IF hit # {} THEN {}
                 ELSE {[cards |-> L!With(s.cards, x, [name |-> i.name, props |-> i.props]),
                        places |-> Plus(x)] : x \in (1 .. MaxCards) \ DOMAIN s.cards}
    BY Zenon DEF L!Pushed
  <1>2. s.cards = cards /\ s.places = places /\ hit = found
    OBVIOUS
  <1>3. \A v : [s EXCEPT !.places = v] = [cards |-> cards, places |-> v]
    OBVIOUS
  <1>4. /\ Plus(c) = Put(places, <<c, i.box>>, (i.n + Holds(places, c, i.box)) % QMod)
        /\ Minus(c) = Put(places, <<c, i.box>>, (Holds(places, c, i.box) + QMod - i.n) % QMod)
    BY <1>2, WithIsPut DEF Holds
  <1>5. \A x, v : L!With(cards, x, v) = Put(cards, x, v)
    BY WithIsPut
  <1> HIDE DEF s, Plus, Minus, hit
  <1> QED BY <1>1, <1>2, <1>3, <1>4, <1>5 DEF s

----------------------------------------------------------------------------
(* How far a handler is on the way to a step of the ledger.                 *)

\* The places in the open transaction.
Now == PlaceMap(pack)

\* A query in its loop, and in the calls of one leg of it.
Asking == req \in Queries /\ pc \in {"each", "get", "set", "ref", "log"} /\ leg.kind # "NEW"
OnLeg == pc \in {"get", "set", "ref", "log"}

\* What a move takes from a card.
Gone(c) == LogValue("TAKE", Places[<<c, req.box>>], req.n)

\* The cards whose first leg is done, and those whose last one is.
Taken == {c \in Hits \ todo : ~(c = cur /\ pc \in {"get", "set"} /\ leg.kind # "PUT")}
Arrived == {c \in Hits \ todo : c = cur /\ OnLeg => pc \in {"ref", "log"} /\ leg.kind = "PUT"}

\* What is at a place by now.
Expected(c, b) ==
  LET was == Places[<<c, b>>] IN
  CASE req.code \in {"SET", "ADD", "SUB"} /\ c \in Taken /\ b = req.box ->
         NewQty(req.code, was, req.n)
    [] req.code = "MOV" /\ c \in Arrived /\ b = req.dest ->
         IF b = req.box THEN was ELSE (Holds(Places, c, b) + Gone(c)) % QMod
    [] req.code = "MOV" /\ c \in Taken /\ b = req.box /\ ~(c \in Arrived /\ b = req.dest) ->
         NewQty("TAKE", was, req.n)
    [] OTHER -> was

Progress ==
  Asking =>
    /\ DOMAIN Now = DOMAIN Places \cup (IF req.code = "MOV" THEN Arrived \X {req.dest} ELSE {})
    /\ \A c, b : <<c, b>> \in DOMAIN Now => Now[<<c, b>>] = Expected(c, b)

\* Between requests the tables are those of the file, and no request is open.
Fresh ==
  pc = "idle" => /\ card = saved.card /\ pack = saved.pack /\ journal = saved.journal
                 /\ lastCard = saved.lastCard /\ leg = NoLeg /\ cnt = 0

\* getQuantity returned what is there.
LookedUp == pc = "set" => q = Holds(Now, cur, leg.box)

\* The loop visits the cards the query hits.
Loop ==
  Asking =>
    /\ card = saved.card /\ lastCard = saved.lastCard
    /\ todo \subseteq Hits /\ (OnLeg => cur \in Hits \ todo)
    /\ cnt = 0 => todo = Hits
    /\ cnt # 0 => Hits # {}
    /\ req.code = "SET" /\ Hits = {} => lastCard < MaxCards

Legs ==
  Asking /\ OnLeg =>
    \/ /\ leg.kind = FirstKind(req.code) /\ leg.box = req.box /\ leg.n = req.n
       /\ pc # "get" => q = Places[<<cur, req.box>>]
    \/ /\ leg.kind = "PUT" /\ req.code = "MOV"
       /\ leg.box = req.dest /\ leg.n = Gone(cur)

\* A query that matched nothing has made a new card; one without rights nothing.
Created ==
  \E c \in (1 .. MaxCards) \ DOMAIN saved.card :
    /\ card = Put(saved.card, c, [name |-> req.name, props |-> req.props])
    /\ Now = Put(Places, <<c, req.box>>, req.n)

Outcome ==
  /\ pc = "each" => leg.kind # "NEW"
  /\ req \in Queries /\ pc \in {"ref", "commit"} /\ leg.kind = "NEW" =>
       req.code = "SET" /\ Hits = {} /\ Created
  /\ req \in Queries /\ pc = "commit" /\ leg.kind # "NEW" =>
       card = saved.card /\ Now = Places

\* A stream is so many cards away from the file; while a card is being written,
\* the state it will lead to is.
NewPlaces == Put(Now, <<cur, leg.box>>, NewQty(leg.kind, Holds(Now, cur, leg.box), leg.n))
Pushes == Len(journal) - Len(saved.journal)

Streaming ==
  req = PushReq /\ pc # "idle" =>
    /\ Pushes \in 0 .. MaxJournal
    /\ OnLeg => Pushes < MaxJournal /\ leg.kind \in {"ADD", "DROP"}
    /\ pc \in {"stream", "commit"} =>
         [cards |-> card, places |-> Now] \in Reach(Start, Pushes)
    /\ pc \in {"get", "set"} =>
         [cards |-> card, places |-> NewPlaces] \in Reach(Start, Pushes + 1)
    /\ pc \in {"ref", "log"} =>
         [cards |-> card, places |-> Now] \in Reach(Start, Pushes + 1)

Following == Fresh /\ LookedUp /\ Loop /\ Legs /\ Progress /\ Outcome /\ Streaming

----------------------------------------------------------------------------
(* Places and packages.                                                     *)

\* The remainders at the places are those of the one row each has.
LEMMA NowIs ==
  ASSUME IInv, FInv, Looked
  PROVE  /\ \A c, b : <<c, b>> \in DOMAIN Now <=> RowsAt(c, b) # {}
         /\ \A c, b : \A p \in RowsAt(c, b) : Now[<<c, b>>] = pack[p].qty
         /\ Now = [l \in DOMAIN Now |-> Now[l]]
         /\ \A l \in DOMAIN Now : l = <<l[1], l[2]>> /\ Now[l] \in Qty
  <1>1. /\ DOMAIN Now = {<<pack[p].card, pack[p].box>> : p \in DOMAIN pack}
        /\ Now = [l \in DOMAIN Now |-> Now[l]]
        /\ \A p \in DOMAIN pack : Now[<<pack[p].card, pack[p].box>>] = pack[p].qty
    BY PlaceMapIs DEF Now, FInv, OneRows
  <1>2. \A p \in DOMAIN pack : pack[p].qty \in Qty
    BY InvParts DEF TablesOK, ImageOK, Image, PackRow
  <1> QED BY <1>1, <1>2 DEF RowsAt

\* Remainders of the file.
LEMMA PlacesAreTyped ==
  ASSUME IInv, FInv, Looked
  PROVE  /\ Places = [l \in DOMAIN Places |-> Places[l]]
         /\ \A l \in DOMAIN Places : l = <<l[1], l[2]>> /\ Places[l] \in Qty
         /\ \A c, b : Holds(Places, c, b) \in Qty
  <1>1. /\ DOMAIN Places = {<<saved.pack[p].card, saved.pack[p].box>> : p \in DOMAIN saved.pack}
        /\ Places = [l \in DOMAIN Places |-> Places[l]]
        /\ \A p \in DOMAIN saved.pack :
             Places[<<saved.pack[p].card, saved.pack[p].box>>] = saved.pack[p].qty
    BY PlaceMapIs, PlacesAre DEF FInv, OneRows
  <1>2. \A p \in DOMAIN saved.pack : saved.pack[p].qty \in Qty
    BY InvParts DEF TablesOK, ImageOK, PackRow
  <1>3. ASSUME NEW l \in DOMAIN Places
        PROVE  l = <<l[1], l[2]>> /\ Places[l] \in Qty
    <2>1. PICK p \in DOMAIN saved.pack : l = <<saved.pack[p].card, saved.pack[p].box>>
      BY <1>1
    <2> QED BY <1>1, <1>2, <2>1
  <1>4. 0 \in Qty
    BY QuantitiesOK
  <1> QED BY <1>1, <1>3, <1>4 DEF Holds

\* getQuantity reads the place, setQuantity writes it.
LEMMA GetReads ==
  ASSUME IInv, FInv, Flat, Looked, Get
  PROVE  q' = Holds(Now, cur, leg.box)
  <1>1. leg.box \in Boxes
    BY LegOK DEF Get
  <1>2. PacksIn(cur, leg.box) = RowsAt(cur, leg.box)
    BY <1>1, FlatPacks
  <1>3. \/ q' = 0 /\ RowsAt(cur, leg.box) = {}
        \/ \E p \in RowsAt(cur, leg.box) : q' = pack[p].qty
    BY <1>2 DEF Get, GetQuantity
  <1> QED BY <1>3, NowIs DEF Holds

\* setQuantity changes one place, to the remainder it was told.
LEMMA SetWrites ==
  ASSUME IInv, FInv, FInv', Looked, Set
  PROVE  Now' = Put(Now, <<cur, leg.box>>, NewQty(leg.kind, q, leg.n))
  <1> DEFINE n == NewQty(leg.kind, q, leg.n)
             row == [card |-> cur, box |-> leg.box, qty |-> n]
  <1>1. OneRow(pack) /\ OneRow(pack')
    BY DEF FInv, OneRows, Looked
  <1>2. DOMAIN pack \subseteq 1 .. lastPack /\ lastPack \in Nat
    BY InvParts DEF TablesOK, ImageOK, Image
  <1>3. row.card = cur /\ row.box = leg.box /\ row.qty = n
    OBVIOUS
  <1>4. CASE pid = 0 /\ RowsAt(cur, leg.box) = {}
    <2> DEFINE p == lastPack + 1
    <2>1. pack' = Put(pack, p, row)
      BY <1>2, <1>4 DEF Set, SetQuantity, InsertPack
    <2>2. p \notin DOMAIN pack
      BY <1>2
    <2> HIDE DEF row, p, n
    <2>3. /\ DOMAIN pack' = DOMAIN pack \cup {p} /\ pack'[p] = row
          /\ \A x \in DOMAIN pack \ {p} : pack'[x] = pack[x]
      BY <2>1, <2>2 DEF Put
    <2>4. PlaceMap(pack') = Put(PlaceMap(pack), <<cur, leg.box>>, n)
      BY <1>1, <1>3, <2>2, <2>3, SetPlace
    <2> QED BY <2>4 DEF Now, n
  <1>5. CASE pid \in RowsAt(cur, leg.box)
    <2>1. pid \in DOMAIN pack /\ pid # 0 /\ pack[pid].card = cur /\ pack[pid].box = leg.box
      BY <1>2, <1>5 DEF RowsAt
    <2>2. pack' = [pack EXCEPT ![pid] = row]
      BY <2>1 DEF Set, SetQuantity
    <2> HIDE DEF row, n
    <2>3. /\ DOMAIN pack' = DOMAIN pack \cup {pid} /\ pack'[pid] = row
          /\ \A x \in DOMAIN pack \ {pid} : pack'[x] = pack[x]
      BY <2>1, <2>2
    <2>4. PlaceMap(pack') = Put(PlaceMap(pack), <<cur, leg.box>>, n)
      BY <1>1, <1>3, <2>1, <2>3, SetPlace
    <2> QED BY <2>4 DEF Now, n
  <1> QED BY <1>4, <1>5 DEF Set, FInv, Targeted, Stray

LEMMA SamePlaces ==
  ASSUME UNCHANGED <<saved, req>>
  PROVE  /\ Places' = Places /\ Hits' = Hits /\ Start' = Start
         /\ Gone(1)' = Gone(1) /\ \A c : Gone(c)' = Gone(c)
  <1>1. Places' = Places
    BY PlacesAre
  <1> QED BY <1>1 DEF Hits, Start, Gone

LEMMA SameNow ==
  ASSUME UNCHANGED pack
  PROVE  Now' = Now
  BY DEF Now

----------------------------------------------------------------------------
(* Each step keeps the handler on its way.                                  *)

LEMMA NoRequests ==
  /\ NoReq \notin Queries /\ PushReq \notin Queries /\ NoReq # PushReq
  /\ NoLeg.kind = "NONE"
  <1>1. NoReq # PushReq
    BY DEF NoReq, PushReq
  <1> QED BY <1>1, KindsOfQueries DEF NoLeg

\* The handlers follow the ledger: at the start, and one lemma per action.
LEMMA FollowInit == Init => Following
  <1> SUFFICES ASSUME Init PROVE Following
    OBVIOUS
  <1>1. saved = Image /\ pc = "idle" /\ req = NoReq /\ leg = NoLeg /\ cnt = 0
    BY DEF Init, TablesInit
  <1> QED BY <1>1, NoRequests
          DEF Image, Following, Fresh, LookedUp, Loop, Legs, Progress, Outcome, Streaming, Asking

LEMMA FollowEnd ==
  ASSUME Restore \/ Commit, ResetLocals, pc' = "idle"
  PROVE  Following'
  <1>1. /\ card' = saved'.card /\ pack' = saved'.pack /\ journal' = saved'.journal
        /\ lastCard' = saved'.lastCard
    BY DEF Restore, Commit, Image, tables
  <1>2. req' = NoReq /\ leg' = NoLeg /\ cnt' = 0
    BY DEF ResetLocals
  <1> QED BY <1>1, <1>2, NoRequests
          DEF Following, Fresh, LookedUp, Loop, Legs, Progress, Outcome, Streaming, Asking

LEMMA FollowQuery ==
  ASSUME IInv, IInv', FInv, FInv', Flat, Looked, Following, NEW r \in Queries, Query(r)
  PROVE  Following'
  <1>1. /\ pc = "idle" /\ pc' \in {"each", "commit"} /\ req' = r
        /\ UNCHANGED <<pack, card, lastCard, saved, leg, cnt, cur>>
    BY DEF Query, tables
  <1>2. /\ card = saved.card /\ pack = saved.pack /\ lastCard = saved.lastCard
        /\ leg.kind = "NONE" /\ cnt = 0
    BY <1>1, NoRequests DEF Following, Fresh
  <1>3. Places' = Places /\ Now' = Now /\ Now = Places
    BY <1>1, <1>2, PlacesAre DEF Now
  <1>4. MatchedCards(r.name, r.props, r.box) = Hits'
    <2>1. r.box \in Boxes
      BY KindsOfQueries
    <2>2. \A c : PacksIn(c, r.box) = RowsAt(c, r.box)
      BY <2>1, FlatPacks
    <2>3. \A c : PacksIn(c, r.box) # {} <=> <<c, r.box>> \in DOMAIN Places
      BY <1>3, <2>2, NowIs
    <2> QED BY <1>1, <1>2, <1>3, <2>3 DEF MatchedCards, Hits
  <1>5. pc' = "each" => todo' = Hits'
    BY <1>4 DEF Query
  <1>6. r.code = "SET" /\ Hits' = {} => lastCard < MaxCards
    BY <1>4 DEF Query, Room, Writing
  <1>7. pc' = "each" => Taken' = {} /\ Arrived' = {}
    BY <1>5 DEF Taken, Arrived
  <1>8. Progress'
    <2>1. pc' = "each" => \A c, b : Expected(c, b)' = Places'[<<c, b>>]
      BY <1>7 DEF Expected
    <2>2. pc' = "each" => DOMAIN Now' = DOMAIN Places' \cup
                 (IF req'.code = "MOV" THEN Arrived' \X {req'.dest} ELSE {})
      BY <1>3, <1>7
    <2> QED BY <1>1, <1>3, <2>1, <2>2 DEF Progress, Asking
  <1>9. Loop'
    BY <1>1, <1>2, <1>5, <1>6 DEF Loop, OnLeg, Asking
  <1>10. r # PushReq
    BY NoRequests
  <1> QED BY <1>1, <1>2, <1>3, <1>8, <1>9, <1>10
          DEF Following, Fresh, LookedUp, Legs, Outcome, Streaming, Asking, OnLeg

LEMMA FollowNextCard ==
  ASSUME IInv, IInv', FInv, FInv', Looked, Following, NextCard
  PROVE  Following'
  <1>1. /\ pc = "each" /\ pc' = "get" /\ req' = req /\ cnt' = cnt + 1
        /\ cur' \in todo /\ todo' = todo \ {cur'}
        /\ leg' = [kind |-> FirstKind(req.code), box |-> req.box, n |-> req.n]
        /\ UNCHANGED <<pack, card, lastCard, saved>>
    <2>1. \A c : (cur' = c /\ todo' = todo \ {c}) => todo' = todo \ {cur'}
      OBVIOUS
    <2> QED BY <2>1 DEF NextCard, tables
  <1>2. req \in Queries /\ cnt \in Nat
    BY <1>1, InvParts DEF Working, LocalsOK
  <1>3. FirstKind(req.code) \notin {"NEW", "PUT", "DROP"}
    BY <1>2, KindsOfQueries
  <1>4. Places' = Places /\ Hits' = Hits /\ Now' = Now /\ \A c : Gone(c)' = Gone(c)
    BY <1>1, SamePlaces, SameNow
  <1>5. leg'.kind = FirstKind(req.code) /\ leg'.box = req.box /\ leg'.n = req.n
    BY <1>1
  <1> HIDE DEF NextCard
  <1>6. Asking => Taken' = Taken /\ Arrived' = Arrived
    <2>1. Asking => todo \subseteq Hits
      BY DEF Following, Loop
    <2> QED BY <1>1, <1>3, <1>4, <1>5, <2>1 DEF Taken, Arrived, OnLeg
  <1>7. Asking
    <2>1. leg.kind # "NEW"
      BY <1>1 DEF Following, Outcome
    <2> QED BY <1>1, <1>2, <2>1 DEF Asking
  <1>8. Progress'
    <2>1. \A c, b : Expected(c, b)' = Expected(c, b)
      BY <1>1, <1>4, <1>6, <1>7 DEF Expected
    <2> QED BY <1>1, <1>4, <1>6, <1>7, <2>1 DEF Following, Progress
  <1>9. Loop'
    BY <1>1, <1>2, <1>4, <1>7 DEF Following, Loop, OnLeg
  <1>10. Legs'
    BY <1>1, <1>5 DEF Legs
  <1>11. req # PushReq
    BY <1>2, NoRequests
  <1> QED BY <1>1, <1>3, <1>8, <1>9, <1>10, <1>11
          DEF Following, Fresh, LookedUp, Outcome, Streaming

\* A request is a query or a stream.
LEMMA AskingOrPushing ==
  ASSUME IInv, Following, OnLeg, leg.kind # "NEW"
  PROVE  \/ Asking /\ req \in Queries /\ req # PushReq
         \/ ~Asking /\ req \notin Queries /\ req = PushReq
  BY NoRequests, InvParts DEF Working, LocalsOK, OnLeg, Asking

\* The legs of a query, by its code.
LEMMA LegOfCode ==
  ASSUME IInv, Following, Asking, OnLeg
  PROVE  /\ req.code \in {"SET", "ADD", "SUB", "MOV", "COUNT", "SUM"}
         /\ leg.kind = "PUT" =>
              /\ req.code = "MOV" /\ leg.box = req.dest /\ leg.n = Gone(cur)
              /\ cur \in Taken
              /\ cur \notin Arrived \/ pc \in {"ref", "log"}
         /\ leg.kind # "PUT" =>
              /\ leg.kind = FirstKind(req.code) /\ leg.box = req.box /\ leg.n = req.n
              /\ pc # "get" => q = Places[<<cur, req.box>>]
              /\ cur \notin Arrived
         /\ pc # "get" => leg.kind # "LOOK"
         /\ cur \in Hits /\ cur \notin todo
  <1>1. req \in Queries /\ cur \in Hits /\ cur \notin todo
    BY DEF Asking, Following, Loop
  <1>2. req.code \in {"SET", "ADD", "SUB", "MOV", "COUNT", "SUM"}
    BY <1>1, KindsOfQueries, StockAssumption DEF Writing
  <1>3. FirstKind(req.code) # "PUT"
    BY <1>1, KindsOfQueries
  <1>4. pc # "get" => leg.kind # "LOOK"
    BY InvParts DEF Working, OnLeg
  <1> QED BY <1>1, <1>2, <1>3, <1>4 DEF Following, Legs, Taken, Arrived, OnLeg

\* Where nothing was asked to change nothing has.
LEMMA Untouched ==
  ASSUME IInv, FInv, Looked, Following, Asking, Hits = {} \/ req.code \in {"COUNT", "SUM"}
  PROVE  Now = Places
  <1>1. Taken \subseteq Hits /\ Arrived \subseteq Hits
    BY DEF Taken, Arrived
  <1>2. DOMAIN Now = DOMAIN Places
    BY <1>1 DEF Following, Progress
  <1>3. \A c, b : Expected(c, b) = Places[<<c, b>>]
    BY <1>1 DEF Expected
  <1>4. \A l \in DOMAIN Now : Now[l] = Places[l]
    BY <1>3, NowIs DEF Following, Progress
  <1> QED BY <1>2, <1>4, NowIs, PlacesAreTyped

LEMMA FollowGet ==
  ASSUME IInv, IInv', FInv, FInv', Flat, Looked, Following, Get
  PROVE  Following'
  <1>1. /\ pc = "get" /\ pc' = IF leg.kind = "LOOK" THEN "each" ELSE "set"
        /\ UNCHANGED <<card, pack, journal, lastCard, saved, req, todo, cur, leg, cnt>>
    BY DEF Get, AfterGet, tables
  <1>2. leg.kind # "NEW"
    BY <1>1, InvParts DEF Working
  <1>3. /\ Places' = Places /\ Hits' = Hits /\ Now' = Now /\ Start' = Start
        /\ \A c : Gone(c)' = Gone(c)
    BY <1>1, SamePlaces, SameNow
  <1>4. q' = Holds(Now, cur, leg.box)
    BY GetReads
  <1>5. LookedUp' /\ Fresh'
    BY <1>1, <1>3, <1>4 DEF LookedUp, Fresh
  <1>6. OnLeg
    BY <1>1 DEF OnLeg
  <1>7. CASE Asking /\ req # PushReq
    <2>1. Loop'
      BY <1>1, <1>3, <1>7 DEF Following, Loop, OnLeg
    <2>2. CASE leg.kind = "LOOK"
      <3>1. req.code \in {"COUNT", "SUM"}
        BY <1>6, <1>7, <2>2, LegOfCode DEF FirstKind
      <3>2. Now = Places
        BY <1>7, <3>1, Untouched
      <3>3. \A c, b : Expected(c, b)' = Places[<<c, b>>]
        BY <1>1, <1>3, <3>1 DEF Expected
      <3>4. Progress'
        BY <1>1, <1>3, <3>1, <3>2, <3>3 DEF Progress
      <3> QED BY <1>1, <1>2, <1>5, <1>7, <2>1, <2>2, <3>4
              DEF Following, Legs, Outcome, Streaming, OnLeg
    <2>3. CASE leg.kind # "LOOK"
      <3>1. pc' = "set"
        BY <1>1, <2>3
      <3>2. Taken' = Taken /\ Arrived' = Arrived
        BY <1>1, <1>3, <3>1 DEF Taken, Arrived, OnLeg
      <3>3. \A c, b : Expected(c, b)' = Expected(c, b)
        BY <1>1, <1>3, <3>2 DEF Expected
      <3>4. Progress'
        BY <1>1, <1>3, <1>7, <3>2, <3>3 DEF Following, Progress
      <3>5. leg.kind # "PUT" => q' = Places[<<cur, req.box>>]
        <4> SUFFICES ASSUME leg.kind # "PUT" PROVE q' = Places[<<cur, req.box>>]
          OBVIOUS
        <4>1. leg.box = req.box /\ cur \in Hits /\ cur \notin Arrived
          BY <1>6, <1>7, LegOfCode
        <4>2. cur \notin Taken
          BY <1>1 DEF Taken
        <4>3. <<cur, req.box>> \in DOMAIN Now
          BY <1>7, <4>1 DEF Hits, Following, Progress
        <4>4. Now[<<cur, req.box>>] = Expected(cur, req.box)
          BY <1>7, <4>3 DEF Following, Progress
        <4>5. Expected(cur, req.box) = Places[<<cur, req.box>>]
          BY <4>1, <4>2 DEF Expected
        <4> QED BY <1>4, <4>1, <4>3, <4>4, <4>5 DEF Holds
      <3>6. Legs'
        BY <1>1, <1>3, <1>6, <1>7, <3>5, LegOfCode DEF Legs
      <3> QED BY <1>1, <1>2, <1>5, <1>7, <2>1, <3>1, <3>4, <3>6
              DEF Following, Outcome, Streaming
    <2> QED BY <2>2, <2>3
  <1>8. CASE ~Asking /\ req \notin Queries /\ req = PushReq
    <2>1. leg.kind \in {"ADD", "DROP"}
      BY <1>1, <1>6, <1>8 DEF Following, Streaming
    <2>2. pc' = "set"
      BY <1>1, <2>1
    <2>3. NewPlaces' = NewPlaces /\ Pushes' = Pushes
      BY <1>1, <1>3 DEF NewPlaces, Pushes
    <2>4. Streaming'
      BY <1>1, <1>3, <1>8, <2>2, <2>3 DEF Following, Streaming, OnLeg
    <2> QED BY <1>1, <1>2, <1>5, <1>8, <2>2, <2>4
            DEF Following, Loop, Legs, Progress, Outcome, Asking
  <1> QED BY <1>2, <1>6, <1>7, <1>8, AskingOrPushing

\* What was taken from a place, put back there.
LEMMA TakeAndPut ==
  ASSUME NEW old \in Qty, NEW n \in Qty
  PROVE  NewQty("PUT", NewQty("TAKE", old, n), LogValue("TAKE", old, n)) = old
  <1>1. QMod \in Nat \ {0} /\ old \in 0 .. QMod - 1 /\ n \in 0 .. QMod - 1
    BY TablesAssumption DEF Qty
  <1>2. NewQty("TAKE", old, n) + LogValue("TAKE", old, n) = old
    BY <1>1 DEF NewQty, LogValue
  <1>3. old % QMod = old
    BY <1>1
  <1> QED BY <1>2, <1>3 DEF NewQty

\* A query's place is there.
LEMMA HitsAreThere ==
  ASSUME Following, Asking, NEW c \in Hits
  PROVE  <<c, req.box>> \in DOMAIN Places /\ <<c, req.box>> \in DOMAIN Now
  BY DEF Hits, Following, Progress

LEMMA FollowSet ==
  ASSUME IInv, IInv', FInv, FInv', Looked, Following, Set
  PROVE  Following'
  <1>1. /\ pc = "set" /\ pc' = "ref"
        /\ UNCHANGED <<card, journal, lastCard, saved, req, todo, cur, leg, q, cnt>>
    BY DEF Set
  <1>2. leg.kind # "NEW" /\ OnLeg
    BY <1>1, InvParts DEF Working, OnLeg
  <1>3. /\ Places' = Places /\ Hits' = Hits /\ Start' = Start
        /\ \A c : Gone(c)' = Gone(c)
    BY <1>1, SamePlaces
  <1> DEFINE n == NewQty(leg.kind, q, leg.n)
             l0 == <<cur, leg.box>>
  <1>4. Now' = Put(Now, l0, n) /\ q = Holds(Now, cur, leg.box)
    BY <1>1, SetWrites DEF Following, LookedUp
  <1>5. /\ DOMAIN Now' = DOMAIN Now \cup {l0} /\ Now'[l0] = n
        /\ \A l \in DOMAIN Now \ {l0} : Now'[l] = Now[l]
    <2> HIDE DEF n, l0
    <2> QED BY <1>4 DEF Put
  <1> HIDE DEF n
  <1>6. CASE Asking /\ req # PushReq
    <2>1. Loop' /\ Legs'
      BY <1>1, <1>3, <1>6, <1>2 DEF Following, Loop, Legs, OnLeg, Asking
    <2>2. cur \in Hits /\ cur \notin todo
      BY <1>2, <1>6, LegOfCode
    <2>3. <<cur, req.box>> \in DOMAIN Places /\ <<cur, req.box>> \in DOMAIN Now
      BY <1>6, <2>2, HitsAreThere
    <2>4. \A c, b : <<c, b>> \in DOMAIN Now => Now[<<c, b>>] = Expected(c, b)
      BY <1>6 DEF Following, Progress
    <2>5. DOMAIN Now = DOMAIN Places \cup (IF req.code = "MOV" THEN Arrived \X {req.dest} ELSE {})
      BY <1>6 DEF Following, Progress
    <2>6. cur \notin Arrived
      BY <1>1, <1>2, <1>6, LegOfCode
    <2>7. \A c : c # cur => (c \in Taken' <=> c \in Taken) /\ (c \in Arrived' <=> c \in Arrived)
      BY <1>1, <1>3 DEF Taken, Arrived
    <2>8. CASE leg.kind # "PUT"
      <3>1. /\ leg.kind = FirstKind(req.code) /\ leg.box = req.box /\ leg.n = req.n
            /\ q = Places[<<cur, req.box>>] /\ leg.kind # "LOOK"
            /\ req.code \in {"SET", "ADD", "SUB", "MOV", "COUNT", "SUM"}
        BY <1>1, <1>2, <1>6, <2>8, LegOfCode
      <3>2. /\ cur \notin Taken /\ cur \in Taken' /\ cur \notin Arrived'
        BY <1>1, <1>3, <2>2, <2>8 DEF Taken, Arrived, OnLeg
      <3>3. Arrived' = Arrived /\ l0 = <<cur, req.box>>
        BY <2>6, <2>7, <3>1, <3>2
      <3>4. DOMAIN Now' = DOMAIN Places \cup
                            (IF req.code = "MOV" THEN Arrived \X {req.dest} ELSE {})
        BY <1>5, <2>3, <2>5, <3>3
      <3>5. Expected(cur, req.box)' = n
        <4>1. CASE req.code = "MOV"
          BY <1>1, <1>3, <3>1, <3>2, <4>1 DEF Expected, n, FirstKind
        <4>2. CASE req.code # "MOV"
          <5>1. req.code \in {"SET", "ADD", "SUB"} /\ leg.kind = req.code
            BY <3>1, <4>2 DEF FirstKind
          <5> QED BY <1>1, <1>3, <3>1, <3>2, <5>1 DEF Expected, n
        <4> QED BY <4>1, <4>2
      <3>6. ASSUME NEW c, NEW b, c # cur \/ b # req.box
            PROVE  Expected(c, b)' = Expected(c, b)
        BY <1>1, <1>3, <2>6, <2>7, <3>2, <3>3, <3>6 DEF Expected
      <3>7. ASSUME NEW c, NEW b, <<c, b>> \in DOMAIN Now'
            PROVE  Now'[<<c, b>>] = Expected(c, b)'
        <4>1. CASE c = cur /\ b = req.box
          BY <1>1, <1>5, <3>3, <3>5, <4>1 DEF Expected
        <4>2. CASE c # cur \/ b # req.box
          <5>1. <<c, b>> # l0
            BY <3>3, <4>2
          <5> HIDE DEF l0
          <5>2. <<c, b>> \in DOMAIN Now /\ Now'[<<c, b>>] = Now[<<c, b>>]
            BY <1>5, <3>7, <5>1
          <5> QED BY <2>4, <3>6, <4>2, <5>2
        <4> QED BY <4>1, <4>2
      <3>8. Progress'
        BY <1>1, <1>3, <3>3, <3>4, <3>7 DEF Progress
      <3> QED BY <1>1, <1>2, <1>6, <2>1, <3>8
              DEF Following, Fresh, LookedUp, Outcome, Streaming
    <2>9. CASE leg.kind = "PUT"
      <3>1. /\ req.code = "MOV" /\ leg.box = req.dest /\ leg.n = Gone(cur) /\ cur \in Taken
        BY <1>2, <1>6, <2>9, LegOfCode
      <3>2. cur \in Taken' /\ cur \in Arrived' /\ l0 = <<cur, req.dest>>
        BY <1>1, <1>3, <2>2, <2>9, <3>1 DEF Taken, Arrived, OnLeg
      <3>3. Taken' = Taken /\ Arrived' = Arrived \cup {cur}
        BY <2>7, <3>1, <3>2
      <3>4. DOMAIN Now' = DOMAIN Places \cup Arrived' \X {req.dest}
        BY <1>5, <2>5, <3>1, <3>2, <3>3
      <3>5. Expected(cur, req.dest)' = n
        <4>1. CASE req.dest = req.box
          <5>1. Expected(cur, req.box) = NewQty("TAKE", Places[<<cur, req.box>>], req.n)
            BY <2>6, <3>1, <4>1 DEF Expected
          <5>2. q = NewQty("TAKE", Places[<<cur, req.box>>], req.n)
            BY <1>4, <2>3, <2>4, <3>1, <4>1, <5>1 DEF Holds
          <5>3. Places[<<cur, req.box>>] \in Qty /\ req.n \in Qty
            BY <1>6, <2>3, PlacesAreTyped, KindsOfQueries DEF Asking
          <5>4. n = Places[<<cur, req.box>>]
            BY <2>9, <3>1, <5>2, <5>3, TakeAndPut DEF n, Gone
          <5>5. Expected(cur, req.dest)' = Places[<<cur, req.box>>]
            BY <1>1, <1>3, <3>1, <3>2, <4>1 DEF Expected
          <5> QED BY <5>4, <5>5
        <4>2. CASE req.dest # req.box
          <5>1. Expected(cur, req.dest) = Places[<<cur, req.dest>>]
            BY <2>6, <3>1, <4>2 DEF Expected
          <5>2. <<cur, req.dest>> \in DOMAIN Now <=> <<cur, req.dest>> \in DOMAIN Places
            BY <2>5, <2>6, <3>1
          <5>3. q = Holds(Places, cur, req.dest)
            BY <1>4, <2>4, <3>1, <5>1, <5>2 DEF Holds
          <5>4. n = (Holds(Places, cur, req.dest) + Gone(cur)) % QMod
            BY <2>9, <3>1, <5>3 DEF n, NewQty
          <5>5. Expected(cur, req.dest)' = (Holds(Places, cur, req.dest) + Gone(cur)) % QMod
            BY <1>1, <1>3, <3>1, <3>2, <4>2 DEF Expected
          <5> QED BY <5>4, <5>5
        <4> QED BY <4>1, <4>2
      <3>6. ASSUME NEW c, NEW b, c # cur \/ b # req.dest
            PROVE  Expected(c, b)' = Expected(c, b)
        BY <1>1, <1>3, <2>6, <3>1, <3>3, <3>6 DEF Expected
      <3>7. ASSUME NEW c, NEW b, <<c, b>> \in DOMAIN Now'
            PROVE  Now'[<<c, b>>] = Expected(c, b)'
        <4>1. CASE c = cur /\ b = req.dest
          BY <1>1, <1>5, <3>2, <3>5, <4>1 DEF Expected
        <4>2. CASE c # cur \/ b # req.dest
          <5>1. <<c, b>> # l0
            BY <3>2, <4>2
          <5> HIDE DEF l0
          <5>2. <<c, b>> \in DOMAIN Now /\ Now'[<<c, b>>] = Now[<<c, b>>]
            BY <1>5, <3>7, <5>1
          <5> QED BY <2>4, <3>6, <4>2, <5>2
        <4> QED BY <4>1, <4>2
      <3>8. Progress'
        BY <1>1, <1>3, <3>1, <3>4, <3>7 DEF Progress
      <3> QED BY <1>1, <1>2, <1>6, <2>1, <3>8
              DEF Following, Fresh, LookedUp, Outcome, Streaming
    <2> QED BY <2>8, <2>9
  <1>7. CASE ~Asking /\ req \notin Queries /\ req = PushReq
    <2>1. Now' = NewPlaces
      BY <1>4 DEF NewPlaces, n
    <2>2. Streaming'
      BY <1>1, <1>3, <1>7, <2>1 DEF Following, Streaming, OnLeg, Pushes
    <2> QED BY <1>1, <1>2, <1>7, <2>2
            DEF Following, Fresh, LookedUp, Loop, Legs, Progress, Outcome, Asking
  <1> QED BY <1>2, <1>6, <1>7, AskingOrPushing

LEMMA FollowRef ==
  ASSUME IInv, IInv', FInv, FInv', Looked, Following, Ref
  PROVE  Following'
  <1>1. /\ pc = "ref" /\ pc' = IF leg.kind = "NEW" THEN "commit" ELSE "log"
        /\ UNCHANGED <<card, pack, journal, lastCard, saved, req, todo, cur, leg, q, cnt>>
    BY DEF Ref, AfterRef, locals
  <1>2. /\ Places' = Places /\ Hits' = Hits /\ Now' = Now /\ Start' = Start
        /\ \A c : Gone(c)' = Gone(c)
    BY <1>1, SamePlaces, SameNow
  <1>3. Taken' = Taken /\ (leg.kind # "NEW" => Arrived' = Arrived)
    BY <1>1, <1>2 DEF Taken, Arrived, OnLeg
  <1>4. leg.kind # "NEW" => \A c, b : Expected(c, b)' = Expected(c, b)
    BY <1>1, <1>2, <1>3 DEF Expected
  <1>5. Progress'
    BY <1>1, <1>2, <1>3, <1>4 DEF Following, Progress, Asking
  <1>6. Loop' /\ Legs'
    BY <1>1, <1>2 DEF Following, Loop, Legs, OnLeg, Asking
  <1>7. Outcome'
    BY <1>1, <1>2 DEF Following, Outcome, Created
  <1>8. Streaming'
    BY <1>1, <1>2 DEF Following, Streaming, OnLeg, Pushes
  <1> QED BY <1>1, <1>5, <1>6, <1>7, <1>8 DEF Following, Fresh, LookedUp

LEMMA FollowLog ==
  ASSUME IInv, IInv', FInv, FInv', Looked, Following, Log
  PROVE  Following'
  <1>1. /\ pc = "log" /\ AfterLog
        /\ UNCHANGED <<card, pack, lastCard, saved, req, todo, cur, q, cnt>>
        /\ \E e : journal' = Append(journal, e)
    BY DEF Log, AfterLog, Add2Log
  <1>2. leg.kind # "NEW" /\ OnLeg
    BY <1>1, InvParts DEF Working, OnLeg
  <1>3. /\ Places' = Places /\ Hits' = Hits /\ Now' = Now /\ Start' = Start
        /\ \A c : Gone(c)' = Gone(c)
    BY <1>1, SamePlaces, SameNow
  <1>4. Pushes \in Int /\ Pushes' = Pushes + 1
    <2>1. journal \in Seq(Entry) /\ Len(journal) \in Nat /\ Len(saved.journal) \in Nat
      BY LogIsTyped
    <2>2. Len(journal') = Len(journal) + 1
      BY <1>1, <2>1
    <2> QED BY <1>1, <2>1, <2>2 DEF Pushes
  <1>5. CASE Asking /\ req # PushReq
    <2>1. CASE leg.kind = "TAKE"
      <3>1. /\ pc' = "get" /\ leg'.kind = "PUT" /\ leg'.box = req.dest
            /\ leg'.n = LogValue("TAKE", q, leg.n)
        BY <1>1, <2>1 DEF AfterLog
      <3>2. req.code = "MOV" /\ q = Places[<<cur, req.box>>] /\ leg.n = req.n /\ cur \notin Arrived
        BY <1>1, <1>2, <1>5, <2>1, LegOfCode DEF FirstKind
      <3>3. leg'.n = Gone(cur)
        BY <3>1, <3>2 DEF Gone
      <3>4. Taken' = Taken /\ Arrived' = Arrived
        BY <1>1, <1>3, <2>1, <3>1, <3>2 DEF Taken, Arrived, OnLeg
      <3>5. \A c, b : Expected(c, b)' = Expected(c, b)
        BY <1>1, <1>3, <3>4 DEF Expected
      <3>6. Progress'
        BY <1>1, <1>3, <1>5, <3>4, <3>5 DEF Following, Progress
      <3>7. Loop'
        BY <1>1, <1>2, <1>3, <1>5, <3>1 DEF Following, Loop, OnLeg
      <3>8. Legs'
        BY <1>1, <1>3, <3>1, <3>2, <3>3 DEF Legs
      <3> QED BY <1>1, <1>5, <3>1, <3>6, <3>7, <3>8
              DEF Following, Fresh, LookedUp, Outcome, Streaming
    <2>2. CASE leg.kind # "TAKE"
      <3>1. pc' = "each" /\ leg' = leg
        BY <1>1, <1>5, <2>2 DEF AfterLog
      <3>2. req.code = "MOV" => leg.kind = "PUT"
        BY <1>2, <1>5, <2>2, LegOfCode DEF FirstKind
      <3>3. Taken' = Taken /\ (req.code = "MOV" => Arrived' = Arrived)
        BY <1>1, <1>3, <3>1, <3>2 DEF Taken, Arrived, OnLeg
      <3>4. \A c, b : Expected(c, b)' = Expected(c, b)
        BY <1>1, <1>3, <3>3 DEF Expected
      <3>5. Progress'
        BY <1>1, <1>3, <1>5, <3>3, <3>4 DEF Following, Progress
      <3>6. Loop'
        BY <1>1, <1>2, <1>3, <1>5, <3>1 DEF Following, Loop, OnLeg
      <3> QED BY <1>1, <1>2, <1>5, <3>1, <3>5, <3>6
              DEF Following, Fresh, LookedUp, Legs, Outcome, Streaming, OnLeg
    <2> QED BY <2>1, <2>2
  <1>6. CASE ~Asking /\ req \notin Queries /\ req = PushReq
    <2>1. leg.kind \in {"ADD", "DROP"} /\ Pushes \in 0 .. MaxJournal /\ Pushes < MaxJournal
          /\ [cards |-> card, places |-> Now] \in Reach(Start, Pushes + 1)
      BY <1>1, <1>2, <1>6 DEF Following, Streaming
    <2>2. pc' = "stream" /\ leg' = leg
      BY <1>1, <1>6, <2>1 DEF AfterLog
    <2>3. Pushes' \in 0 .. MaxJournal
      BY <1>4, <2>1, StockAssumption
    <2>4. Streaming'
      BY <1>1, <1>3, <1>4, <2>1, <2>2, <2>3 DEF Streaming, OnLeg
    <2> QED BY <1>1, <1>6, <2>2, <2>4
            DEF Following, Fresh, LookedUp, Loop, Legs, Progress, Outcome, Asking
  <1> QED BY <1>2, <1>5, <1>6, AskingOrPushing

LEMMA FollowCreate ==
  ASSUME IInv, IInv', FInv, FInv', Looked, Following, Create
  PROVE  Following'
  <1> DEFINE c == lastCard + 1
             p == lastPack + 1
             row == [card |-> c, box |-> req.box, qty |-> req.n]
  <1>1. /\ pc = "each" /\ pc' = "ref" /\ todo = {} /\ cnt = 0 /\ req.code = "SET"
        /\ leg'.kind = "NEW"
        /\ card' = Put(card, c, [name |-> req.name, props |-> req.props])
        /\ pack' = Put(pack, p, row)
        /\ UNCHANGED <<saved, req>>
    BY DEF Create, MustCreate, InsertCard, InsertPack
  <1>2. req \in Queries /\ Asking
    BY <1>1, InvParts DEF Working, Asking, Following, Outcome
  <1>3. /\ card = saved.card /\ lastCard = saved.lastCard /\ Hits = {} /\ lastCard < MaxCards
    BY <1>1, <1>2 DEF Following, Loop
  <1>4. Now = Places
    BY <1>2, <1>3, Untouched
  <1>5. /\ DOMAIN pack \subseteq 1 .. lastPack /\ lastPack \in Nat
        /\ DOMAIN card \subseteq 1 .. lastCard /\ lastCard \in Nat
    BY InvParts DEF TablesOK, ImageOK, Image
  <1>6. p \notin DOMAIN pack /\ c \notin DOMAIN card /\ c \in 1 .. MaxCards
    BY <1>3, <1>5, StockAssumption
  <1>7. OneRow(pack) /\ OneRow(pack')
    BY DEF FInv, OneRows, Looked
  <1>8. row.card = c /\ row.box = req.box /\ row.qty = req.n
    OBVIOUS
  <1> HIDE DEF row, p, c
  <1>9. /\ DOMAIN pack' = DOMAIN pack \cup {p} /\ pack'[p] = row
        /\ \A x \in DOMAIN pack \ {p} : pack'[x] = pack[x]
    BY <1>1, <1>6 DEF Put
  <1>10. Now' = Put(Now, <<c, req.box>>, req.n)
    BY <1>6, <1>7, <1>8, <1>9, SetPlace DEF Now
  <1>11. /\ Places' = Places /\ Hits' = Hits
    BY <1>1, SamePlaces
  <1>12. Created'
    BY <1>1, <1>3, <1>4, <1>6, <1>10, <1>11 DEF Created
  <1>13. req # PushReq
    BY <1>2, NoRequests
  <1> QED BY <1>1, <1>3, <1>11, <1>12, <1>13
          DEF Following, Fresh, LookedUp, Loop, Legs, Progress, Outcome, Streaming, Asking

LEMMA FollowPushOpen ==
  ASSUME IInv, IInv', FInv, FInv', Looked, Following, PushOpen
  PROVE  Following'
  <1>1. /\ pc = "idle" /\ pc' = "stream" /\ req' = PushReq
        /\ UNCHANGED <<card, pack, journal, lastCard, saved, leg>>
    BY DEF PushOpen, tables
  <1>2. card = saved.card /\ pack = saved.pack /\ journal = saved.journal
    BY <1>1 DEF Following, Fresh
  <1>3. Places' = Places /\ Now' = Now /\ Now = Places
    BY <1>1, <1>2, PlacesAre DEF Now
  <1>4. Pushes' = 0 /\ Pushes' \in 0 .. MaxJournal
    BY <1>1, <1>2, LogIsTyped, StockAssumption DEF Pushes
  <1>5. [cards |-> card', places |-> Now'] = Start'
    BY <1>1, <1>2, <1>3 DEF Start
  <1>6. Reach(Start', 0) = {Start'}
    BY ReachIs
  <1>7. Streaming'
    BY <1>1, <1>4, <1>5, <1>6 DEF Streaming, OnLeg
  <1> QED BY <1>1, <1>7, NoRequests
          DEF Following, Fresh, LookedUp, Loop, Legs, Progress, Outcome, Asking

\* A stream's steps ask no query.
LEMMA FollowStream ==
  ASSUME Streaming', req' = PushReq, pc' \notin {"idle", "set", "each"}
  PROVE  Following'
  BY NoRequests DEF Following, Fresh, LookedUp, Loop, Legs, Progress, Outcome, Asking

LEMMA FollowPushEnd ==
  ASSUME IInv, Following, PushEnd
  PROVE  Following'
  <1>1. /\ pc = "stream" /\ pc' = "commit" /\ req = PushReq
        /\ UNCHANGED <<card, pack, journal, saved, req, leg, cur>>
    BY InvParts DEF PushEnd, tables, locals, Working
  <1>2. Start' = Start /\ Now' = Now /\ Pushes' = Pushes
    BY <1>1, SamePlaces, SameNow DEF Pushes
  <1>3. Streaming'
    BY <1>1, <1>2 DEF Following, Streaming, OnLeg
  <1> QED BY <1>1, <1>3, FollowStream

LEMMA FollowPush ==
  ASSUME IInv, IInv', FInv, Looked, NoFaults, Following, NEW i \in Items,
         PushAdd(i) \/ PushSub(i) \/ PushSet(i)
  PROVE  Following'
  <1> DEFINE found == FoundCards(i.name, i.props)
             k == Pushes
             s == [cards |-> card, places |-> Now]
  <1>1. /\ pc = "stream" /\ pc' = "get" /\ Len(journal) < MaxJournal
        /\ UNCHANGED <<pack, journal, saved, req>>
        /\ leg'.kind \in {"ADD", "DROP"} /\ leg'.box = i.box /\ leg'.n = i.n
        /\ \/ card' = card /\ cur' \in found
           \/ /\ leg'.kind = "ADD" /\ found = {} /\ cur' = lastCard + 1 /\ lastCard < MaxCards
              /\ card' = Put(card, cur', [name |-> i.name, props |-> i.props])
    <2>1. CASE PushAdd(i)
      BY <2>1, NoFault DEF PushAdd, Upsert, Room, InsertCard
    <2>2. CASE PushSub(i)
      BY <2>2 DEF PushSub, Room, tables
    <2> QED BY <2>1, <2>2 DEF PushSet, Looked
  <1>2. req = PushReq
    BY <1>1, InvParts DEF Working
  <1>3. Start' = Start /\ Now' = Now /\ Pushes' = Pushes
    BY <1>1, SamePlaces, SameNow DEF Pushes
  <1>4. s \in Reach(Start, k) /\ k \in 0 .. MaxJournal /\ k < MaxJournal
    <2>1. Len(journal) \in Nat /\ Len(saved.journal) \in Nat
      BY LogIsTyped
    <2> QED BY <1>1, <1>2, <2>1, StockAssumption DEF Following, Streaming, Pushes
  <1>5. found = {c \in DOMAIN card : /\ card[c].name = i.name
                                     /\ HasAllProperties(card[c].props, i.props)}
    BY DEF FoundCards
  <1>6. i.n \in Int /\ Holds(Now, cur', i.box) \in Int
    <2>1. i.n \in Int
      <3>1. i.n \in Counts
        BY DEF Items
      <3> QED BY <3>1, StockAssumption, QuantitiesOK
    <2>2. \A l \in DOMAIN Now : Now[l] \in Int
      BY NowIs, QuantitiesOK
    <2> QED BY <2>1, <2>2 DEF Holds
  <1>7. [cards |-> card', places |-> NewPlaces'] \in L!Pushed(s, i)
    <2> DEFINE old == Holds(Now, cur', i.box)
               plus == Put(Now, <<cur', i.box>>, (i.n + old) % QMod)
               minus == Put(Now, <<cur', i.box>>, (old + QMod - i.n) % QMod)
    <2>1. NewPlaces' = Put(Now, <<cur', i.box>>, NewQty(leg'.kind, old, i.n))
      BY <1>1, <1>3 DEF NewPlaces
    <2>2. (old + i.n) % QMod = (i.n + old) % QMod
      BY <1>6
    <2>3. NewPlaces' = IF leg'.kind = "ADD" THEN plus ELSE minus
      BY <1>1, <2>1, <2>2 DEF NewQty
    <2>4. /\ cur' \in found => /\ [cards |-> card, places |-> plus] \in L!Pushed(s, i)
                               /\ [cards |-> card, places |-> minus] \in L!Pushed(s, i)
          /\ found = {} /\ cur' \in 1 .. MaxCards \ DOMAIN card =>
               [cards |-> Put(card, cur', [name |-> i.name, props |-> i.props]), places |-> plus]
                 \in L!Pushed(s, i)
      <3> HIDE DEF found
      <3> QED BY <1>5, PushedIs
    <2>5. lastCard + 1 \in 1 .. MaxCards \ DOMAIN card \/ ~(lastCard < MaxCards)
      <3>1. DOMAIN card \subseteq 1 .. lastCard /\ lastCard \in Nat
        BY InvParts DEF TablesOK, ImageOK, Image
      <3> QED BY <3>1, StockAssumption
    <2> HIDE DEF found, plus, minus, s
    <2> QED BY <1>1, <2>3, <2>4, <2>5
  <1>8. [cards |-> card', places |-> NewPlaces'] \in Reach(Start, k + 1)
    <2>1. k + 1 \in 1 .. MaxJournal /\ (k + 1) - 1 = k
      BY <1>4, StockAssumption
    <2> HIDE DEF k, s
    <2>2. Reach(Start, k + 1) = Reach(Start, k) \cup L!AfterOne(Reach(Start, k))
      BY <2>1, ReachIs
    <2>3. [cards |-> card', places |-> NewPlaces'] \in L!AfterOne(Reach(Start, k))
      BY <1>4, <1>7, AfterOneIs
    <2> QED BY <2>2, <2>3
  <1>9. Streaming'
    BY <1>1, <1>3, <1>4, <1>8 DEF Streaming, OnLeg
  <1> QED BY <1>1, <1>2, <1>9, FollowStream

\* A request is open in every state but idle.
Busy == pc # "idle" => req # NoReq

\* All actions together.
LEMMA FollowStep ==
  ASSUME IInv, FInv, Flat, Looked, Following, Busy, [Next]_vars
  PROVE  Following' /\ Busy'
  <1>1. IInv' /\ FInv'
    BY StepOK, FlatStep
  <1>2. CASE \E r \in Queries : Query(r)
    <2>1. PICK r \in Queries : Query(r)
      BY <1>2
    <2>2. Busy'
      BY <2>1, NoRequests DEF Query, Busy
    <2> QED BY <1>1, <2>1, <2>2, FollowQuery
  <1>3. CASE PushOpen
    <2>1. Busy'
      BY <1>3, NoRequests DEF PushOpen, Busy
    <2> QED BY <1>1, <1>3, <2>1, FollowPushOpen
  <1>4. CASE Answer \/ Crash
    <2>1. pc' = "idle" /\ ResetLocals /\ (Restore \/ Commit)
      BY <1>4 DEF Answer, Crash
    <2> QED BY <2>1, FollowEnd DEF Busy
  <1>5. CASE NextCard \/ Create \/ Get \/ Set \/ Ref \/ Log \/ PushEnd
    <2>1. pc # "idle" /\ req' = req
      BY <1>5 DEF NextCard, Create, MustCreate, Get, Set, Ref, Log, AfterLog, PushEnd, locals
    <2>2. Busy'
      BY <2>1 DEF Busy
    <2>3. Following'
      BY <1>1, <1>5, FollowNextCard, FollowCreate, FollowGet, FollowSet, FollowRef, FollowLog,
         FollowPushEnd
    <2> QED BY <2>2, <2>3
  <1>6. CASE \E i \in Items : PushAdd(i) \/ PushSub(i) \/ PushSet(i)
    <2>1. PICK i \in Items : PushAdd(i) \/ PushSub(i) \/ PushSet(i)
      BY <1>6
    <2>2. pc # "idle" /\ req' = req
      BY <2>1 DEF PushAdd, PushSub, PushSet
    <2>3. Following'
      BY <1>1, <2>1, FollowPush DEF Flat
    <2> QED BY <2>2, <2>3 DEF Busy
  <1>7. CASE Failure
    BY <1>4, <1>7, NoFault DEF Flat, Failure, LoopFault, CreateFault, PushFault,
       SkipFault, GetFault, SetFault, RefFault, LogFault, CommitFault
  <1>8. CASE UNCHANGED vars
    <2>1. UNCHANGED <<card, pack, journal, lastCard, saved, pc, req, todo, cur, leg, q, cnt>>
      BY <1>8 DEF vars, tables, locals
    <2>2. Places' = Places /\ Hits' = Hits /\ Now' = Now /\ Start' = Start
          /\ \A c : Gone(c)' = Gone(c)
      BY <2>1, SamePlaces, SameNow
    <2>3. Taken' = Taken /\ Arrived' = Arrived
      BY <2>1, <2>2 DEF Taken, Arrived, OnLeg
    <2>4. \A c, b : Expected(c, b)' = Expected(c, b)
      BY <2>1, <2>2, <2>3 DEF Expected
    <2>5. Progress'
      BY <2>1, <2>2, <2>3, <2>4 DEF Following, Progress, Asking
    <2>6. Loop' /\ Legs' /\ Outcome' /\ Fresh' /\ LookedUp'
      BY <2>1, <2>2 DEF Following, Loop, Legs, Outcome, Created, Fresh, LookedUp, Asking, OnLeg
    <2>7. Streaming'
      <3>1. NewPlaces' = NewPlaces /\ Pushes' = Pushes
        BY <2>1, <2>2 DEF NewPlaces, Pushes
      <3> QED BY <2>1, <2>2, <3>1 DEF Following, Streaming, OnLeg
    <2> QED BY <2>1, <2>5, <2>6, <2>7 DEF Following, Busy
  <1> QED BY <1>2, <1>3, <1>4, <1>5, <1>6, <1>7, <1>8 DEF Next, Step

\* A query whose loop is over has done to every place what the ledger does.
LEMMA LoopIsOver ==
  ASSUME IInv, FInv, Looked, Following, Asking, pc = "each", todo = {}
  PROVE  /\ Taken = Hits /\ Arrived = Hits
         /\ DOMAIN Now = DOMAIN Places \cup (IF req.code = "MOV" THEN Hits \X {req.dest} ELSE {})
         /\ \A l \in DOMAIN Now : l = <<l[1], l[2]>> /\ Now[l] = Expected(l[1], l[2])
  <1>1. Taken = Hits /\ Arrived = Hits
    BY DEF Taken, Arrived, OnLeg
  <1>2. \A l \in DOMAIN Now : l = <<l[1], l[2]>>
    BY NowIs
  <1> QED BY <1>1, <1>2 DEF Following, Progress

\* A query whose loop is over commits what a step of the ledger makes.
LEMMA QueryAnswers ==
  ASSUME IInv, FInv, Looked, Following, pc = "each", todo = {}, ~MustCreate, Commit
  PROVE  L!Next \/ UNCHANGED L!vars
  <1>1. req \in Queries /\ Asking
    BY InvParts DEF Working, Asking, Following, Outcome
  <1>2. saved'.card = saved.card /\ Places' = Now
    <2>1. saved'.card = card /\ saved'.pack = pack
      BY DEF Commit, Image
    <2> QED BY <1>1, <2>1, PlacesAre DEF Now, Following, Loop
  <1>3. req.code \in {"SET", "ADD", "SUB", "MOV", "COUNT", "SUM"} /\ req.n \in Qty
    BY <1>1, KindsOfQueries, StockAssumption DEF Writing
  <1>4. /\ Taken = Hits /\ Arrived = Hits
        /\ DOMAIN Now = DOMAIN Places \cup (IF req.code = "MOV" THEN Hits \X {req.dest} ELSE {})
        /\ \A l \in DOMAIN Now : l = <<l[1], l[2]>> /\ Now[l] = Expected(l[1], l[2])
    BY <1>1, LoopIsOver
  <1>5. Now = [l \in DOMAIN Now |-> Now[l]]
    BY NowIs
  <1>6. \A l \in DOMAIN Places : l = <<l[1], l[2]>> /\ Places[l] \in Qty
    BY PlacesAreTyped
  <1>7. CASE req.code \in {"COUNT", "SUM"}
    BY <1>1, <1>2, <1>7, Untouched, LedgerStutter
  <1>8. CASE req.code \in {"SET", "ADD", "SUB"}
    <2>1. DOMAIN Now = DOMAIN Places
      BY <1>4, <1>8
    <2>2. ASSUME NEW l \in DOMAIN Places
          PROVE  Now[l] = IF l \in Hits \X {req.box} THEN NewQty(req.code, Places[l], req.n)
                          ELSE Places[l]
      <3>1. l = <<l[1], l[2]>> /\ Now[l] = Expected(l[1], l[2])
        BY <1>4, <2>1
      <3>2. l \in Hits \X {req.box} <=> l[1] \in Hits /\ l[2] = req.box
        BY <3>1
      <3> QED BY <1>4, <1>8, <3>1, <3>2 DEF Expected
    <2>3. Places' = [l \in DOMAIN Places |->
                       IF l \in L!Hit(req) \X {req.box} THEN NewQty(req.code, Places[l], req.n)
                       ELSE Places[l]]
      BY <1>2, <1>5, <2>1, <2>2, HitIs
    <2>4. CASE req.code = "SET"
      <3>1. Hits # {}
        <4>1. cnt # 0
          BY <2>4 DEF MustCreate
        <4> QED BY <1>1, <4>1 DEF Following, Loop
      <3>2. \A l \in DOMAIN Places : NewQty(req.code, Places[l], req.n) = req.n
        BY <2>4 DEF NewQty
      <3>3. Places' = [l \in DOMAIN Places |->
                         IF l \in L!Hit(req) \X {req.box} THEN req.n ELSE Places[l]]
        BY <2>3, <3>2
      <3>4. L!SetAll(req)
        BY <1>2, <2>4, <3>1, <3>3, HitIs, Zenon DEF L!SetAll, L!Change
      <3> QED BY <1>1, <3>4, LedgerStep
    <2>5. CASE req.code = "ADD"
      <3>1. \A l \in DOMAIN Places : NewQty(req.code, Places[l], req.n) = (Places[l] + req.n) % QMod
        BY <2>5 DEF NewQty
      <3>2. Places' = [l \in DOMAIN Places |->
                         IF l \in L!Hit(req) \X {req.box} THEN (Places[l] + req.n) % QMod
                         ELSE Places[l]]
        BY <2>3, <3>1
      <3>3. L!Add(req)
        BY <1>2, <2>5, <3>2, Zenon DEF L!Add, L!Change
      <3> QED BY <1>1, <3>3, LedgerStep
    <2>6. CASE req.code = "SUB"
      <3>1. ASSUME NEW l \in DOMAIN Places
            PROVE  NewQty(req.code, Places[l], req.n) = Places[l] - L!Least(Places[l], req.n)
        <4>1. Places[l] \in Int /\ req.n \in Int
          BY <1>3, <1>6, QuantitiesOK
        <4> QED BY <2>6, <4>1 DEF NewQty, L!Least
      <3>2. Places' = [l \in DOMAIN Places |->
                         IF l \in L!Hit(req) \X {req.box}
                           THEN Places[l] - L!Least(Places[l], req.n)
                           ELSE Places[l]]
        BY <2>3, <3>1
      <3>3. L!Sub(req)
        BY <1>2, <2>6, <3>2, Zenon DEF L!Sub, L!Change
      <3> QED BY <1>1, <3>3, LedgerStep
    <2> QED BY <1>8, <2>4, <2>5, <2>6
  <1>9. CASE req.code = "MOV" /\ req.box = req.dest
    <2>1. DOMAIN Now = DOMAIN Places
      <3>1. Hits \X {req.dest} \subseteq DOMAIN Places
        BY <1>9 DEF Hits
      <3> QED BY <1>4, <1>9, <3>1
    <2>2. ASSUME NEW l \in DOMAIN Now
          PROVE  Now[l] = Places[l]
      <3>1. l = <<l[1], l[2]>> /\ Now[l] = Expected(l[1], l[2])
        BY <1>4
      <3>2. Expected(l[1], l[2]) = Places[<<l[1], l[2]>>]
        BY <1>4, <1>9 DEF Expected
      <3> QED BY <3>1, <3>2
    <2>3. Now = Places
      BY <1>5, <2>1, <2>2, PlacesAreTyped
    <2> QED BY <1>2, <2>3, LedgerStutter
  <1>10. CASE req.code = "MOV" /\ req.box # req.dest
    <2> DEFINE had(l) == Places[<<l[1], req.box>>]
               gone(l) == L!Least(had(l), req.n)
               New(l) == IF l[1] \notin Hits THEN Places[l]
                         ELSE CASE l[2] = req.box -> had(l) - gone(l)
                                [] l[2] = req.dest -> (L!At(l[1], req.dest) + gone(l)) % QMod
                                [] OTHER -> Places[l]
    <2>1. \A c, b : L!At(c, b) = Holds(Places, c, b)
      BY Zenon DEF L!At, Holds
    <2>2. ASSUME NEW c \in Hits
          PROVE  /\ Gone(c) = L!Least(Places[<<c, req.box>>], req.n)
                 /\ NewQty("TAKE", Places[<<c, req.box>>], req.n)
                      = Places[<<c, req.box>>] - L!Least(Places[<<c, req.box>>], req.n)
      <3>1. <<c, req.box>> \in DOMAIN Places
        BY DEF Hits
      <3>2. Places[<<c, req.box>>] \in Int /\ req.n \in Int
        BY <1>3, <1>6, <3>1, QuantitiesOK
      <3> QED BY <3>2 DEF Gone, LogValue, NewQty, L!Least
    <2>3. ASSUME NEW l \in DOMAIN Now
          PROVE  Now[l] = New(l)
      <3>1. l = <<l[1], l[2]>> /\ Now[l] = Expected(l[1], l[2])
        BY <1>4
      <3>2. CASE l[1] \notin Hits
        BY <1>4, <1>10, <3>1, <3>2 DEF Expected
      <3>3. CASE l[1] \in Hits /\ l[2] = req.box
        <4>1. Now[l] = NewQty("TAKE", Places[l], req.n)
          BY <1>4, <1>10, <3>1, <3>3 DEF Expected
        <4>2. l = <<l[1], req.box>>
          BY <3>1, <3>3
        <4>3. NewQty("TAKE", Places[l], req.n) = Places[l] - L!Least(Places[l], req.n)
          BY <2>2, <3>3, <4>2
        <4>4. New(l) = had(l) - gone(l)
          <5> HIDE DEF had, gone
          <5> QED BY <1>10, <3>3
        <4>5. had(l) = Places[l]
          BY <4>2
        <4>6. gone(l) = L!Least(Places[l], req.n)
          BY <4>5
        <4> HIDE DEF New, had, gone
        <4> QED BY <4>1, <4>3, <4>4, <4>5, <4>6
      <3>4. CASE l[1] \in Hits /\ l[2] = req.dest
        <4>1. Now[l] = (Holds(Places, l[1], req.dest) + Gone(l[1])) % QMod
          BY <1>4, <1>10, <3>1, <3>4 DEF Expected
        <4> QED BY <1>10, <2>1, <2>2, <3>4, <4>1
      <3>5. CASE l[1] \in Hits /\ l[2] # req.box /\ l[2] # req.dest
        BY <1>4, <1>10, <3>1, <3>5 DEF Expected
      <3> QED BY <3>2, <3>3, <3>4, <3>5
    <2>4. DOMAIN Now = DOMAIN Places \cup L!Hit(req) \X {req.dest}
      BY <1>4, <1>10, HitIs
    <2>5. Places' = [l \in DOMAIN Places \cup L!Hit(req) \X {req.dest} |-> New(l)]
      <3> HIDE DEF New
      <3> QED BY <1>2, <1>5, <2>3, <2>4
    <2>6. L!Move(req)
      BY <1>2, <1>10, <2>5, HitIs, Zenon DEF L!Move
    <2> QED BY <1>1, <2>6, LedgerStep
  <1> QED BY <1>3, <1>7, <1>8, <1>9, <1>10

\* So does every request that is answered: a query, a new card or a stream.
LEMMA AnswerSteps ==
  ASSUME IInv, FInv, Looked, Following, Busy, Answer
  PROVE  L!Next \/ UNCHANGED L!vars
  <1>1. Commit /\ saved'.card = card /\ Places' = Now
    BY PlacesAre DEF Answer, Commit, Image, Now
  <1>2. CASE pc = "each"
    <2>1. todo = {} /\ ~MustCreate
      BY <1>2 DEF Answer, Done
    <2> QED BY <1>1, <1>2, <2>1, QueryAnswers
  <1>3. CASE pc = "commit" /\ req \in Queries /\ leg.kind = "NEW"
    <2>1. req.code = "SET" /\ L!Hit(req) = {} /\ Created
      BY <1>3, HitIs DEF Following, Outcome
    <2>2. PICK c \in (1 .. MaxCards) \ DOMAIN saved.card :
            /\ card = Put(saved.card, c, [name |-> req.name, props |-> req.props])
            /\ Now = Put(Places, <<c, req.box>>, req.n)
      BY <2>1 DEF Created
    <2>3. L!SetNew(req)
      BY <1>1, <2>1, <2>2, WithIsPut, Zenon DEF L!SetNew
    <2> QED BY <1>3, <2>3, LedgerStep
  <1>4. CASE pc = "commit" /\ req \in Queries /\ leg.kind # "NEW"
    BY <1>1, <1>4, LedgerStutter DEF Following, Outcome
  <1>5. CASE pc = "commit" /\ req = PushReq
    <2> DEFINE s == [cards |-> card, places |-> Now]
    <2>1. s \in Reach(Start, Pushes) /\ Pushes \in 0 .. MaxJournal
      BY <1>5 DEF Following, Streaming
    <2>2. s \in L!Streams
      <3> HIDE DEF s
      <3> QED BY <2>1, ReachGrows, StreamsAre
    <2>3. saved'.card = s.cards /\ Places' = s.places
      BY <1>1
    <2> HIDE DEF s
    <2>4. L!Push
      BY <2>2, <2>3, Zenon DEF L!Push
    <2> QED BY <2>4, Zenon DEF L!Next
  <1>6. pc # "idle" /\ (pc = "each" \/ pc = "commit")
    BY DEF Answer, Done
  <1> QED BY <1>2, <1>3, <1>4, <1>5, <1>6, InvParts DEF LocalsOK, Busy

\* The handlers implement the ledger: what clients find committed is always the
\* outcome of whole requests.  For any number of cards, packages, requests and
\* pushed cards, quantities of any width, leaf boxes, and a crash anywhere.
THEOREM HandlersKeepTheLedger ==
  ASSUME Flat, Looked
  PROVE  Spec => ImplementsLedger
  <1>1. IInv /\ FInv /\ Following /\ Busy /\ [Next]_vars => Following' /\ Busy'
    BY FollowStep
  <1>2. Init => Following /\ Busy
    BY FollowInit DEF Init, TablesInit, Busy
  <1>3. IInv /\ FInv /\ Following /\ Busy /\ [Next]_vars => [L!Next]_(L!vars)
    <2> SUFFICES ASSUME IInv, FInv, Following, Busy, [Next]_vars
                 PROVE  [L!Next]_(L!vars)
      OBVIOUS
    <2>1. CASE Answer
      BY <2>1, AnswerSteps
    <2>2. CASE ~Answer
      <3>1. saved' = saved
        BY <2>2, NoFault DEF Next, Step, Failure, Query, PushOpen, NextCard, Create, Get, Set, Ref,
           Log, AfterLog, PushEnd, PushAdd, PushSub, PushSet, LoopFault, SkipFault, CreateFault,
           PushFault, GetFault, SetFault, RefFault, LogFault, CommitFault, Crash, Restore, vars
      <3>2. saved'.card = saved.card /\ Places' = Places
        BY <3>1, PlacesAre
      <3> QED BY <3>2, LedgerStutter
    <2> QED BY <2>1, <2>2
  <1> QED BY <1>1, <1>2, <1>3, FlatInvariance, LedgerInit, PTL DEF Spec, ImplementsLedger, L!Spec
=============================================================================
