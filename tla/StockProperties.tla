-------------------------- MODULE StockProperties --------------------------
(***************************************************************************)
(* What the stock handlers promise.  A committed image is what clients     *)
(* see; most properties are about it, or about the step that commits.      *)
(***************************************************************************)
EXTENDS Stock, FiniteSetsExt

\* The boxes of requests are leaves: none lies in another.
FlatBoxes == \A a, b \in Boxes : InRange(a, b) => a = b

\* How much of a card a package table holds.
CardTotal(packs, c) ==
  MapThenSumSet(LAMBDA p : packs[p].qty, {p \in DOMAIN packs : packs[p].card = c})

\* The journal entries of the open transaction.
NewEntries == {i \in DOMAIN journal : i > Len(saved.journal)}

QtyBefore(p) == IF p \in DOMAIN saved.pack THEN saved.pack[p].qty ELSE 0

----------------------------------------------------------------------------
(* Safety.                                                                  *)

\* No package belongs to a card that is not there, whichever calls failed
\* and wherever the process died.
NoOrphans == Orphanless(Image) /\ Orphanless(saved)

\* A card has one remainder per box: getQuantity and setQuantity never leave
\* a second row for the same card and box, although no index forbids it.
\* (Leaf boxes; no call failing; no pushed "=".)
OneRowPerBox ==
  \A p1, p2 \in DOMAIN saved.pack :
    saved.pack[p1].card = saved.pack[p2].card
      /\ saved.pack[p1].box = saved.pack[p2].box => p1 = p2

\* Every box something is in is on the list of boxes that getBox returns.
\* (Leaf boxes; no call failing.)
BoxListed == \A p \in DOMAIN saved.pack : saved.pack[p].box \in saved.boxes

\* A move changes no card's total, even when one box lies in the other or
\* both are the same box.
MoveConserves ==
  [][Answer /\ req.code = "MOV" =>
       \A c \in DOMAIN card :
         CardTotal(pack, c) % QMod = CardTotal(saved.pack, c) % QMod]_vars

\* "-" of a query never makes a remainder larger by wrapping below zero, and
\* takes at most the number asked from each matched card.
IssueBounded ==
  [][Answer /\ req.code = "SUB" =>
       \A c \in DOMAIN saved.card :
         /\ CardTotal(pack, c) <= CardTotal(saved.pack, c)
         /\ CardTotal(saved.pack, c) <= CardTotal(pack, c) + req.n]_vars

\* What the journal gained in a transaction that adds, sets or moves accounts
\* for the change of every remainder it lists.
SignedValue(e) == IF e.op = "-" THEN QMod - e.value ELSE e.value
Logged(p) == {i \in NewEntries : journal[i].pack = p}
JournalAccounts ==
  [][Answer /\ (req.code \in {"ADD", "MOV"}) =>
       \A p \in DOMAIN pack :
         pack[p].qty =
           (QtyBefore(p) + MapThenSumSet(LAMBDA i : SignedValue(journal[i]),
                                         Logged(p))) % QMod]_vars

\* A remainder that changed has an entry of the same transaction in the
\* journal; only a new card's first package has none (README: creating a card
\* is not recorded).
ChangesLogged ==
  [][Answer =>
       \A p \in DOMAIN pack :
         QtyBefore(p) # pack[p].qty =>
           \/ Logged(p) # {}
           \/ p \notin DOMAIN saved.pack /\ pack[p].card \notin DOMAIN saved.card
    ]_vars

----------------------------------------------------------------------------
(* What the documentation says and the code does not do.                    *)

\* README 585: a remainder cannot be negative.  Taking from one never makes it
\* larger, which is what a negative unsigned number is.
NeverBelowZero ==
  [][Set /\ LogOp(leg.kind) = "-" => pack'[pid'].qty <= q]_vars

----------------------------------------------------------------------------
(* The abstract ledger.                                                     *)

\* The remainder a card has in a leaf box is that of its one package there.
Places ==
  LET at == {<<saved.pack[p].card, saved.pack[p].box>> : p \in DOMAIN saved.pack}
  IN  [l \in at |->
         saved.pack[CHOOSE p \in DOMAIN saved.pack :
                      saved.pack[p].card = l[1] /\ saved.pack[p].box = l[2]].qty]

L == INSTANCE Ledger WITH Id <- 1 .. MaxCards,
                          Has <- HasAllProperties,
                          MaxStream <- MaxJournal,
                          cards <- saved.card, places <- Places

\* The handlers, step by step, implement the ledger: what a client finds
\* committed is always the outcome of whole requests, one after the other, for
\* every interleaving of commits and crashes.  (Leaf boxes; no call failing.)
ImplementsLedger == L!Spec

----------------------------------------------------------------------------
(* Liveness.                                                                *)

\* Every request is answered, or its handler dies.
Answered == pc # "idle" ~> pc = "idle"
=============================================================================
