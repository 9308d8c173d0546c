------------------------------ MODULE BoxEdit ------------------------------
(***************************************************************************)
(* chBox: a client adds, names, removes or moves a storage place, with all *)
(* the places in it.  The handler walks an open cursor over the Box rows   *)
(* of a range while it inserts and erases rows of the same table, and the  *)
(* calls on packages swallow what they catch.  One step is one database    *)
(* call that changes something.  Names of boxes are left out.              *)
(***************************************************************************)
EXTENDS Tables, FiniteSets

CONSTANTS
  BoxOps,        \* operation symbols clients send
  Sources,       \* boxes they name
  Targets,       \* boxes they move to
  Layouts,       \* the packages there may be at the start: id -> card and box
  MaxRequests,   \* how many requests the clients send
  MaxFaults      \* how many database calls may throw

ASSUME BoxEditAssumption ==
  /\ BoxOps \subseteq {"+", "=", "-", "/"}
  /\ Sources \subseteq Path \cup {NoBox} /\ Targets \subseteq Path
  /\ Layouts \subseteq Seq([card : Nat \ {0}, box : Path])
  /\ MaxRequests \in Nat /\ MaxFaults \in Nat

VARIABLES
  pc,        \* the next call of the open handler, "idle" when none is open
  req,       \* its request
  rows,      \* Box rows its cursor has not come to yet
  src, dst,  \* the row it is at, and where that goes
  here,      \* packages the inner cursor has not come to yet
  requests, faults

cursors == <<rows, src, dst, here>>
vars == <<tables, saved, pc, req, cursors, requests, faults>>

BoxRequests ==
  {r \in [op : BoxOps, box : Sources, dest : Targets \cup {NoBox}] :
     /\ IF r.op = "/" THEN r.dest \in Targets ELSE r.dest = NoBox
     /\ r.op \in {"+", "="} => r.box # NoBox}
NoReq == [op |-> "none", box |-> NoBox, dest |-> NoBox]

\* Boxes are box ids, cursors hold rows, and ids came from the counters.
PackOK(p) == pack[p].card \in DOMAIN card /\ pack[p].box \in Box /\ pack[p].qty \in Qty
TypeOK ==
  /\ pc \in {"idle", "row", "move", "erase", "clear", "drop", "commit"}
  /\ req \in BoxRequests \cup {NoReq}
  /\ boxes \subseteq Box /\ rows \subseteq boxes
  /\ src \in Box /\ dst \in Box
  /\ here \subseteq DOMAIN pack
  /\ \A p \in DOMAIN pack : PackOK(p)
  /\ requests \in 0 .. MaxRequests /\ faults \in 0 .. MaxFaults

ResetCursors == rows' = {} /\ src' = NoBox /\ dst' = NoBox /\ here' = {}

\* Any stock of packages with every box in use listed, as the stock handlers
\* leave it.
Init ==
  /\ \E layout \in Layouts :
       /\ pack = [p \in DOMAIN layout |->
                    [card |-> layout[p].card, box |-> layout[p].box, qty |-> p % QMod]]
       /\ card = [c \in {layout[p].card : p \in DOMAIN layout} |->
                    [name |-> Star, props |-> <<>>]]
       /\ boxes = {layout[p].box : p \in DOMAIN layout}
       /\ lastPack = Cardinality(DOMAIN layout)
       /\ lastCard = Cardinality(DOMAIN card)
  /\ journal = <<>>
  /\ saved = Image
  /\ pc = "idle" /\ req = NoReq
  /\ rows = {} /\ src = NoBox /\ dst = NoBox /\ here = {}
  /\ requests = 0 /\ faults = 0

Fault == faults < MaxFaults /\ faults' = faults + 1

----------------------------------------------------------------------------
(* The request.  The range of chBox is not clamped as the others are, so    *)
(* that of box 0 is empty.                                                  *)

InPlace(x, b) == BoxLE(b, x) /\ BoxLE(x, LastBox(b))
RowsOf(b) == {x \in boxes : InPlace(x, b)}

\* A mutant: every package whose path begins with the same number.
PackagesInRoom(b) == {p \in DOMAIN pack : pack[p].box[1] = b[1]}

\* removePackagesFromBox
PackagesIn(b) == {p \in DOMAIN pack : InRange(pack[p].box, b)}

Open(r) ==
  /\ pc = "idle" /\ req' = r
  /\ requests < MaxRequests /\ requests' = requests + 1
  /\ UNCHANGED <<card, pack, journal, lastCard, lastPack, saved, src, dst, faults>>

\* "=" adds a place when no row is in the range, else it renames the rows.
Assign(r) ==
  /\ r.op = "=" /\ Open(r)
  /\ boxes' = IF RowsOf(r.box) = {} THEN boxes \cup {r.box} ELSE boxes
  /\ pc' = "commit"
  /\ UNCHANGED <<rows, here>>

\* "+" is refused with code -3 when a row is in the range.
Add(r) ==
  /\ r.op = "+" /\ Open(r)
  /\ boxes' = IF RowsOf(r.box) = {} THEN boxes \cup {r.box} ELSE boxes
  /\ pc' = "commit"
  /\ UNCHANGED <<rows, here>>

\* "-" is refused when no row is in the range; else packages go first.
Remove(r) ==
  /\ r.op = "-" /\ Open(r)
  /\ rows' = RowsOf(r.box)
  /\ IF rows' = {} THEN pc' = "commit" /\ here' = {}
                   ELSE pc' = "clear" /\ here' = PackagesIn(r.box)
  /\ UNCHANGED boxes

Move(r) ==
  /\ r.op = "/" /\ Open(r)
  /\ rows' = RowsOf(r.box)
  /\ pc' = "row"
  /\ UNCHANGED <<boxes, here>>

----------------------------------------------------------------------------
(* "/": the rows of the range one by one.                                   *)

\* The cursor may come to a row inserted into the range it walks over, or not.
Visit(b, d) ==
  /\ boxes' = boxes \cup {d}
  /\ \/ rows' = rows \ {b}
     \/ d \notin boxes /\ InPlace(d, req.box) /\ rows' = (rows \ {b}) \cup {d}

\* A mutant: a target that is there already is taken for the row to move.
NextRowUnlessThere ==
  /\ pc = "row"
  /\ \E b \in rows : \E d \in RenameBox(b, req.box, req.dest) :
       /\ src' = b /\ dst' = d
       /\ Visit(b, d)
       /\ here' = IF d \in boxes THEN {} ELSE {p \in DOMAIN pack : pack[p].box = b}
  /\ pc' = "move"
  /\ UNCHANGED <<card, pack, journal, lastCard, lastPack, saved, req, requests,
                 faults>>

\* A mutant: the packages of all that is in the box go to the one target.
NextRowWholeRange ==
  /\ pc = "row"
  /\ \E b \in rows : \E d \in RenameBox(b, req.box, req.dest) :
       /\ src' = b /\ dst' = d
       /\ Visit(b, d)
       /\ here' = PackagesIn(b)
  /\ pc' = "move"
  /\ UNCHANGED <<card, pack, journal, lastCard, lastPack, saved, req, requests,
                 faults>>

\* A mutant: the cursor starts again after an insert.
NextRowRestart ==
  /\ pc = "row"
  /\ \E b \in rows : \E d \in RenameBox(b, req.box, req.dest) :
       /\ src' = b /\ dst' = d
       /\ boxes' = boxes \cup {d}
       /\ rows' = IF d \in boxes THEN rows \ {b} ELSE rows \cup {d}
       /\ here' = {p \in DOMAIN pack : pack[p].box = b}
  /\ pc' = "move"
  /\ UNCHANGED <<card, pack, journal, lastCard, lastPack, saved, req, requests,
                 faults>>

\* Its target is looked up and inserted when it is not there; then the
\* packages in the box are selected.
NextRow ==
  /\ pc = "row"
  /\ \E b \in rows : \E d \in RenameBox(b, req.box, req.dest) :
       /\ src' = b /\ dst' = d
       /\ Visit(b, d)
       /\ here' = {p \in DOMAIN pack : pack[p].box = b}
  /\ pc' = "move"
  /\ UNCHANGED <<card, pack, journal, lastCard, lastPack, saved, req, requests,
                 faults>>

\* changePackageBox
MovePackage ==
  /\ pc = "move"
  /\ \E p \in here : /\ pack' = [pack EXCEPT ![p].box = dst]
                     /\ here' = here \ {p}
  /\ UNCHANGED <<card, boxes, journal, lastCard, lastPack, saved, pc, req, rows,
                 src, dst, requests, faults>>

\* A mutant: the row is kept when the target is in use.
EraseRowIfEmpty ==
  /\ pc = "erase" \/ (pc = "move" /\ here = {})
  /\ boxes' = IF \E p \in DOMAIN pack : pack[p].box = dst THEN boxes
              ELSE boxes \ {src}
  /\ pc' = "row"
  /\ UNCHANGED <<card, pack, journal, lastCard, lastPack, saved, req, cursors,
                 requests, faults>>

EraseRow ==
  /\ pc = "erase" \/ (pc = "move" /\ here = {})
  /\ boxes' = boxes \ {src}
  /\ pc' = "row"
  /\ UNCHANGED <<card, pack, journal, lastCard, lastPack, saved, req, cursors,
                 requests, faults>>

\* changePackageBox swallows what it catches: the row is erased all the same.
MoveFault ==
  /\ pc = "move" /\ Fault
  /\ pc' = "erase" /\ here' = {}
  /\ UNCHANGED <<tables, saved, req, rows, src, dst, requests>>

----------------------------------------------------------------------------
(* "-": the packages of the range, then its rows.                           *)

ClearPackage ==
  /\ pc = "clear"
  /\ \E p \in here : /\ pack' = [x \in DOMAIN pack \ {p} |-> pack[x]]
                     /\ here' = here \ {p}
  /\ UNCHANGED <<card, boxes, journal, lastCard, lastPack, saved, pc, req, rows,
                 src, dst, requests, faults>>

\* Swallowed by removePackagesFromBox: the rows go all the same.
ClearFault ==
  /\ pc = "clear" /\ Fault
  /\ pc' = "drop" /\ here' = {}
  /\ UNCHANGED <<tables, saved, req, rows, src, dst, requests>>

DropRow ==
  /\ pc = "drop" \/ (pc = "clear" /\ here = {})
  /\ \E b \in rows : boxes' = boxes \ {b} /\ rows' = rows \ {b}
  /\ pc' = "drop"
  /\ UNCHANGED <<card, pack, journal, lastCard, lastPack, saved, req, src, dst,
                 here, requests, faults>>

----------------------------------------------------------------------------
(* The end of the handler.                                                  *)

\* A call on boxes throws: chBox ends its loop and commits what was done.
BoxFault ==
  /\ pc \in {"row", "erase", "drop"} \/ (pc \in {"move", "clear"} /\ here = {})
  /\ Fault
  /\ pc' = "commit"
  /\ ResetCursors
  /\ UNCHANGED <<tables, saved, req, requests>>

Done == pc = "commit" \/ (pc \in {"row", "drop"} /\ rows = {})

Answer ==
  /\ Done
  /\ Commit
  /\ pc' = "idle" /\ req' = NoReq /\ ResetCursors
  /\ UNCHANGED <<requests, faults>>

\* The commit fails, or the process dies.
Abort ==
  /\ \/ Done /\ Fault
     \/ pc # "idle" /\ UNCHANGED faults
  /\ Restore
  /\ pc' = "idle" /\ req' = NoReq /\ ResetCursors
  /\ UNCHANGED requests

Step == \/ NextRow \/ MovePackage \/ EraseRow
        \/ ClearPackage \/ DropRow \/ Answer

Failure == MoveFault \/ ClearFault \/ BoxFault \/ Abort

Next == \/ \E r \in BoxRequests : Assign(r) \/ Add(r) \/ Remove(r) \/ Move(r)
        \/ Step
        \/ Failure

Spec == Init /\ [][Next]_vars

\* The thread of an open handler goes on: nothing in chBox waits.
FairSpec == Spec /\ WF_vars(Step)

----------------------------------------------------------------------------
(* What it must do.  saved is what the handler found; faults = 0 says that  *)
(* no call has thrown so far.                                               *)

Listed(s) == \A p \in DOMAIN s.pack : s.pack[p].box \in s.boxes
Clean == faults = 0 /\ Listed(saved) /\ Answer
IntoItself == Inside(req.dest, req.box)
Apart == ~IntoItself /\ ~Inside(req.box, req.dest)

\* Whatever is moved or removed, at whatever call it fails, a package outside
\* the place a request names keeps its card, its box and its quantity.
OutsideKept ==
  pc # "idle" =>
    \A p \in DOMAIN saved.pack : ~InRange(saved.pack[p].box, req.box) =>
      p \in DOMAIN pack /\ pack[p] = saved.pack[p]

\* The invariant of chBox: its rows, cursors and packages are what they should
\* be, and what is outside is kept.
EditInvariant == TypeOK /\ OutsideKept

\* A move ("/") leaves no package behind (box 0 names no place to chBox): all
\* that was in the place, or in a place in it, is in the target, even when the
\* target lies in the place and the cursor meets the rows it has just added.
EndsInDest ==
  [][Clean /\ req.op = "/" /\ req.box # NoBox =>
       \A p \in DOMAIN saved.pack : InRange(saved.pack[p].box, req.box) =>
         /\ p \in DOMAIN pack /\ pack[p].qty = saved.pack[p].qty
         /\ Inside(pack[p].box, req.dest)]_vars

\* A move to a target outside the place keeps how things are nested: each
\* package is where renameBox takes the box it was in, moved once and only
\* once.  Nor may the place lie in the target: then a box of the place may be
\* renamed to one the cursor is still to meet (1-1-1 of 1-1, moved to 1).
RenamedOnce ==
  [][Clean /\ req.op = "/" /\ Apart /\ req.box # NoBox =>
       \A p \in DOMAIN saved.pack : InRange(saved.pack[p].box, req.box) =>
         p \in DOMAIN pack /\
         {pack[p].box} = RenameBox(saved.pack[p].box, req.box, req.dest)]_vars

\* After an edit every package is in a box that is listed, so that lsBox
\* shows where it is; but for a move into itself.
StaysListed ==
  [][Clean /\ ~(req.op = "/" /\ IntoItself) => Listed(saved')]_vars

\* A place removed, or moved to one that it does not lie in and that does not
\* lie in it, is empty and off the list: neither a row nor a package of its
\* range is left.
SourceEmptied ==
  [][Clean /\ (req.op = "-" \/ (req.op = "/" /\ Apart)) =>
       /\ \A x \in boxes : ~InPlace(x, req.box)
       /\ \A p \in DOMAIN pack : ~InPlace(pack[p].box, req.box)]_vars

\* Every request on boxes is answered: the walk over a table that grows under
\* the cursor comes to an end.
BoxAnswered == pc # "idle" ~> pc = "idle"
=============================================================================
