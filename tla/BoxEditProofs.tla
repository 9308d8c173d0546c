---------------------------- MODULE BoxEditProofs ----------------------------
(***************************************************************************)
(* Theorems about chBox, for any stock, any number of requests and of      *)
(* calls that throw, and a crash anywhere; and about the ids of boxes.     *)
(***************************************************************************)
EXTENDS BoxEdit, BoxWalk, OperatorProofs

\* Where renaming shifts by less than 64 bits (StockOperation.cpp:404), which
\* C++ defines.
ShallowPath == {b \in Path : BoxDepth(b) < 4}
Shallow == Sources \subseteq ShallowPath \cup {NoBox} /\ Targets \subseteq ShallowPath

----------------------------------------------------------------------------
(* The inductive invariant.                                                 *)

Row == [card : Nat, box : Path, qty : Qty]
PacksTyped(packs, cards) == \A p \in DOMAIN packs : packs[p] \in Row /\ packs[p].card \in cards

\* All boxes, those of cursors too, are paths.
Typed ==
  /\ pc \in {"idle", "row", "move", "erase", "clear", "drop", "commit"}
  /\ requests \in 0 .. MaxRequests /\ faults \in 0 .. MaxFaults
  /\ boxes \subseteq Path /\ rows \subseteq boxes
  /\ src \in Path \cup {NoBox} /\ dst \in Path \cup {NoBox}
  /\ here \subseteq DOMAIN pack
  /\ PacksTyped(pack, DOMAIN card)

\* So are those of the image a rollback returns to.
SavedTyped ==
  /\ saved.boxes \subseteq Path /\ saved.card = card
  /\ PacksTyped(saved.pack, DOMAIN card)

\* What the cursors have not come to yet is in the place of the request.
Within ==
  /\ pc = "idle" => req = NoReq /\ rows = {} /\ here = {} /\ saved.pack = pack
  /\ pc # "idle" => req \in BoxRequests
  /\ pc \in {"row", "move", "erase"} => req.op = "/"
  /\ pc = "move" => dst \in Path
  /\ pc \in {"move", "erase"} => src \notin rows
  /\ \A b \in rows : InPlace(b, req.box)
  /\ \A p \in here : InRange(pack[p].box, req.box)

EInv == Typed /\ SavedTyped /\ Within /\ OutsideKept

----------------------------------------------------------------------------
(* Requests and places.                                                     *)

LEMMA RequestsAre ==
  ASSUME Shallow, NEW r \in BoxRequests
  PROVE  /\ r.op \in {"+", "=", "-", "/"} /\ r # NoReq
         /\ r.box \in ShallowPath \cup {NoBox}
         /\ r.op = "/" => r.dest \in ShallowPath
         /\ r.op \in {"+", "="} => r.box \in Path
  <1>1. r.op \in {"+", "=", "-", "/"} /\ r.box \in Sources
    BY BoxEditAssumption DEF BoxRequests
  <1>2. r # NoReq
    BY <1>1 DEF NoReq
  <1> QED BY <1>1, <1>2 DEF BoxRequests, Shallow, ShallowPath

\* The range of chBox is that of the other handlers, but for box 0, in whose
\* range there is no path.
LEMMA PlaceIsRange ==
  ASSUME NEW b \in Path, NEW root \in Path \cup {NoBox}, InPlace(b, root)
  PROVE  root \in Path /\ InRange(b, root)
  <1>1. CASE root \in Path
    BY <1>1, LastOfPath DEF InPlace, InRange
  <1>2. CASE root = NoBox
    <2>1. LastBox(NoBox)[1] = W - 1
      BY HalfAssumption DEF LastBox, NoBox, BoxDepth
    <2>2. Signed(W - 1) = -1 /\ b[1] # W - 1 /\ Signed(b[1]) = b[1] /\ b[1] \in 1 .. Half - 1
      BY WordsOfPath, HalfAssumption DEF Signed, W
    <2>3. ~BoxLE(b, LastBox(NoBox))
      BY <2>1, <2>2 DEF BoxLE
    <2> QED BY <1>2, <2>3 DEF InPlace
  <1> QED BY <1>1, <1>2

\* What is renamed is a path again.
LEMMA RenamedIsPath ==
  ASSUME NEW b \in Path, NEW root \in ShallowPath \cup {NoBox}, InPlace(b, root),
         NEW dest \in ShallowPath, NEW d \in RenameBox(b, root, dest)
  PROVE  d \in Path
  <1>1. root \in Path
    BY PlaceIsRange DEF ShallowPath
  <1>2. root \in ShallowPath
    <2>1. NoBox \notin Path
      BY HalfAssumption DEF Path, NoBox
    <2> QED BY <1>1, <2>1
  <1> QED BY <1>2, RenameStaysInside DEF ShallowPath

----------------------------------------------------------------------------
(* The initial states, the clients' requests, and the end of a handler.     *)

LEMMA ElementsOfSeq ==
  ASSUME NEW S, NEW s \in Seq(S)
  PROVE  DOMAIN s = 1 .. Len(s) /\ Len(s) \in Nat /\ \A i \in DOMAIN s : s[i] \in S
  OBVIOUS

LEMMA InitTrue == Init => EInv
  <1> SUFFICES ASSUME Init PROVE EInv
    OBVIOUS
  <1>1. PICK layout \in Layouts :
          /\ pack = [p \in DOMAIN layout |->
                       [card |-> layout[p].card, box |-> layout[p].box, qty |-> p % QMod]]
          /\ card = [c \in {layout[p].card : p \in DOMAIN layout} |->
                       [name |-> Star, props |-> <<>>]]
          /\ boxes = {layout[p].box : p \in DOMAIN layout}
    BY DEF Init
  <1>2. /\ DOMAIN layout \subseteq Nat
        /\ \A p \in DOMAIN layout : layout[p].card \in Nat /\ layout[p].box \in Path
    <2>1. layout \in Seq([card : Nat \ {0}, box : Path])
      BY BoxEditAssumption
    <2>2. /\ DOMAIN layout = 1 .. Len(layout) /\ Len(layout) \in Nat
          /\ \A p \in DOMAIN layout : layout[p] \in [card : Nat \ {0}, box : Path]
      BY <2>1, ElementsOfSeq
    <2> QED BY <2>2
  <1>3. \A p \in DOMAIN layout : p % QMod \in Qty
    BY <1>2, TablesAssumption DEF Qty
  <1>4. PacksTyped(pack, DOMAIN card) /\ boxes \subseteq Path
    BY <1>1, <1>2, <1>3 DEF PacksTyped, Row
  <1>5. Typed
    BY <1>4, BoxEditAssumption DEF Init, Typed
  <1>6. SavedTyped
    BY <1>4 DEF Init, SavedTyped, Image
  <1>7. Within /\ OutsideKept
    BY DEF Init, Within, OutsideKept, Image
  <1> QED BY <1>5, <1>6, <1>7 DEF EInv

\* A request finds the tables as they were saved.
LEMMA OpenStep ==
  ASSUME Shallow, EInv, NEW r \in BoxRequests,
         Assign(r) \/ Add(r) \/ Remove(r) \/ Move(r)
  PROVE  EInv'
  <1>1. /\ pc = "idle" /\ req' = r /\ requests' = requests + 1 /\ requests < MaxRequests
        /\ UNCHANGED <<card, pack, saved, src, dst, faults>>
    BY DEF Assign, Add, Remove, Move, Open
  <1>2. /\ r.op \in {"+", "="} => r.box \in Path
        /\ r.op = "/" \/ pc' # "row"
        /\ pc' \in {"row", "clear", "commit"}
        /\ r.box \in Path \cup {NoBox}
    BY RequestsAre DEF Assign, Add, Remove, Move, ShallowPath
  <1>3. /\ boxes' \subseteq Path /\ rows' \subseteq boxes'
        /\ \A b \in rows' : InPlace(b, r.box)
    BY <1>2, RequestsAre, <1>1 DEF Assign, Add, Remove, Move, EInv, Typed, RowsOf, Within
  <1>4. here' \subseteq PackagesIn(r.box)
    BY <1>1 DEF Assign, Add, Remove, Move, EInv, Within
  <1>5. Typed'
    BY <1>1, <1>2, <1>3, <1>4, BoxEditAssumption
       DEF EInv, Typed, PacksTyped, PackagesIn
  <1>6. SavedTyped'
    BY <1>1 DEF EInv, SavedTyped, PacksTyped
  <1>7. Within'
    BY <1>1, <1>2, <1>3, <1>4 DEF Within, PackagesIn
  <1>8. OutsideKept'
    BY <1>1 DEF OutsideKept, EInv, Within
  <1> QED BY <1>5, <1>6, <1>7, <1>8 DEF EInv

LEMMA AnswerStep ==
  ASSUME EInv, Answer PROVE EInv'
  <1>1. /\ pc' = "idle" /\ req' = NoReq /\ rows' = {} /\ here' = {}
        /\ src' = NoBox /\ dst' = NoBox /\ saved' = Image
        /\ UNCHANGED <<card, pack, boxes, requests, faults>>
    BY DEF Answer, Commit, ResetCursors, tables
  <1>2. Typed' /\ SavedTyped'
    BY <1>1 DEF EInv, Typed, SavedTyped, PacksTyped, Image
  <1>3. Within' /\ OutsideKept'
    BY <1>1 DEF Within, OutsideKept, Image
  <1> QED BY <1>2, <1>3 DEF EInv

LEMMA AbortStep ==
  ASSUME EInv, Abort PROVE EInv'
  <1>1. /\ pc' = "idle" /\ req' = NoReq /\ rows' = {} /\ here' = {}
        /\ src' = NoBox /\ dst' = NoBox /\ UNCHANGED <<saved, requests>>
        /\ pack' = saved.pack /\ boxes' = saved.boxes /\ card' = saved.card
        /\ faults' \in 0 .. MaxFaults
    BY BoxEditAssumption DEF Abort, Restore, ResetCursors, Fault, EInv, Typed
  <1>2. Typed' /\ SavedTyped'
    BY <1>1 DEF EInv, Typed, SavedTyped, PacksTyped
  <1>3. Within' /\ OutsideKept'
    BY <1>1 DEF Within, OutsideKept
  <1> QED BY <1>2, <1>3 DEF EInv

----------------------------------------------------------------------------
(* The calls of "/" and "-".                                                *)

LEMMA NextRowStep ==
  ASSUME Shallow, EInv, NextRow PROVE EInv'
  <1>1. PICK b \in rows : \E d \in RenameBox(b, req.box, req.dest) :
          /\ src' = b /\ dst' = d /\ Visit(b, d)
          /\ here' = {p \in DOMAIN pack : pack[p].box = b}
    BY DEF NextRow
  <1>2. PICK d \in RenameBox(b, req.box, req.dest) :
          /\ src' = b /\ dst' = d /\ Visit(b, d)
          /\ here' = {p \in DOMAIN pack : pack[p].box = b}
    BY <1>1
  <1>3. /\ pc = "row" /\ pc' = "move"
        /\ UNCHANGED <<card, pack, saved, req, requests, faults>>
    BY DEF NextRow
  <1>4. /\ req \in BoxRequests /\ req.op = "/" /\ b \in Path /\ InPlace(b, req.box)
        /\ req.box \in ShallowPath \cup {NoBox} /\ req.dest \in ShallowPath
    BY <1>3, RequestsAre DEF EInv, Typed, Within
  <1>5. d \in Path
    BY <1>2, <1>4, RenamedIsPath
  <1>6. req.box \in Path /\ InRange(b, req.box)
    BY <1>4, PlaceIsRange DEF ShallowPath
  <1>7. /\ boxes' \subseteq Path /\ rows' \subseteq boxes' /\ b \notin rows'
        /\ \A x \in rows' : InPlace(x, req.box)
    BY <1>2, <1>5 DEF Visit, EInv, Typed, Within
  <1>8. Typed' /\ SavedTyped'
    BY <1>2, <1>3, <1>4, <1>5, <1>7 DEF EInv, Typed, SavedTyped, PacksTyped
  <1>9. Within'
    BY <1>2, <1>3, <1>4, <1>5, <1>6, <1>7 DEF Within
  <1>10. OutsideKept'
    BY <1>3 DEF EInv, OutsideKept
  <1> QED BY <1>8, <1>9, <1>10 DEF EInv

LEMMA MovePackageStep ==
  ASSUME EInv, MovePackage PROVE EInv'
  <1>1. PICK p \in here : pack' = [pack EXCEPT ![p].box = dst] /\ here' = here \ {p}
    BY DEF MovePackage
  <1>2. /\ pc = "move"
        /\ UNCHANGED <<card, boxes, saved, pc, req, rows, src, dst, requests, faults>>
    BY DEF MovePackage
  <1>3. /\ p \in DOMAIN pack /\ pack[p] \in Row /\ dst \in Path
        /\ InRange(pack[p].box, req.box)
    BY <1>2 DEF EInv, Typed, PacksTyped, Within
  <1>4. /\ DOMAIN pack' = DOMAIN pack
        /\ pack'[p] \in Row /\ pack'[p].card = pack[p].card
        /\ \A x \in DOMAIN pack \ {p} : pack'[x] = pack[x]
    BY <1>1, <1>3 DEF Row
  <1>5. Typed' /\ SavedTyped'
    BY <1>1, <1>2, <1>3, <1>4 DEF EInv, Typed, SavedTyped, PacksTyped
  <1>6. Within'
    BY <1>1, <1>2, <1>4 DEF EInv, Typed, Within
  <1>7. OutsideKept'
    BY <1>2, <1>3, <1>4 DEF EInv, OutsideKept
  <1> QED BY <1>5, <1>6, <1>7 DEF EInv

LEMMA ClearPackageStep ==
  ASSUME EInv, ClearPackage PROVE EInv'
  <1>1. PICK p \in here : /\ pack' = [x \in DOMAIN pack \ {p} |-> pack[x]]
                          /\ here' = here \ {p}
    BY DEF ClearPackage
  <1>2. /\ pc = "clear"
        /\ UNCHANGED <<card, boxes, saved, pc, req, rows, src, dst, requests, faults>>
    BY DEF ClearPackage
  <1>3. p \in DOMAIN pack /\ InRange(pack[p].box, req.box)
    BY DEF EInv, Typed, Within
  <1>4. Typed' /\ SavedTyped'
    BY <1>1, <1>2 DEF EInv, Typed, SavedTyped, PacksTyped
  <1>5. Within'
    BY <1>1, <1>2 DEF EInv, Typed, Within
  <1>6. OutsideKept'
    BY <1>1, <1>2, <1>3 DEF EInv, OutsideKept
  <1> QED BY <1>4, <1>5, <1>6 DEF EInv

\* Calls on boxes and calls that throw leave the packages alone, and the
\* cursors with less to come.
LEMMA RowsOnly ==
  ASSUME EInv, pc # "idle", pc' \in {"row", "erase", "drop", "commit"},
         pc' = "row" \/ pc' = "erase" => pc \in {"row", "move", "erase"},
         pc' = "erase" => pc \in {"move", "erase"} /\ src' = src,
         boxes' \subseteq boxes, rows' \subseteq rows, rows' \subseteq boxes', here' \subseteq here,
         src' \in {src, NoBox}, dst' \in {dst, NoBox}, faults' \in 0 .. MaxFaults,
         UNCHANGED <<card, pack, saved, req, requests>>
  PROVE  EInv'
  <1>1. Typed' /\ SavedTyped'
    BY DEF EInv, Typed, SavedTyped, PacksTyped
  <1>2. Within' /\ OutsideKept'
    BY DEF EInv, Within, OutsideKept
  <1> QED BY <1>1, <1>2 DEF EInv

LEMMA DropRowStep ==
  ASSUME EInv, DropRow PROVE EInv'
  <1>1. /\ pc # "idle" /\ pc' = "drop" /\ here' = here /\ src' = src /\ dst' = dst
        /\ boxes' \subseteq boxes /\ rows' \subseteq rows /\ rows' \subseteq boxes'
        /\ UNCHANGED <<card, pack, saved, req, requests, faults>>
    BY DEF DropRow, EInv, Typed
  <1> QED BY <1>1, RowsOnly DEF EInv, Typed

LEMMA EraseRowStep ==
  ASSUME EInv, EraseRow PROVE EInv'
  <1>1. /\ pc \in {"move", "erase"} /\ pc' = "row" /\ boxes' = boxes \ {src}
        /\ UNCHANGED <<rows, src, dst, here, card, pack, saved, req, requests, faults>>
    BY DEF EraseRow, cursors
  <1>2. rows' \subseteq boxes'
    BY <1>1 DEF EInv, Typed, Within
  <1> QED BY <1>1, <1>2, RowsOnly DEF EInv, Typed

LEMMA FaultSteps ==
  ASSUME EInv, MoveFault \/ ClearFault \/ BoxFault PROVE EInv'
  <1>1. /\ pc # "idle" /\ pc' \in {"erase", "drop", "commit"}
        /\ pc' = "erase" => pc = "move" /\ src' = src
        /\ boxes' = boxes /\ rows' \subseteq rows /\ here' = {}
        /\ src' \in {src, NoBox} /\ dst' \in {dst, NoBox}
        /\ UNCHANGED <<card, pack, saved, req, requests>>
    BY DEF MoveFault, ClearFault, BoxFault, ResetCursors, tables
  <1>2. faults' \in 0 .. MaxFaults
    BY BoxEditAssumption DEF MoveFault, ClearFault, BoxFault, Fault, EInv, Typed
  <1> QED BY <1>1, <1>2, RowsOnly DEF EInv, Typed

LEMMA StutterTrue == EInv /\ UNCHANGED vars => EInv'
  <1> SUFFICES ASSUME EInv, UNCHANGED vars PROVE EInv'
    OBVIOUS
  <1> USE DEF EInv, vars, tables, cursors
  <1>1. Typed' /\ SavedTyped'
    BY DEF Typed, SavedTyped, PacksTyped
  <1>2. Within' /\ OutsideKept'
    BY DEF Within, OutsideKept
  <1> QED BY <1>1, <1>2

LEMMA StepTrue == Shallow /\ EInv /\ [Next]_vars => EInv'
  <1> SUFFICES ASSUME Shallow, EInv, [Next]_vars PROVE EInv'
    OBVIOUS
  <1>1. ASSUME NEW r \in BoxRequests, Assign(r) \/ Add(r) \/ Remove(r) \/ Move(r)
        PROVE  EInv'
    BY <1>1, OpenStep
  <1>2. CASE Step
    BY <1>2, NextRowStep, MovePackageStep, EraseRowStep, ClearPackageStep, DropRowStep,
       AnswerStep DEF Step
  <1>3. CASE Failure
    BY <1>3, FaultSteps, AbortStep DEF Failure
  <1> QED BY <1>1, <1>2, <1>3, StutterTrue DEF Next

----------------------------------------------------------------------------
(* The theorem.                                                             *)

\* For any stock, whatever chBox moves or removes, at whatever call it fails
\* and wherever the process dies: rows, cursors and packages stay what they
\* should be, and a package outside the place a request names keeps its card,
\* its box and its quantity (chBox, changePackageBox, removePackagesFromBox).
THEOREM OutsideIsKept == Shallow => (Spec => []EditInvariant)
  <1> SUFFICES ASSUME Shallow PROVE Spec => []EditInvariant
    OBVIOUS
  <1>1. EInv => EditInvariant
    <2> SUFFICES ASSUME EInv PROVE EditInvariant
      OBVIOUS
    <2>1. Path \subseteq Box /\ NoBox \in Box
      BY HalfAssumption DEF Path, Box, NoBox, Word, W
    <2>2. \A p \in DOMAIN pack : PackOK(p)
      BY <2>1 DEF EInv, Typed, PacksTyped, Row, PackOK
    <2>3. req \in BoxRequests \cup {NoReq}
      BY DEF EInv, Typed, Within
    <2>4. TypeOK
      BY <2>1, <2>2, <2>3 DEF EInv, Typed, TypeOK
    <2> QED BY <2>4 DEF EInv, EditInvariant
  <1>2. EInv /\ [Next]_vars => EInv'
    BY StepTrue
  <1> QED BY <1>1, <1>2, InitTrue, PTL DEF Spec

----------------------------------------------------------------------------
(* What a handler has done so far, when no call has thrown and every       *)
(* package was listed.                                                      *)

Fine == faults = 0 /\ Listed(saved) /\ pc # "idle"
InSource(p) == InRange(saved.pack[p].box, req.box)

\* The row the cursor is at, and the packages that were in its box.
AtRow ==
  pc = "move" => /\ src \in Path /\ InPlace(src, req.box) /\ dst \in boxes
                 /\ dst \in RenameBox(src, req.box, req.dest)
                 /\ \A p \in here : pack[p].box = src

\* Where the handler can be.
Places ==
  /\ pc = "idle" => boxes = saved.boxes
  /\ Fine /\ req.op = "/" => pc \in {"row", "move"}
  /\ pc \in {"clear", "drop"} => req.op = "-"
  /\ pc = "commit" => rows = {}
  /\ pc # "clear" /\ pc # "move" => here = {}

Waiting(p) == pack[p].box \in rows \/ (pc = "move" /\ p \in here)

\* A package of the place waits for the cursor, or is in the target.
Reached ==
  Fine /\ req.op = "/" /\ req.box # NoBox =>
    \A p \in DOMAIN saved.pack : InSource(p) =>
      /\ p \in DOMAIN pack /\ pack[p].qty = saved.pack[p].qty
      /\ Waiting(p) \/ Inside(pack[p].box, req.dest)

\* It waits where it was, or is where renameBox takes it.
Once ==
  Fine /\ req.op = "/" /\ Apart /\ req.box # NoBox =>
    \A p \in DOMAIN saved.pack : InSource(p) =>
      /\ p \in DOMAIN pack
      /\ \/ Waiting(p) /\ pack[p].box = saved.pack[p].box
         \/ {pack[p].box} = RenameBox(saved.pack[p].box, req.box, req.dest)

\* No package is off the list, nor left in a box that is about to go off it.
OnList ==
  Fine /\ ~(req.op = "/" /\ IntoItself) =>
    /\ \A p \in DOMAIN pack : pack[p].box \in boxes
    /\ pc = "move" => \A p \in DOMAIN pack : pack[p].box = src => p \in here
    /\ req.op = "-" => \A p \in DOMAIN pack : InPlace(pack[p].box, req.box) => p \in here

\* The rows left in the place are those the cursor has not come to.
Ahead ==
  Fine /\ (req.op = "-" \/ (req.op = "/" /\ Apart)) =>
    \A x \in boxes : InPlace(x, req.box) => x \in rows \/ (pc = "move" /\ x = src)

WInv == AtRow /\ Places /\ Reached /\ Once /\ OnList /\ Ahead

LEMMA WalkInit == Init => WInv
  <1> SUFFICES ASSUME Init PROVE WInv
    OBVIOUS
  <1>1. pc = "idle" /\ here = {} /\ boxes = saved.boxes
    BY DEF Init, Image
  <1> QED BY <1>1 DEF WInv, AtRow, Places, Reached, Once, OnList, Ahead, Fine

\* Nothing is asked of a handler that has ended, or one of whose calls threw.
LEMMA WalkOver ==
  ASSUME pc' = "idle" \/ faults' # 0, pc' = "idle" => boxes' = saved'.boxes,
         pc' # "move", pc' = "commit" => rows' = {}, pc' # "clear" => here' = {},
         pc' \in {"clear", "drop"} => req'.op = "-"
  PROVE  WInv'
  BY DEF WInv, AtRow, Places, Reached, Once, OnList, Ahead, Fine

LEMMA SourcesArePaths ==
  ASSUME Shallow, EInv, pc # "idle", req.op = "/", req.box # NoBox
  PROVE  /\ req.box \in Path /\ req.dest \in Path
         /\ BoxDepth(req.box) < 4 /\ BoxDepth(req.dest) < 4
         /\ \A x \in Path : InPlace(x, req.box) <=> InRange(x, req.box)
         /\ \A x \in Path : InPlace(x, req.box) <=> Inside(x, req.box)
  <1>1. req.box \in ShallowPath /\ req.dest \in ShallowPath
    BY RequestsAre DEF EInv, Within
  <1>2. \A x \in Path : InPlace(x, req.box) <=> InRange(x, req.box)
    BY <1>1, LastOfPath DEF InPlace, InRange, ShallowPath
  <1> QED BY <1>1, <1>2, RangeIsNestingForPaths DEF ShallowPath

\* What a move to a place apart makes of a box is not in the range it came from.
LEMMA RenamedLeaves ==
  ASSUME NEW b \in Path, NEW root \in Path, NEW dest \in Path,
         BoxDepth(root) < 4, BoxDepth(dest) < 4,
         ~Inside(dest, root), ~Inside(root, dest),
         NEW d \in RenameBox(b, root, dest)
  PROVE  ~Inside(d, root)
  BY RenameStaysInside, PlacesNest

LEMMA WalkOpens ==
  ASSUME Shallow, EInv, EInv', WInv, NEW r \in BoxRequests,
         Assign(r) \/ Add(r) \/ Remove(r) \/ Move(r)
  PROVE  WInv'
  <1>1. /\ pc = "idle" /\ req' = r
        /\ UNCHANGED <<card, pack, saved, src, dst, faults>>
        /\ pc' \in {"row", "clear", "commit"}
        /\ boxes \subseteq boxes'
    BY DEF Assign, Add, Remove, Move, Open
  <1>2. boxes = saved.boxes /\ pack = saved.pack /\ rows = {} /\ here = {}
    BY <1>1 DEF WInv, Places, EInv, Within
  <1>3. CASE Assign(r) \/ Add(r)
    <2>1. r.op \in {"+", "="} /\ pc' = "commit" /\ UNCHANGED <<rows, here>>
      BY <1>3 DEF Assign, Add
    <2> QED BY <1>1, <1>2, <2>1
         DEF WInv, AtRow, Places, Reached, Once, OnList, Ahead, Fine, Listed
  <1>4. CASE Remove(r)
    <2>1. /\ r.op = "-" /\ rows' = RowsOf(r.box) /\ boxes' = boxes
          /\ IF rows' = {} THEN pc' = "commit" /\ here' = {}
                           ELSE pc' = "clear" /\ here' = PackagesIn(r.box)
      BY <1>4 DEF Remove
    <2>2. \A x \in boxes : InPlace(x, r.box) => x \in rows'
      BY <2>1 DEF RowsOf
    <2>3. ASSUME Listed(saved), NEW p \in DOMAIN pack, InPlace(pack[p].box, r.box)
          PROVE  p \in here'
      <3>1. pack[p].box \in boxes
        BY <1>2, <2>3 DEF Listed
      <3>2. pc' = "clear" /\ here' = PackagesIn(r.box)
        BY <2>1, <2>2, <2>3, <3>1
      <3>3. r.box \in Path \cup {NoBox} /\ pack[p].box \in Path
        BY RequestsAre DEF ShallowPath, EInv, Typed, PacksTyped, Row
      <3> QED BY <2>3, <3>2, <3>3, PlaceIsRange DEF PackagesIn
    <2>4. OnList'
      BY <1>1, <1>2, <2>1, <2>3 DEF OnList, Fine, Listed
    <2> QED BY <1>1, <2>1, <2>2, <2>4 DEF WInv, AtRow, Places, Reached, Once, Ahead, Fine
  <1>5. CASE Move(r)
    <2>1. /\ r.op = "/" /\ rows' = RowsOf(r.box) /\ pc' = "row"
          /\ UNCHANGED <<boxes, here>>
      BY <1>5 DEF Move
    <2>2. \A x \in boxes : InPlace(x, r.box) => x \in rows'
      BY <2>1 DEF RowsOf
    <2>3. ASSUME Listed(saved), r.box # NoBox, NEW p \in DOMAIN pack,
                 InRange(pack[p].box, r.box)
          PROVE  pack[p].box \in rows'
      <3>1. pack[p].box \in boxes
        BY <1>2, <2>3 DEF Listed
      <3>2. r.box \in Path /\ pack[p].box \in Path
        BY <2>3, RequestsAre DEF ShallowPath, EInv, Typed, PacksTyped, Row
      <3>3. InPlace(pack[p].box, r.box)
        BY <2>3, <3>2, LastOfPath DEF InPlace, InRange
      <3> QED BY <2>2, <3>1, <3>3
    <2>4. Reached' /\ Once'
      BY <1>1, <1>2, <2>1, <2>3 DEF Reached, Once, Fine, InSource, Waiting
    <2> QED BY <1>1, <1>2, <2>1, <2>2, <2>4 DEF WInv, AtRow, Places, OnList, Ahead, Fine, Listed
  <1> QED BY <1>3, <1>4, <1>5

LEMMA WalkNextRow ==
  ASSUME Shallow, EInv, WInv, NextRow
  PROVE  WInv'
  <1>1. PICK b \in rows : \E d \in RenameBox(b, req.box, req.dest) :
          /\ src' = b /\ dst' = d /\ Visit(b, d)
          /\ here' = {p \in DOMAIN pack : pack[p].box = b}
    BY DEF NextRow
  <1>2. PICK d \in RenameBox(b, req.box, req.dest) :
          /\ src' = b /\ dst' = d /\ Visit(b, d)
          /\ here' = {p \in DOMAIN pack : pack[p].box = b}
    BY <1>1
  <1>3. /\ pc = "row" /\ pc' = "move" /\ UNCHANGED <<card, pack, saved, req, faults>>
        /\ boxes' = boxes \cup {d} /\ rows \ {b} \subseteq rows'
    BY <1>2 DEF NextRow, Visit
  <1>4. /\ req.op = "/" /\ b \in Path /\ InPlace(b, req.box) /\ req.box # NoBox
    <2>1. req.op = "/" /\ b \in Path /\ InPlace(b, req.box) /\ req \in BoxRequests
      BY <1>3 DEF EInv, Typed, Within
    <2>2. req.box \in Path
      BY <2>1, RequestsAre, PlaceIsRange DEF ShallowPath
    <2>3. NoBox \notin Path
      BY HalfAssumption DEF Path, NoBox
    <2> QED BY <2>1, <2>2, <2>3
  <1>5. AtRow'
    BY <1>2, <1>3, <1>4 DEF AtRow
  <1>6. Places'
    BY <1>3, <1>4 DEF Places, Fine
  <1>7. \A p \in DOMAIN pack : Waiting(p) => Waiting(p)'
    <2>1. here = {}
      BY <1>3 DEF WInv, Places
    <2> QED BY <1>2, <1>3, <2>1 DEF Waiting
  <1>8. Reached' /\ Once'
    BY <1>3, <1>4, <1>7 DEF WInv, Reached, Once, Fine, InSource, Apart, IntoItself
  <1>9. OnList'
    BY <1>2, <1>3, <1>4 DEF WInv, OnList, Fine, IntoItself
  <1>10. Ahead'
    <2>1. CASE Apart
      <3>1. ~InPlace(d, req.box)
        <4>1. /\ req.box \in Path /\ req.dest \in Path
              /\ BoxDepth(req.box) < 4 /\ BoxDepth(req.dest) < 4
              /\ \A x \in Path : InPlace(x, req.box) <=> Inside(x, req.box)
          BY <1>3, <1>4, SourcesArePaths
        <4>2. d \in Path /\ ~Inside(d, req.box)
          BY <1>4, <2>1, <4>1, RenamedLeaves, RenameStaysInside DEF Apart, IntoItself
        <4> QED BY <4>1, <4>2
      <3> QED BY <1>2, <1>3, <1>4, <3>1 DEF WInv, Ahead, Fine, Apart, IntoItself
    <2>2. CASE ~Apart
      BY <1>3, <1>4, <2>2 DEF Ahead, Apart, IntoItself
    <2> QED BY <2>1, <2>2
  <1> QED BY <1>5, <1>6, <1>8, <1>9, <1>10 DEF WInv

LEMMA WalkMovePackage ==
  ASSUME Shallow, EInv, WInv, MovePackage
  PROVE  WInv'
  <1>1. PICK p \in here : pack' = [pack EXCEPT ![p].box = dst] /\ here' = here \ {p}
    BY DEF MovePackage
  <1>2. /\ pc = "move" /\ req.op = "/"
        /\ UNCHANGED <<card, boxes, saved, pc, req, rows, src, dst, faults>>
    BY DEF MovePackage, EInv, Within
  <1>3. /\ p \in DOMAIN pack /\ pack[p] \in Row /\ pack[p].box = src
        /\ src \in Path /\ InPlace(src, req.box) /\ dst \in boxes
        /\ dst \in RenameBox(src, req.box, req.dest)
        /\ \A x \in here : pack[x].box = src
    BY <1>1, <1>2 DEF EInv, Typed, PacksTyped, WInv, AtRow
  <1>4. /\ DOMAIN pack' = DOMAIN pack /\ pack'[p].box = dst /\ pack'[p].qty = pack[p].qty
        /\ \A x \in DOMAIN pack \ {p} : pack'[x] = pack[x]
    BY <1>1, <1>3 DEF Row
  <1>5. /\ req.box # NoBox /\ req.box \in Path /\ req.dest \in Path
        /\ BoxDepth(req.box) < 4 /\ BoxDepth(req.dest) < 4
        /\ \A x \in Path : InPlace(x, req.box) <=> Inside(x, req.box)
    <2>1. req.box \in Path /\ req \in BoxRequests
      BY <1>2, <1>3, RequestsAre, PlaceIsRange DEF EInv, Within, ShallowPath
    <2>2. NoBox \notin Path
      BY HalfAssumption DEF Path, NoBox
    <2> QED BY <1>2, <2>1, <2>2, SourcesArePaths
  <1>6. Inside(dst, req.dest) /\ {dst} = RenameBox(src, req.box, req.dest)
        /\ (~Inside(req.dest, req.box) => dst # src)
    <2>1. \E r : RenameBox(src, req.box, req.dest) = {r}
      BY <1>3, <1>5, RenamedIsOne
    <2>2. Inside(dst, req.dest)
      BY <1>3, <1>5, RenameStaysInside
    <2>3. ~Inside(req.dest, req.box) => dst # src
      BY <1>3, <1>5, RenamedDiffers
    <2> QED BY <1>3, <2>1, <2>2, <2>3
  <1>7. AtRow' /\ Places'
    BY <1>1, <1>2, <1>3, <1>4 DEF WInv, AtRow, Places, Fine
  <1>8. Reached'
    BY <1>1, <1>2, <1>4, <1>6 DEF WInv, Reached, Fine, InSource, Waiting
  <1>9. Once'
    <2> SUFFICES ASSUME Fine, Apart, NEW x \in DOMAIN saved.pack, InSource(x)
                 PROVE  /\ x \in DOMAIN pack
                        /\ \/ Waiting(x)' /\ pack'[x].box = saved.pack[x].box
                           \/ {pack'[x].box} = RenameBox(saved.pack[x].box, req.box, req.dest)
      BY <1>2, <1>4 DEF Once, Fine, InSource, Apart, IntoItself
    <2>1. /\ x \in DOMAIN pack
          /\ \/ Waiting(x) /\ pack[x].box = saved.pack[x].box
             \/ {pack[x].box} = RenameBox(saved.pack[x].box, req.box, req.dest)
      BY <1>2, <1>5 DEF WInv, Once
    <2>2. CASE x # p
      BY <1>1, <1>2, <1>4, <2>1, <2>2 DEF Waiting
    <2>3. CASE x = p
      <3>1. CASE pack[p].box = saved.pack[p].box
        BY <1>3, <1>4, <1>6, <2>1, <2>3, <3>1
      <3>2. CASE {pack[p].box} = RenameBox(saved.pack[p].box, req.box, req.dest)
        <4>1. saved.pack[p].box \in Path
          BY <2>3 DEF EInv, SavedTyped, PacksTyped, Row
        <4>2. ~Inside(src, req.box)
          BY <1>3, <1>5, <3>2, <4>1, RenamedLeaves DEF Apart, IntoItself
        <4> QED BY <1>3, <1>5, <4>2
      <3> QED BY <2>1, <2>3, <3>1, <3>2
    <2> QED BY <2>2, <2>3
  <1>10. OnList'
    BY <1>1, <1>2, <1>3, <1>4, <1>6 DEF WInv, OnList, Fine, IntoItself
  <1>11. Ahead'
    BY <1>2 DEF WInv, Ahead, Fine, Apart, IntoItself
  <1> QED BY <1>7, <1>8, <1>9, <1>10, <1>11 DEF WInv

LEMMA WalkEraseRow ==
  ASSUME EInv, WInv, EraseRow
  PROVE  WInv'
  <1>1. /\ pc \in {"move", "erase"} /\ pc' = "row" /\ boxes' = boxes \ {src}
        /\ pc = "move" => here = {}
        /\ UNCHANGED <<rows, src, dst, here, card, pack, saved, req, faults>>
    BY DEF EraseRow, cursors
  <1>2. req.op = "/"
    BY <1>1 DEF EInv, Within
  <1>3. AtRow' /\ Places'
    BY <1>1, <1>2 DEF WInv, AtRow, Places, Fine
  <1>4. ASSUME Fine PROVE pc = "move" /\ here = {}
    BY <1>1, <1>2, <1>4 DEF WInv, Places
  <1>5. Reached' /\ Once'
    BY <1>1, <1>2, <1>4 DEF WInv, Reached, Once, Fine, InSource, Waiting, Apart, IntoItself
  <1>6. OnList'
    BY <1>1, <1>2, <1>4 DEF WInv, OnList, Fine, IntoItself
  <1>7. Ahead'
    BY <1>1, <1>2, <1>4 DEF WInv, Ahead, Fine, Apart, IntoItself
  <1> QED BY <1>3, <1>5, <1>6, <1>7 DEF WInv

LEMMA WalkClears ==
  ASSUME EInv, WInv, ClearPackage \/ DropRow
  PROVE  WInv'
  <1>1. /\ pc \in {"clear", "drop"} /\ pc' \in {"clear", "drop"}
        /\ UNCHANGED <<card, saved, req, src, dst, faults>>
        /\ pc' = "drop" => here' = {}
    BY DEF ClearPackage, DropRow, WInv, Places
  <1>2. req.op = "-"
    BY <1>1 DEF WInv, Places
  <1>3. OnList' /\ Ahead'
    <2>1. CASE ClearPackage
      <3>1. PICK p \in here : /\ pack' = [x \in DOMAIN pack \ {p} |-> pack[x]]
                              /\ here' = here \ {p}
        BY <2>1 DEF ClearPackage
      <3>2. UNCHANGED <<boxes, rows>>
        BY <2>1 DEF ClearPackage
      <3> QED BY <1>1, <1>2, <3>1, <3>2 DEF WInv, OnList, Ahead, Fine
    <2>2. CASE DropRow
      <3>1. PICK b \in rows : boxes' = boxes \ {b} /\ rows' = rows \ {b}
        BY <2>2 DEF DropRow
      <3>2. UNCHANGED <<pack, here>> /\ here = {}
        BY <2>2 DEF DropRow, WInv, Places
      <3>3. InPlace(b, req.box)
        BY DEF EInv, Within
      <3> QED BY <1>1, <1>2, <3>1, <3>2, <3>3 DEF WInv, OnList, Ahead, Fine
    <2> QED BY <2>1, <2>2
  <1> QED BY <1>1, <1>2, <1>3 DEF WInv, AtRow, Places, Reached, Once, Fine

LEMMA WalkStep ==
  ASSUME Shallow, EInv, EInv', WInv, [Next]_vars
  PROVE  WInv'
  <1>1. CASE \E r \in BoxRequests : Assign(r) \/ Add(r) \/ Remove(r) \/ Move(r)
    BY <1>1, WalkOpens
  <1>2. CASE Answer \/ Abort
    BY <1>2, WalkOver DEF Answer, Abort, Commit, Restore, ResetCursors, Image, tables
  <1>3. CASE MoveFault \/ ClearFault \/ BoxFault
    <2>1. faults' # 0
      <3>1. faults \in Nat
        BY DEF EInv, Typed
      <3> QED BY <1>3, <3>1 DEF MoveFault, ClearFault, BoxFault, Fault
    <2>2. pc' \in {"erase", "drop", "commit"} /\ here' = {}
      BY <1>3 DEF MoveFault, ClearFault, BoxFault, ResetCursors
    <2>3. pc' = "commit" => rows' = {}
      BY <1>3 DEF MoveFault, ClearFault, BoxFault, ResetCursors
    <2>4. pc' = "drop" => req'.op = "-"
      BY <1>3 DEF MoveFault, ClearFault, BoxFault, WInv, Places
    <2> QED BY <2>1, <2>2, <2>3, <2>4, WalkOver
  <1>4. CASE Step
    BY <1>2, <1>4, WalkNextRow, WalkMovePackage, WalkEraseRow, WalkClears DEF Step
  <1>5. CASE UNCHANGED vars
    BY <1>5 DEF WInv, AtRow, Places, Reached, Once, OnList, Ahead, Fine, InSource, Waiting,
       Apart, IntoItself, vars, tables, cursors
  <1> QED BY <1>1, <1>2, <1>3, <1>4, <1>5 DEF Next, Failure

LEMMA WalkInvariance ==
  ASSUME Shallow
  PROVE  Spec => [](EInv /\ WInv)
  <1>1. EInv /\ WInv /\ [Next]_vars => EInv' /\ WInv'
    BY StepTrue, WalkStep
  <1> QED BY <1>1, InitTrue, WalkInit, PTL DEF Spec

\* At the end no row is left to visit.
LEMMA AtTheEnd ==
  ASSUME EInv, WInv, Clean
  PROVE  Fine /\ rows = {} /\ pc # "move" /\ saved' = Image
  <1>1. Done /\ faults = 0 /\ Listed(saved) /\ saved' = Image
    BY DEF Clean, Answer, Commit
  <1> QED BY <1>1 DEF Done, Fine, WInv, Places

\* A move leaves no package behind: all that was in the place is in the target,
\* with its quantity, in whatever order the cursor meets the rows, also those
\* the handler has just added, and for places of any size.
THEOREM AllEndInDest == Shallow => (Spec => EndsInDest)
  <1> SUFFICES ASSUME Shallow PROVE Spec => EndsInDest
    OBVIOUS
  <1> DEFINE Moved ==
        Clean /\ req.op = "/" /\ req.box # NoBox =>
          \A p \in DOMAIN saved.pack : InRange(saved.pack[p].box, req.box) =>
            /\ p \in DOMAIN pack /\ pack[p].qty = saved.pack[p].qty
            /\ Inside(pack[p].box, req.dest)
  <1>1. EInv /\ WInv => Moved
    BY AtTheEnd DEF WInv, Reached, InSource, Waiting
  <1>2. EndsInDest <=> [][Moved]_vars
    BY DEF EndsInDest
  <1> HIDE DEF Moved
  <1> QED BY <1>1, <1>2, WalkInvariance, PTL

\* A move between places neither of which lies in the other takes each package
\* to where renameBox takes its box, and does so once.
THEOREM EachIsRenamedOnce == Shallow => (Spec => RenamedOnce)
  <1> SUFFICES ASSUME Shallow PROVE Spec => RenamedOnce
    OBVIOUS
  <1> DEFINE Moved ==
        Clean /\ req.op = "/" /\ Apart /\ req.box # NoBox =>
          \A p \in DOMAIN saved.pack : InRange(saved.pack[p].box, req.box) =>
            p \in DOMAIN pack /\
            {pack[p].box} = RenameBox(saved.pack[p].box, req.box, req.dest)
  <1>1. EInv /\ WInv => Moved
    BY AtTheEnd DEF WInv, Once, InSource, Waiting
  <1>2. RenamedOnce <=> [][Moved]_vars
    BY DEF RenamedOnce
  <1> HIDE DEF Moved
  <1> QED BY <1>1, <1>2, WalkInvariance, PTL

\* After an edit, but for a move into itself, every package is in a box that is
\* listed, when it was so before.
THEOREM AllStayListed == Shallow => (Spec => StaysListed)
  <1> SUFFICES ASSUME Shallow PROVE Spec => StaysListed
    OBVIOUS
  <1> DEFINE Shown == Clean /\ ~(req.op = "/" /\ IntoItself) => Listed(saved')
  <1>1. EInv /\ WInv => Shown
    BY AtTheEnd DEF WInv, OnList, Listed, Image
  <1>2. StaysListed <=> [][Shown]_vars
    BY DEF StaysListed
  <1> HIDE DEF Shown
  <1> QED BY <1>1, <1>2, WalkInvariance, PTL

\* A place removed, or moved to a place apart from it, is left with neither a row
\* nor a package.
THEOREM SourceIsEmptied == Shallow => (Spec => SourceEmptied)
  <1> SUFFICES ASSUME Shallow PROVE Spec => SourceEmptied
    OBVIOUS
  <1> DEFINE Gone ==
        Clean /\ (req.op = "-" \/ (req.op = "/" /\ Apart)) =>
          /\ \A x \in boxes : ~InPlace(x, req.box)
          /\ \A p \in DOMAIN pack : ~InPlace(pack[p].box, req.box)
  <1>1. EInv /\ WInv => Gone
    BY AtTheEnd DEF WInv, Ahead, OnList, Apart
  <1>2. SourceEmptied <=> [][Gone]_vars
    BY DEF SourceEmptied
  <1> HIDE DEF Gone
  <1> QED BY <1>1, <1>2, WalkInvariance, PTL
----------------------------------------------------------------------------
(* The ids themselves, as BoxWalk builds them: two boxes, in which others   *)
(* are put and which are renamed, for words of any width and any numbers.   *)

LEMMA WordsAre == Words \subseteq Word \ {0}
  BY WordsAssumption, HalfAssumption DEF Word, W

\* A box number appended to a path (boxAppendBox) makes a path again.
LEMMA AppendedIsPath ==
  ASSUME NEW b \in UsedPaths, NEW w \in Words
  PROVE  BoxAppendBox(b, w) \in UsedPaths
  <1> DEFINE d == BoxDepth(b)
             r == [b EXCEPT ![d + 1] = w]
  <1>1. b \in Path /\ \A i \in 1 .. 4 : b[i] \in Words \cup {0}
    BY DEF UsedPaths
  <1>2. w \in Word /\ w # 0 /\ w % W = w
    BY WordsAre, HalfAssumption DEF Word, W
  <1>3. d \in 1 .. 4 /\ \A i \in 1 .. 4 : i <= d <=> b[i] # 0
    BY <1>1, DepthOfPath
  <1> HIDE DEF d
  <1>4. CASE d = 4
    BY <1>4 DEF BoxAppendBox, d
  <1>5. CASE d # 4
    <2>1. BoxAppendBox(b, w) = r
      BY <1>2, <1>5 DEF BoxAppendBox, d
    <2>2. b \in [1 .. 4 -> Word] /\ d + 1 \in 2 .. 4
      BY <1>1, <1>3, <1>5 DEF Path, Box
    <2>3. /\ DOMAIN r = 1 .. 4 /\ r \in [1 .. 4 -> Word]
          /\ \A i \in 1 .. 4 : r[i] = IF i = d + 1 THEN w ELSE b[i]
      BY <1>2, <2>2
    <2> HIDE DEF r
    <2>4. r \in Box /\ r[1] \in 1 .. Half - 1
      BY <1>1, <1>2, <2>2, <2>3 DEF Path, Box
    <2>5. \A i \in 2 .. 4 : r[i] # 0 => r[i - 1] # 0
      BY <1>2, <1>3, <2>2, <2>3
    <2>6. \A i \in 1 .. 4 : r[i] \in Words \cup {0}
      BY <1>1, <2>3
    <2> QED BY <2>1, <2>4, <2>5, <2>6 DEF UsedPaths, Path
  <1> QED BY <1>4, <1>5

\* The boxes an import starts from.
LEMMA RootsAreUsed == Roots \subseteq UsedPaths
  <1> SUFFICES ASSUME NEW w \in Words, w \in 1 .. Half - 1
               PROVE  BoxAppendBox(NoBox, w) \in UsedPaths
    BY DEF Roots
  <1> DEFINE r == [NoBox EXCEPT ![1] = w]
  <1>1. BoxDepth(NoBox) = 0
    BY DEF BoxDepth, NoBox
  <1>2. w % W = w /\ w \in Word /\ 0 \in Word
    BY HalfAssumption DEF W, Word
  <1>3. BoxAppendBox(NoBox, w) = r
    <2>1. BoxAppendBox(NoBox, w) = [NoBox EXCEPT ![0 + 1] = w % W]
      BY <1>1 DEF BoxAppendBox
    <2>2. 0 + 1 = 1
      OBVIOUS
    <2> QED BY <1>2, <2>1, <2>2
  <1>4. r = [i \in 1 .. 4 |-> IF i = 1 THEN w ELSE 0]
    BY DEF NoBox
  <1> HIDE DEF r
  <1>5. r \in Box
    BY <1>2, <1>4 DEF Box
  <1>6. r \in Path
    BY <1>4, <1>5 DEF Path
  <1> QED BY <1>3, <1>4, <1>6 DEF UsedPaths

\* Renaming uses the numbers of the two paths only.
LEMMA RenamedIsUsed ==
  ASSUME NEW b \in UsedPaths, NEW root \in UsedPaths, NEW dest \in UsedPaths,
         BoxDepth(root) < 4, BoxDepth(dest) < 4,
         NEW r \in RenameBox(b, root, dest)
  PROVE  r \in UsedPaths
  <1>1. /\ b \in Path /\ root \in Path /\ dest \in Path
        /\ \A i \in 1 .. 4 : b[i] \in Words \cup {0} /\ dest[i] \in Words \cup {0}
    BY DEF UsedPaths
  <1>2. r \in Path
    BY <1>1, RenameStaysInside
  <1>3. \A i \in 1 .. 4 :
          r[i] = IF i <= BoxDepth(dest) THEN dest[i]
                 ELSE IF i - BoxDepth(dest) + BoxDepth(root) <= 4
                      THEN b[i - BoxDepth(dest) + BoxDepth(root)] ELSE 0
    BY <1>1, RenamedWords
  <1>4. BoxDepth(root) \in 1 .. 4 /\ BoxDepth(dest) \in 1 .. 4
    BY <1>1, DepthOfPath
  <1>5. \A i \in 1 .. 4 : r[i] \in Words \cup {0}
    BY <1>1, <1>3, <1>4
  <1> QED BY <1>2, <1>5 DEF UsedPaths

----------------------------------------------------------------------------
(* The theorems.                                                            *)

LEMMA AlwaysUsed == IdsSpec => []UsedOnly
  <1>1. IdsInit => UsedOnly
    BY RootsAreUsed DEF IdsInit, UsedOnly
  <1>2. UsedOnly /\ [IdsNext]_twoIds => UsedOnly'
    <2> SUFFICES ASSUME UsedOnly, [IdsNext]_twoIds PROVE UsedOnly'
      OBVIOUS
    <2> USE DEF UsedOnly
    <2>1. CASE \E w \in Words : Deepen(w)
      BY <2>1, AppendedIsPath DEF Deepen
    <2>2. CASE Enter
      BY <2>2 DEF Enter
    <2>3. CASE Another
      BY <2>3, RootsAreUsed DEF Another
    <2>4. CASE \E d \in Roots : Rename(d)
      <3>1. PICK d \in Roots : Rename(d)
        BY <2>4
      <3>2. d \in UsedPaths
        BY RootsAreUsed
      <3> QED BY <3>1, <3>2, RenamedIsUsed DEF Rename
    <2>5. CASE UNCHANGED twoIds
      BY <2>5 DEF twoIds
    <2> QED BY <2>1, <2>2, <2>3, <2>4, <2>5 DEF IdsNext
  <1> QED BY <1>1, <1>2, PTL DEF IdsSpec

\* Every box id the program makes is a path of positive numbers, and both tests
\* for what lies in a place, the range of the SQL clauses and the mask of
\* isBoxInBoxes, hold for what is nested in it and for nothing else.
THEOREM BoxesArePaths == IdsSpec => []PathsNest
  <1>1. UsedOnly => PathsNest
    <2> SUFFICES ASSUME UsedOnly PROVE RangeIsNesting
      BY DEF PathsNest
    <2>1. box \in Path /\ outer \in Path
      BY DEF UsedOnly, UsedPaths
    <2> QED BY <2>1, RangeIsNestingForPaths, MaskIsNestingForPaths DEF RangeIsNesting
  <1> QED BY <1>1, AlwaysUsed, PTL

\* A root renamed (chBox '/') keeps its boxes: each one's new id is a path that
\* lies in the new root, when no number falls off the end and when some do.
THEOREM RenamedBoxesStay == IdsSpec => []RenamedStaysInside
  <1>1. UsedOnly => RenamedStaysInside
    <2> SUFFICES ASSUME UsedOnly, BoxDepth(outer) < 4,
                        NEW dest \in UsedPaths, BoxDepth(dest) < 4,
                        NEW r \in RenameBox(box, outer, dest)
                 PROVE  r \in Path /\ Inside(r, dest)
      BY DEF RenamedStaysInside
    <2>1. box \in Path /\ outer \in Path /\ dest \in Path
      BY DEF UsedOnly, UsedPaths
    <2> QED BY <2>1, RenameStaysInside
  <1> QED BY <1>1, AlwaysUsed, PTL

\* Two boxes of a root have different ids in the new one, if both still fit.
LEMMA RenamedApart ==
  ASSUME NEW x \in Path, NEW y \in Path, NEW root \in Path, NEW dest \in Path,
         BoxDepth(root) < 4, BoxDepth(dest) < 4, Inside(x, root), Inside(y, root),
         BoxDepth(dest) + BoxDepth(x) - BoxDepth(root) <= 4,
         BoxDepth(dest) + BoxDepth(y) - BoxDepth(root) <= 4,
         RenameBox(x, root, dest) = RenameBox(y, root, dest)
  PROVE  x = y
  <1> DEFINE ds == BoxDepth(root)
             dd == BoxDepth(dest)
             dx == BoxDepth(x)
             dy == BoxDepth(y)
             New(b, r) == \A i \in 1 .. 4 :
               r[i] = IF i <= dd THEN dest[i]
                      ELSE IF i - dd + ds <= 4 THEN b[i - dd + ds] ELSE 0
  <1>1. PICK r : r \in RenameBox(x, root, dest)
    BY RenamedIsOne
  <1>2. New(x, r) /\ New(y, r)
    BY <1>1, RenamedWords
  <1>3. ds \in 1 .. 3 /\ dd \in 1 .. 3 /\ dx \in 1 .. 4 /\ dy \in 1 .. 4
    BY DepthOfPath
  <1>4. \A i \in 1 .. 4 : (i <= dx <=> x[i] # 0) /\ (i <= dy <=> y[i] # 0)
    BY DepthOfPath
  <1>5. dd + dx - ds <= 4 /\ dd + dy - ds <= 4
    OBVIOUS
  <1>6. \A i \in 1 .. ds : x[i] = root[i] /\ y[i] = root[i]
    BY DEF Inside
  <1> HIDE DEF ds, dd, dx, dy
  <1>7. ASSUME NEW i \in 1 .. 4 PROVE x[i] = y[i]
    <2>1. CASE i <= ds
      BY <1>3, <1>6, <2>1
    <2>2. CASE i > ds /\ i - ds + dd <= 4
      <3> DEFINE j == i - ds + dd
      <3>1. j \in 1 .. 4 /\ ~(j <= dd) /\ j - dd + ds = i
        BY <1>3, <2>2
      <3> HIDE DEF j
      <3>2. r[j] = x[i] /\ r[j] = y[i]
        BY <1>2, <3>1
      <3> QED BY <3>2
    <2>3. CASE i > ds /\ i - ds + dd > 4
      BY <1>3, <1>4, <1>5, <2>3
    <2> QED BY <1>3, <2>1, <2>2, <2>3
  <1>8. x = [i \in 1 .. 4 |-> x[i]] /\ y = [i \in 1 .. 4 |-> y[i]]
    BY WordsOfPath
  <1> QED BY <1>7, <1>8

\* The head of a path that is no longer than three numbers is no full path.
LEMMA HeadIsShort ==
  ASSUME NEW b, NEW d \in 1 .. 3,
         [i \in 1 .. 4 |-> IF i <= d THEN b[i] ELSE 0] \in Path
  PROVE  BoxDepth([i \in 1 .. 4 |-> IF i <= d THEN b[i] ELSE 0]) < 4
  <1> DEFINE root == [i \in 1 .. 4 |-> IF i <= d THEN b[i] ELSE 0]
  <1>1. root[4] = 0
    OBVIOUS
  <1> HIDE DEF root
  <1>2. BoxDepth(root) \in 1 .. 4 /\ (4 <= BoxDepth(root) <=> root[4] # 0)
    BY DepthOfPath DEF root
  <1> QED BY <1>1, <1>2 DEF root

\* So a move never merges the packages of two boxes, as long as the new paths
\* have four numbers at most.
THEOREM RenamedBoxesDiffer == IdsSpec => []RenameKeepsApart
  <1>1. UsedOnly => RenameKeepsApart
    <2> SUFFICES ASSUME UsedOnly, NEW d \in 1 .. 3, NEW root,
                        root = [i \in 1 .. 4 |-> IF i <= d THEN box[i] ELSE 0],
                        root \in Path, Inside(box, root), Inside(outer, root),
                        NEW dest \in UsedPaths, BoxDepth(dest) < 4,
                        BoxDepth(dest) + BoxDepth(box) - BoxDepth(root) <= 4,
                        BoxDepth(dest) + BoxDepth(outer) - BoxDepth(root) <= 4,
                        RenameBox(box, root, dest) = RenameBox(outer, root, dest)
                 PROVE  box = outer
      BY DEF RenameKeepsApart
    <2>1. box \in Path /\ outer \in Path /\ dest \in Path
      BY DEF UsedOnly, UsedPaths
    <2>2. BoxDepth(root) < 4
      BY HeadIsShort
    <2> QED BY <2>1, <2>2, RenamedApart
  <1> QED BY <1>1, AlwaysUsed, PTL
=============================================================================
