------------------------------- MODULE Paging -------------------------------
(***************************************************************************)
(* Lists in pages: loadCards behind cardQuery and behind the export, and   *)
(* the loops of getBox, lsUser and lsJournal.  Each walks over all rows of *)
(* a query, counting off those before the page.  A client asks for one     *)
(* page after the other until one is empty; between two of its requests    *)
(* others add and remove rows.  The export makes a file of each page in    *)
(* one transaction, in which the rows stay as they are.                    *)
(***************************************************************************)
EXTENDS Integers, FiniteSets, SequencesExt

CONSTANTS
  MaxRows, Sizes,     \* the sizes of pages clients ask for
  ListSize,           \* DEF_LIST_SIZE
  MaxSize,            \* lsUser and lsJournal take larger sizes for 0
  FileSize,           \* 32768, the cards of an exported file
  MaxFiles,           \* files of an endless export that are told apart
  MaxFaults

ASSUME PagingAssumption ==
  /\ MaxRows \in Nat /\ Sizes \subseteq Nat /\ ListSize \in Nat \ {0}
  /\ MaxSize \in Nat /\ FileSize \in Nat \ {0} /\ MaxFiles \in Nat \ {0}
  /\ MaxFaults \in Nat

Kind == {"cards", "boxes", "users", "export"}

VARIABLES
  rows,      \* in the order of the query: id, exact (the card has the nominal
             \* or the name asked for, not only a larger or a longer one),
             \* passes (it has the properties, and a package in the box)
  lastId,
  pc, kind, offset, size,        \* the request
  wide, total, i, cnt, sz, page, \* locals of the loop
  files,     \* the pages of an export
  got,       \* what the client has of its pages
  before,    \* the ids a client had to be shown when it began
  first,     \* whether its first page was of a widened query
  steady,    \* since then no row went, and no page was of the other query
  faults

table == <<rows, lastId>>
request == <<kind, offset, size>>
locals == <<wide, total, i, cnt, sz, page>>
client == <<got, before, first, steady>>
vars == <<table, pc, request, locals, files, client, faults>>

Row == [id : 1 .. MaxRows, exact : BOOLEAN, passes : BOOLEAN]
Cards == kind \in {"cards", "export"}

\* The elements of s at the places P, in the order they have in s.
InOrder(P) == CHOOSE at \in [1 .. Cardinality(P) -> P] :
                \A j, k \in DOMAIN at : j < k => at[j] < at[k]
Kept(s, P) == LET at == InOrder(P) IN [k \in DOMAIN at |-> s[at[k]]]

\* What the SQL of a query finds, and what of it is shown.
Found(w) ==
  IF Cards THEN Kept(rows, {n \in DOMAIN rows : w \/ rows[n].exact}) ELSE rows
Visibles(w) == {n \in DOMAIN Found(w) : Cards => Found(w)[n].passes}
Shown(w) == Kept(Found(w), Visibles(w))
Ids(s) == {s[n].id : n \in DOMAIN s}

TypeOK ==
  /\ rows \in Seq(Row) /\ Cardinality(Ids(rows)) = Len(rows)
  /\ pc \in {"idle", "count", "rows", "end", "exported"}
  /\ kind \in Kind /\ wide \in BOOLEAN
  /\ total \in 0 .. MaxRows /\ i \in 1 .. MaxRows + 1
  /\ cnt \in 0 .. MaxRows /\ sz \in 0 .. MaxRows
  /\ Ids(page) \subseteq 1 .. lastId
  /\ faults \in 0 .. MaxFaults

\* The locals as the loop begins with them, and once they are gone.
LoopInit == total' = 0 /\ i' = 1 /\ cnt' = 0 /\ sz' = 0

Init ==
  /\ lastId \in 0 .. MaxRows
  /\ \E e, p \in [1 .. lastId -> BOOLEAN] :
       rows = [n \in 1 .. lastId |-> [id |-> n, exact |-> e[n], passes |-> p[n]]]
  /\ pc = "idle" /\ kind = "cards" /\ offset = 0 /\ size = 0
  /\ wide = FALSE /\ total = 0 /\ i = 1 /\ cnt = 0 /\ sz = 0 /\ page = <<>>
  /\ files = <<>>
  /\ got = <<>> /\ before = {} /\ first = FALSE /\ steady = FALSE
  /\ faults = 0

----------------------------------------------------------------------------
(* Requests.                                                                *)

\* lsUser, lsJournal and getBox take 0 for a default; loadCards does not.
PageSize(k, n) ==
  IF k = "cards" THEN n
  ELSE IF n = 0 \/ (k = "users" /\ n > MaxSize) THEN ListSize ELSE n

Start(k, ofs, n) ==
  /\ pc = "idle" /\ pc' = "count"
  /\ kind' = k /\ offset' = ofs /\ size' = n
  /\ wide' = FALSE /\ page' = <<>> /\ LoopInit
  /\ UNCHANGED <<table, faults>>

\* A client begins a list, or asks for the page after those it has.
FirstPage(k, n) ==
  /\ Start(k, 0, PageSize(k, n))
  /\ got' = <<>> /\ before' = {} /\ first' = FALSE /\ steady' = TRUE
  /\ UNCHANGED files

NextPage ==
  /\ page # <<>> /\ kind # "export" /\ size > 0
  /\ Start(kind, offset + size, size)
  /\ UNCHANGED <<client, files>>

\* exportExcelFile and exportCSVFile
Export ==
  /\ Start("export", 0, FileSize)
  /\ files' = <<>>
  /\ got' = <<>> /\ before' = {} /\ first' = FALSE /\ steady' = FALSE

----------------------------------------------------------------------------
(* loadCards, under exec.                                                   *)

\* The count of the query, with no regard to properties and packages.
Count ==
  /\ pc = "count"
  /\ total' = Len(Found(wide)) /\ pc' = "rows"
  /\ before' = IF offset = 0 THEN Ids(Shown(wide)) ELSE before
  /\ UNCHANGED <<table, request, wide, i, cnt, sz, page, files, got, first, steady,
                 faults>>

\* A mutant: the row at the offset is counted off too.
OffAtOffset == cnt <= offset

\* A mutant: the row after the page is given as well.
FullLate == sz > size

\* loadCards and getBox count all rows, the others those before the page.
Off == cnt < offset
Full == sz >= size

Row1 == Found(wide)[i]

\* hasAllProperties or loadPackages lets the row fall.
DropRow ==
  /\ pc = "rows" /\ i <= Len(Found(wide)) /\ Cards /\ ~Row1.passes
  /\ i' = i + 1
  /\ UNCHANGED <<table, pc, request, wide, total, cnt, sz, page, files, client, faults>>

Visible == pc = "rows" /\ i <= Len(Found(wide)) /\ (Cards => Row1.passes)

SkipRow ==
  /\ Visible /\ Off
  /\ i' = i + 1 /\ cnt' = cnt + 1
  /\ UNCHANGED <<table, pc, request, wide, total, sz, page, files, client, faults>>

TakeRow ==
  /\ Visible /\ ~Off /\ ~Full
  /\ i' = i + 1 /\ sz' = sz + 1
  /\ cnt' = IF kind = "users" THEN cnt ELSE cnt + 1
  /\ page' = Append(page, Row1)
  /\ UNCHANGED <<table, pc, request, wide, total, files, client, faults>>

LoopEnds ==
  /\ pc = "rows" /\ (i > Len(Found(wide)) \/ (Visible /\ ~Off /\ Full))
  /\ pc' = "end"
  /\ UNCHANGED <<table, request, locals, files, client, faults>>

\* A throw in the count or the loop is swallowed: what there is is answered.
LoopFault ==
  /\ pc \in {"count", "rows"} /\ faults < MaxFaults
  /\ pc' = "end" /\ faults' = faults + 1
  /\ UNCHANGED <<table, request, locals, files, client>>

None == total = 0

\* exec: a query that counts none is made again, with larger nominals or
\* longer names.
Widen ==
  /\ pc = "end" /\ Cards /\ None /\ ~wide
  /\ wide' = TRUE /\ LoopInit /\ pc' = "count"
  /\ UNCHANGED <<table, request, page, files, client, faults>>

\* The client has its page.
Answer ==
  /\ pc = "end" /\ kind # "export" /\ (Cards => wide \/ ~None)
  /\ pc' = "idle"
  /\ got' = got \o page
  /\ first' = IF offset = 0 THEN wide ELSE first
  /\ steady' = (steady /\ first' = wide)
  /\ wide' = FALSE /\ LoopInit
  /\ UNCHANGED <<table, request, page, files, before, faults>>

\* A mutant: the number of cards in the file is compared.
LastFileByPage == Len(page) <= size

\* A mutant: the export goes on until a query counts none.
LastFileEmpty == total = 0

LastFile == total < size

\* A file is made of the page; the next one begins where it ends.
ExportFile ==
  /\ pc = "end" /\ kind = "export" /\ (wide \/ ~None)
  /\ files' = IF Len(files) < MaxFiles THEN Append(files, page) ELSE files
  /\ IF LastFile THEN pc' = "exported" /\ UNCHANGED <<request, locals>>
     ELSE /\ pc' = "count"
          /\ offset' = IF Len(files) < MaxFiles THEN offset + FileSize ELSE offset
          /\ wide' = FALSE /\ page' = <<>> /\ LoopInit
          /\ UNCHANGED <<kind, size>>
  /\ UNCHANGED <<table, client, faults>>

Exported ==
  /\ pc = "exported" /\ pc' = "idle"
  /\ files' = <<>> /\ page' = <<>> /\ wide' = FALSE /\ LoopInit
  /\ UNCHANGED <<table, request, client, faults>>

----------------------------------------------------------------------------
(* What others do between two requests.                                     *)

\* A new row may be anywhere: cards are in the order of names and nominals,
\* the journal is newest first.
RowAdded ==
  /\ pc = "idle" /\ lastId < MaxRows
  /\ lastId' = lastId + 1
  /\ \E n \in 1 .. Len(rows) + 1, e, p \in BOOLEAN :
       rows' = InsertAt(rows, n, [id |-> lastId + 1, exact |-> e, passes |-> p])
  /\ UNCHANGED <<pc, request, locals, files, client, faults>>

RowGone ==
  /\ pc = "idle"
  /\ \E n \in DOMAIN rows : rows' = RemoveAt(rows, n)
  /\ steady' = FALSE
  /\ UNCHANGED <<lastId, pc, request, locals, files, got, before, first, faults>>

Loop == \/ Count \/ DropRow \/ SkipRow \/ TakeRow \/ LoopEnds \/ Widen
        \/ Answer \/ ExportFile

Next == \/ Loop \/ LoopFault \/ Exported
        \/ \E k \in Kind \ {"export"}, n \in Sizes : FirstPage(k, n)
        \/ NextPage \/ Export \/ RowAdded \/ RowGone

Spec == Init /\ [][Next]_vars

\* A handler goes on to its end.
FairSpec == Spec /\ WF_vars(Loop)

----------------------------------------------------------------------------

Upto(s, n) == IF n < Len(s) THEN n ELSE Len(s)

\* A page is the slice of what the query shows that the offset and the size
\* cut out, in spite of the rows dropped and of the two ways of counting.
PageIsSlice ==
  pc = "end" /\ faults = 0 =>
    page = SubSeq(Shown(wide), offset + 1, Upto(Shown(wide), offset + size))

\* The invariant of the loops: counters stay within the rows, and a page is its
\* slice.
PagingInvariant == TypeOK /\ PageIsSlice

\* A client that pages to the end has seen all that was there when it began,
\* whatever rows came in between, wherever they came to lie.
NothingSkipped ==
  pc = "idle" /\ steady /\ page = <<>> /\ size > 0 /\ faults = 0 =>
    before \subseteq Ids(got)

\* An export that ends has every card of the list, once.
ExportWhole ==
  pc = "exported" /\ faults = 0 => FlattenSeq(files) = Shown(wide)

\* An export of fewer cards than go into a file ends, also when a call throws.
ExportEnds ==
  pc = "count" /\ kind = "export" /\ Len(rows) < FileSize ~> pc = "exported"
=============================================================================
