# A verification model of rcr

rcr keeps the stock of radio components of a workshop: cards of components,
where their packages lie, and how many are left. A C++ service (`rcr-svc`)
answers gRPC and HTTP/JSON requests over one SQLite file, mapped by ODB. This
directory holds TLA+ modules of the service, TLC configurations that check them
on small instances, and proofs that TLAPS checks for all instances.

## 1. The system

| component | state | operations | talks to | module |
|---|---|---|---|---|
| Box paths (`StockOperation.cpp`) | none | depth, last id of a range, nesting mask, append, rename | every handler that names a place | `BoxPath` |
| Stock tables and helpers (`RCQueryProcessor.cpp`) | Card, Property, Package, Box, Journal | getQuantity, setQuantity, updateBoxOnInsert, updateBoxOnRemove, add2log, look-ups | one ODB transaction per handler | `Tables` |
| Query and push (`setCards`, `saveCard`, `cardQuery`, `cardPush`) | locals of the handler | `=` `+` `-` `/` count sum; a stream of cards | the tables | `Stock`, `Ledger` |
| Card editing (`chCard` and helpers) | locals | add, remove, send back a card with its properties and packages | the tables | `CardEdit` |
| Box editing (`chBox` and helpers) | an open cursor | add, name, move, remove places | Box, Package | `BoxEdit` |
| Transactions and threads | table locks, the writer's slot, who waits for whom | begin, read, write, refuse, commit | all handlers | `Txn` |
| Users and login | User | login, chUser, checkUserRights | login plugins | `Admin` |
| Property types and settings | PropertyType, ServiceSettings, SymbolProperty | chPropertyType, saveSettings, rmSymbolProperty | Property | `Admin` |
| Export and listing | the counters of a loop | loadCards under exec, getBox, lsUser, lsJournal, the export loops | the tables, clients that page | `Paging` |
| Service life cycle (`svc.cpp`, `rcr-ws.cpp`, `sqlite-helper.cpp`) | `server`, `wsConfig.descriptor`, `service`, `mDb` | start, signal, done, clean | both servers and their threads | `Service` |
| Spreadsheet import, query language, schema, tools, clients | - | parsing and formatting | saveCard, cardQuery | - |

All handlers share one pattern, `BEGIN_GRPC_METHOD` .. `END_GRPC_METHOD`: a
transaction is opened, the body runs, the transaction is committed; an
exception that gets that far rolls it back. What makes the system hard to test:

* helpers *swallow* exceptions where they happen (`getQuantity`,
  `setQuantity`, `updateBox*`, `add2log`, `setCards`, `chBox`, `chCard`,
  `changePackageBox`, `saveSettings`), so one failed call in the middle of a
  handler leaves the others to be committed;
* handlers of several threads share table locks, and the one that would close
  a circle of waiting is refused with an exception, which is then swallowed;
* `chBox` writes the table its open cursor walks over;
* the same remainder is read by one call and written by another, on a box that
  may be an outer one of the package's box;
* ranges of box ids are compared by SQLite as signed 64-bit integers;
* quantities are unsigned and wrap;
* `done` runs in the signal handler and again in `main`;
* a listing is counted off anew for each page;
* the process can stop anywhere.

What makes each part correct:

* *paths*: the SQL range of a box, the bit mask and the nesting of paths agree;
  renaming keeps the nesting and never merges boxes while paths fit;
* *tables*: a package has a card; a card has one row per box; every box in use
  is listed;
* *query and push*: a move conserves, an issue takes at most what was asked and
  never wraps, the journal accounts for every change, requests take effect as a
  whole;
* *card editing*: other cards are kept, what is removed is logged, what is sent
  back is what is stored;
* *box editing*: all that is in a place moves with it, once, to where renaming
  takes it, and nothing else moves; the place left is empty and off the list;
* *transactions*: no addition is lost, what is read is committed, every handler
  ends;
* *accounts, types, settings*: a name means one account, a login changes no
  rights, no property without a type, no setting lost half way;
* *listing*: a page is its slice, paging to the end misses nothing that was
  there, an export has every card once;
* *life cycle*: no handler runs on a deleted service, both servers are stopped
  once, a signal ends the process.

## 2. Modules

| module | what it is |
|---|---|
| `BoxPath` | box ids as four words of `2 * Half` values, and the operations of `StockOperation.cpp` on them |
| `BoxWalk` | two ids built by appending and renaming: the state machine under which the properties of paths are checked |
| `Tables` | the stock tables, the committed image `saved`, and the helpers of `RCQueryProcessor`; extended by `Stock`, `BoxEdit` and `CardEdit` |
| `Stock` | `cardQuery`/`setCards` and `cardPush`/`saveCard`, one step per database call |
| `Ledger` | the abstract specification: a remainder for each place of a card, changed by whole requests |
| `StockProperties` | the properties of `Stock`, and the refinement mapping to `Ledger` |
| `BoxEdit` | `chBox`, one step per call that changes something |
| `CardEdit` | `chCard`, one step per call |
| `Txn` | the handlers of several threads as the calls they make, on SQLite's locks |
| `Admin` | accounts, login, property types, settings; one step per handler |
| `Paging` | the loops that cut a list into pages, and their clients |
| `Service` | `main`, the signal handler and the threads of two servers |
| `MC*` | the constants of the runs |
| `OperatorProofs` | theorems on box ids, and the facts about finite sets, sums and smallest numbers the other proofs use |
| `StockProofs`, `BoxEditProofs` (with `BoxWalk`), `CardEditProofs`, `AdminProofs`, `PagingProofs`, `TxnProofs`, `ServiceProofs` | the theorems on the state machines |

`Stock`. `pc` is the call the open handler makes next. A query selects its
cards (`Query`) and visits them in any order (`NextCard`). For each card it
makes one or, for a move, two *legs*; a leg is `getQuantity` (`Get`),
`setQuantity` (`Set`), `updateBoxOnInsert` or `updateBoxOnRemove` (`Ref`),
`add2log` (`Log`). `leg.kind` says which case of the `switch` runs, `NewQty`
and `LogValue` are the arithmetic of that case. `Create` is the block after the
loop. A pushed card (`PushAdd`, `PushSub`, `PushSet`) is one leg after
`findCardByNameNominalProperties`. Each step has a failing twin (`GetFault`,
...) that does what the `catch` around the call does; `PushFault` is an
exception that reaches `END_GRPC_METHOD`, `CommitFault` a commit that fails,
`Crash` the death of the process.

`BoxEdit`. `rows` are the Box rows the cursor has not come to. `NextRow` is one
turn of the loop of `/` up to `changePackageBox`: the target is inserted when it
is not there, and the cursor may come to it or not (`Visit`; SQLite promises
neither). `MovePackage` is the inner loop, `EraseRow` the end of the turn;
`ClearPackage` and `DropRow` are the two loops of `-`. `MoveFault` and
`ClearFault` are swallowed inside, and the row is erased all the same;
`BoxFault` ends the handler, which commits.

`CardEdit`. `todo` is the list of database calls the handler has yet to make,
computed when it opens from what it reads then: nobody else writes while it
runs. Each kind of call is an action; `Swallow` is a failed call on the journal
or the list of boxes, `Throw` any other failed call, after which the handler
commits. The entry `updateCardPackages` logs from past the end of a list
(`svcImpl.cpp:1322`) is any entry (`LogPastEnd`).

`Txn`. A handler is a sequence of calls, each reading or writing a table, with
what an exception ends: the call alone or the rest of the handler. A statement
is ready when no other transaction has a lock against it; a first write takes
the one writer's `slot` before it asks for its table; who is locked out waits
(`Wait`), unless that closes a circle, when the call is refused (`Deadlock`).
The locks are those of SQLite's shared cache with unlock-notify, as ODB's
connection pool uses them, and are external to the repository.

`Admin`. A handler is one step: what a failing call leaves behind is a disjunct
of the step. `Outcomes` are the tables `saveSettings` may leave.

`Paging`. One step of a loop is one row. Rows carry what the code tells apart:
whether the query matches without being widened, and whether properties and
boxes let the row through. `cards` and `boxes` count all rows, `users` (and the
journal) those before the page. Rows do not change while a handler runs, which
is what `Txn` shows (`ReadsCommitted`).

`Service`. `pc` has a frame for `main` and one for the signal handler, which
interrupts it. `StopNWait`, `Drain`, `Done`, `StopWS`, `Join`, `Delete` are the
steps of `stopNWait` and `done`; the servers stop taking calls, then wait for
those that run, as the documentation of gRPC and libmicrohttpd says.

How they fit together: `Stock`, `BoxEdit` and `CardEdit` take the open handler
for the only writer. `Txn` is where that comes from, and shows what it costs:
refused calls, which are the failing steps of the other three.

### Abstractions

* Names stand for name, nominal and component together; `star` is the wildcard
  and may also be the name a card was created with, as in the code.
* In `Stock` properties are part of the card row; in `CardEdit` they are a
  table. Unknown property types and operation symbols change nothing and are
  left out.
* Quantities are modulo `QMod` (2^64 in the code), words of a box modulo
  `2 * Half` (2^16), so wrap-around is reached with small numbers.
* Boxes of requests are well formed paths with a positive first signed word;
  `chBox` is also sent 0, whose range is empty because its end is not clamped.
* The uninitialised package id of a pushed `=` (`RCQueryProcessor.cpp:310`) is
  any id.
* A client that edits a card sends rows with that card's `card_id`, and when it
  edits one package, that package; nothing in the server enforces it. The name
  of a box, which makes `updateCardPackages` write a row that is otherwise the
  same, is a choice (`named`).
* Users are reduced to having the right to write or not, but for `Admin`.
* `Txn` leaves out tables nobody in it writes (Card and the dictionaries).
* `Service`: the signal handler runs on main's thread and is not interrupted by
  another signal. A signal that comes before there is a server ends the process
  (`stopNWait` calls a null pointer).

## 3. Runs

| run | instance | shows |
|---|---|---|
| `StockFlat` | 2 leaf boxes, 2 names (one the wildcard), 2 cards, 3 packages, all operations but pushed `=`, no failing call, crashes anywhere | `TypeOK`, `OneRowPerBox`, `BoxListed`, `ChangesLogged`, `ImplementsLedger` (`Stock` refines `Ledger`) |
| `StockNested` | a box inside the other, quantities mod 8 | `MoveConserves`, `IssueBounded`, `JournalAccounts` |
| `StockFaults` | nested boxes, properties, all operations, one failing call, crashes | `NoOrphans`, and `Answered` under fairness |
| `BoxWalk` | words of 4 bits of which 4 are used, paths up to depth 4 | `PathsNest`, `RenamedStaysInside`, `RenameKeepsApart` |
| `BoxEdit` | packages in up to 4 nested boxes, 2 requests on 3 sources and 4 targets (one inside a source, one around a source, one deeper), one failing call, crashes | `EditInvariant`, `EndsInDest`, `RenamedOnce`, `StaysListed`, `SourceEmptied`, and `BoxAnswered` under fairness |
| `CardEdit` | 2 cards, 3 packages, 2 properties, one request of any kind, one failing call, crashes | `CardInvariant`, `OthersUntouched`, `RemovalLogged`, `PackagesAsSent`, `AddedListed` |
| `Txn` | 5 threads: 2 additions, a move of boxes, a login, a listing of the journal | `TypeOK`, `NothingLost`, `ReadsCommitted`, and `AllEnd` under fairness |
| `Service` | 2 gRPC threads, 1 HTTP thread, 2 signals, 2 cleans | `ServiceInvariant`, `StoppedOnce`, `CleanEmpties`, and `SignalEnds` under fairness |
| `Admin` | 2 names, 2 passwords, a plugin that knows one of them, 2 types, 3 requests, one failing call | `AdminInvariant`, `NamesStayUnique`, `LoginKeepsAccounts`, `SettingsSurvive` |
| `Paging` | up to 3 rows, pages of 0 to 2, files of 2, one failing call | `PagingInvariant`, `NothingSkipped`, `ExportWhole`, and `ExportEnds` under fairness |

Runs that end in a violation, each a disagreement of the code with its
documentation:

| run | property | what happens |
|---|---|---|
| `StockPushNegative` | `NeverBelowZero` | a pushed `-` wraps below zero |
| `TxnJournal` | `AdditionsLogged` | a listing of the journal keeps an addition out of it |

The bounds. Two boxes are enough for a source and a destination, and for an
outer and an inner one; two cards for a wildcard to hit more than one; three
packages for a card in two boxes beside another one. `MaxJournal` bounds
histories: no new request begins when the journal has that many entries, but a
request that has begun ends. `MaxRequests` bounds `BoxEdit`, `CardEdit` and
`Admin` likewise; a card edit starts from every layout and needs no request
before it, a box edit has two so that one follows a half-done one, an account
needs three to be made, renamed and used. Five threads have every pair of
handlers, and circles of two and of three. `MaxFiles` bounds only the files of
an endless export that are told apart. `MaxFaults` is one: the handlers have no
retries, and each swallowing is local. No symmetry is used: the wildcard and the
names are not interchangeable, and the runs are small without.

Fairness. `Answered` and `BoxAnswered` assume `WF_vars(Step)`: the thread of an
open handler goes on (nothing in it waits but for the client's stream, and a
client ends its stream). `AllEnd` assumes weak fairness of each thread of the
pool. `SignalEnds` assumes that of the main thread, of the signal handler and
of the end of each handler. `ExportEnds` assumes the loop goes on. No fairness
is assumed of failures, crashes, signals or new requests.

Deadlock is checked in every run but those of `BoxEdit`, `CardEdit` and
`Admin`, where the clients stop after `MaxRequests` requests.

## 4. Proofs

All theorems hold for every value of the constants under the assumptions stated
by name in the modules. Where one needs more, it has a hypothesis:

* `NoFaults` (`MaxFaults = 0`): no database call throws. The code swallows
  exceptions and commits what is half done, so these properties do not hold with
  failing calls (section 5). A crash may still come anywhere.
* `FlatBoxes` (with `NoFaults`: `Flat`): no box of a request lies in another.
* `Looked`: no card is pushed with `=`, which writes to a package it has not
  looked up.
* `Shallow`: no source and no target of a box request has depth 4, for which
  `renameBox` shifts by 64 bits.
* `NamedOnce`: no request names one package twice. Of two packages with one id
  `updateCardPackages` looks up only the first, and drops the other. A client
  sends each package it shows once, and any number of new ones, which have id 0.

### What is proved

| module | theorems | state |
|---|---|---|
| `OperatorProofs` | `RangeIsNestingForPaths`, `MaskIsNestingForPaths`, `RenameStaysInside` | words of any size |
| `BoxEditProofs` | `PathsNest`, `RenamedStaysInside`, `RenameKeepsApart` | words of any size, any box numbers |
| `StockProofs` | `TypeOK`, `NoOrphans` | any failing calls and crashes |
| `StockProofs` | `MoveConserves`, `IssueBounded`, `JournalAccounts`, `ChangesLogged` | `NoFaults`, any boxes, nested or the same |
| `StockProofs` | `OneRowPerBox`, `BoxListed`, `ImplementsLedger` | `Flat`; the first and the last also `Looked` |
| `BoxEditProofs` | `EditInvariant`, `EndsInDest`, `RenamedOnce`, `StaysListed`, `SourceEmptied` | `Shallow`, any layout and failing calls |
| `CardEditProofs` | `CardInvariant`, `OthersUntouched`, `AddedListed`, `RemovalLogged` | any cards, requests, failing calls (the last two are themselves about answers no call failed for) |
| `CardEditProofs` | `PackagesAsSent` | `NamedOnce` (and itself about answers no call failed for) |
| `AdminProofs` | `AdminInvariant`, `NamesStayUnique`, `LoginKeepsAccounts`, `SettingsSurvive` | any failing calls |
| `PagingProofs` | `PagingInvariant`, `NothingSkipped`, `ExportWhole` | any rows, sizes of pages and files, insertions and removals (the last two, and the pages of the first, are themselves about lists no call failed in) |
| `TxnProofs` | `TypeOK`, `NothingLost`, `ReadsCommitted` | any threads, each with any handler |
| `ServiceProofs` | `ServiceInvariant`, `StoppedOnce`, `CleanEmpties` | any threads, signals, cleans |

### Along which arguments

* `StockProofs`, first part. `IInv` adds `Working` to `TypeOK` and `NoOrphans`:
  during a leg the card it is about exists, during the loop the request is a
  query. Without it a `Set` step could write a package for no card.
* `StockProofs`, second part, without failing calls. `QInv` says what a card has
  at each call of a query: while a move is between its two legs the total lacks
  exactly what the second leg will put back (`Moving`, `Conserved`), a leg knows
  its remainder (`Held`), an issue has taken from each card at most what was
  asked (`Issued`). `JInv` relates every remainder to its journal: before, plus
  entries, plus the entry still to be written (`Pending`, `Accounted`). `LInv`
  asks only that there is an entry (`Noted`), but of streams too. A total is a
  fold; `TotalOfChanged` says how it changes when one row does, and is the one
  fact about sums the invariant needs.
* `StockProofs`, leaf boxes. `FInv` says what the handler knows between two
  calls: at `set`, the package id is that of the only row of the card in the
  box, or 0 and there is none (`Targeted`); a card to be visited has a row in
  the queried box (`Present`); only the box just written may be off the list
  (`Listed`).
* `StockProofs`, the refinement. Every step but `Answer` is a stutter of the
  ledger, so all is in what `Answer` commits. `Following` says, at each call,
  how far the open tables are from the file on the way to one ledger step: for a
  query, which hit cards have had their first and their last leg, and what is
  then at each place (`Progress`, `Expected`); for a stream, that the tables are
  in the states so many pushed cards lead to, or will be once the package is
  written (`Streaming`); for a query that made a card, which (`Created`).
* `BoxEditProofs`. `EInv` adds the types of the file and that every package the
  cursors are about to touch lies in the place the request names (`Within`).
  `WInv` follows the walk: a package of the place waits for the cursor or is in
  the target (`Reached`); it waits where it was, or is where `renameBox` takes
  it (`Once`); rows left in the place are rows to come (`Ahead`). The order in
  which the cursor meets rows, those just inserted included, is left open.
* `CardEditProofs`. The handler has a list of calls still to make, and the
  invariant (`Safe`) is about the rest of that list and the tables as they are
  now: its rows are all of one card that is there (`Ready`), or the card is
  written first, inserted under the id its rows name (`NewFirst`) or updated
  (`CardFirst`), or it goes last, after an erasing for each row it still has
  (`CardLast`, `ErasedIn`); and no call touches a package but those the request
  may (`MineFor`). That each request builds such a list is one lemma per shape of
  request; that each call leaves one, one lemma per disjunct of `Next`.
* `CardEditProofs`, the boxes of an addition. One call of a request throws of
  itself: the erasing of package 0, which comes for a package of quantity 0 and
  ends the handler half way. So it is not enough that every box gets listed by
  some later call. `Clear` splits the list: the front puts nothing in a box that
  is not listed, and only it may throw; the back fills boxes that a later call
  of it lists (`Fills`).
* `CardEditProofs`, the entries of a removal. `Shape` says of the calls left that
  each erasing of a package is followed by its entry, that no row is erased twice
  and that the card goes last; the rows are still there (`Present`). The journal
  has as many new entries as packages are gone, less the one whose entry is due
  (`Logged`), and the card is to go or keeps a package no call erases
  (`Remains`). Counting replaces a map from entries to packages.
* `CardEditProofs`, the packages of an edit. `EditInv` divides the packages to
  have (those sent with a quantity) in two at each call: one part is there
  already, like what was sent, and no call left writes it (`Sees`); the other is
  what the calls left will write, one each (`Plan`, `Supplies`). No call of the
  list writes a row another one does, and the erasing of package 0, which would
  end the handler, is not among them, so at the end the second part is empty and
  the first is one to one with the packages of the card. That each list built
  from a request divides them so goes by the loops it comes from: over the
  packages there were, over those sent, and over the properties, which touch no
  package.
* `BoxEditProofs`, the paths of `BoxWalk`. The two ids are paths of the numbers in use, which appending
  and renaming keep; `RenameKeepsApart` takes the last numbers of a path off and
  puts them on another.
* `AdminProofs`. The tables' types and the counters (`Inductive`) are enough for
  the invariants; the two action properties go by cases over the disjuncts of a
  handler. For `SettingsSurvive` the state of the loop after each entry of the
  list is described (`Progress`): every entry written so far has its id or its
  value in the table, and no row is gone.
* `PagingProofs`. A list is picked from the rows by a map that goes up
  (`Picks`), and so is what is shown of it. The invariant of the loops
  (`Reading`): the places of the first `Past` of the list are those before `i`,
  and those after the offset are on the page. At the end the page is full or the
  list is (`Cut`). What a client has still to see lies after the place it has
  come to (`Ahead`), and a new row moves a row on, never back (`ShownStill`): the
  map from the list as it was to the list as it is goes up, so no place is less
  than it was. An export that comes to a second file has a list that does not
  fit one (`Long`); then no file is the last, so one that ends has made one file,
  and that is the list.
* `TxnProofs`. `TInv` says which locks exclude which (`Exclusive`), that an ended
  transaction has none (`Ended`), that only the holder of the slot has changed
  anything since the last commit (`Uncommitted`), that what a thread with a lock
  on the stock has read is still true (`StillTrue`) - which is why its write
  loses nothing - and it counts the additions (`OpenAdditions`, `Counted`).
* `ServiceProofs`. `SInv` says what main and the signal handler know at each of
  their steps (`MainKnows`, `SignalKnows`), that a server that is down has no
  call (`Stopped`, `Drained`), that nobody runs beside an undisturbed clean
  (`Undisturbed`) and which tables it has emptied (`Emptied`).

Folds and recursive functions are choices of a function that satisfies an
equation. Before anything is said of one, such a function is shown to exist and
to be unique (`SumExists`, `SumUnique`, `ReachExists`, and `SortedExists` for the numbers of
a set in order), by taking a smallest counterexample (`FlattenIs`, the
concatenation of a list of lists, in `CardEditProofs` likewise):
a finite set has a smallest part without the property
(`SmallestPart`), a set of numbers a least one (`LeastNumber`). This stands in
for the induction theorems of the library, which take operators the provers
cannot instantiate. `AdminProofs` and `PagingProofs` extend `OperatorProofs`
for these facts; the word size that module declares plays no part in them.

### What the proofs taught

* `SettingsSurvive` was first stated for any list. `saveSettings` inserts a row
  it cannot update, and the id it gets may be one that a later row of the list
  names, which then overwrites it. The property is now about clients that send
  back ids they were given (`GivenOut`); no list of the run had shown it.
* `RenamedOnce` and the move part of `SourceEmptied` fail when a place is moved
  into a place it lies in: a box of the place may be renamed to one the cursor
  is still to meet, and is renamed again. They are now about places apart
  (`Apart`), and the run has the layout that tells.
* `BoxListed` needs no `Looked`: a package overwritten by a pushed `=` is put in
  the box of the request, which `updateBoxOnInsert` lists.

### Only model-checked

Liveness (`Answered`, `BoxAnswered`, `AllEnd`, `SignalEnds`, `ExportEnds`), which
this prover cannot do. Every other property of a passing run is a theorem, under
the hypotheses of the table.

## 5. Known disagreements that no run shows

Found while modelling. Where a property would fail, it is stated only under the
conditions in which it holds.

* A failed update between the two halves of a move is swallowed and the half is
  committed (`RCQueryProcessor.cpp:644`, README.md:602).
* `-` on a room takes from one box only, and moves that package to the room,
  which is then not listed (`RCQueryProcessor.cpp:600` and `:923`,
  README.md:186 and 612). The same package is counted alone by the sum over a
  room (`:906`, README.md:219).
* An issue of all there is, or more, is logged as 0 (`:924`, README.md:230).
* A pushed `=` may overwrite the package of another card (`:310`).
* A card with two properties is not found by them (`:727`), and a query with
  none changes cards that have some (`:735`, README.md:542).
* `=` by a user without rights is answered with code 0 (`:87`, README.md:602); a
  `=` on a box the card is not in makes a second card of the same name (`:947`,
  README.md:52).
* Renaming a box of depth 4 shifts by 64 bits (`StockOperation.cpp:404`).
* Moving a place into the place it lies in may move a package twice: when 1-1
  is moved to 1 and the cursor meets 1-1-1 first, what lies there goes to 1-1,
  whose row is still to come, and then to 1 (`svcImpl.cpp:1162`).
* A setting sent with an id that never was is inserted under a new id, and a
  later row of the same list with that id overwrites it (`svcImpl.cpp:1836`).
* Moving a box into itself erases its row from the list when the target is the
  box (`svcImpl.cpp:1183`); removing a box removes its packages without a
  journal entry (`:1224`).
* A property that is kept when a card is sent back is inserted again
  (`svcImpl.cpp:570` and `:587`). New packages of one request are left out when
  one of them falls on a box the card is in (`:1738` and `:1760`). `=` does not
  list new boxes. The sign of an unsigned quantity is never minus, so additions
  of `chCard` are logged as `-` (`:524`).
* A failed edit is answered as if it had been made (`svcImpl.cpp:607`), and so
  are a property type whose key is taken (`:380`) and half-saved settings
  (`:1874`).
* A login gives a banned user, whose token is 0, a new one (`svcImpl.cpp:1039`,
  README.md:1638).
* An export of 32768 cards or more never ends: the count of the query, not of
  the page, is compared (`svcImpl.cpp:1654`). A failed count is taken for none,
  and the list is widened (`RCQueryProcessor.cpp:66`).
* The journal's listing joins Package, and entries of packages that are gone are
  not shown (`odb-views.h:28`).
* `clean` deletes the database object under other handlers
  (`svcImpl.cpp:1963`); two answers are read uninitialised (`:1926`).

## 6. Not modelled, and why

* The parsers of paths, operations, names, numbers and units
  (`StockOperation.cpp`, `RCQuery.cpp`, `MeasureUnit.cpp`), spreadsheets and box
  names: functions of strings with no state; what the handlers need of their
  results is in the requests.
* Spreadsheet import in the service is a sequence of `saveCard` calls, as
  `cardPush` is.
* Generated ODB and protobuf code, the web pages and clients, `mkdb`, the
  passphrase dictionary.
* gRPC, libmicrohttpd, ODB and SQLite are external and modelled from how the
  code uses them.

Half of the repository's C++ lines are a vendored test framework
(`gtests/lib`), and most of the rest is parsing, formatting and command lines;
the modules stand for the handlers, which are a small part by lines.

## 7. Plan

`ImplementsLedger` with a pushed `=`: the ledger would need the step in which
any place of any card is overwritten.
