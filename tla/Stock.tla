------------------------------- MODULE Stock -------------------------------
(***************************************************************************)
(* The two handlers that change quantities: cardQuery, which runs a parsed *)
(* query on every card it matches (RCQueryProcessor::setCards), and        *)
(* cardPush, which saves a stream of cards (RCQueryProcessor::saveCard).   *)
(* Each runs in one transaction; each database call of theirs is a step,   *)
(* because each can fail by itself, and most of the failures are swallowed *)
(* where they happen and the handler goes on.                              *)
(***************************************************************************)
EXTENDS Tables, SequencesExt

CONSTANTS
  QueryCodes,  \* the operations clients ask for
  PushOps,     \* the operation symbols pushed cards carry
  Counts,      \* the numbers in requests
  MaxCards, MaxPacks, MaxJournal,  \* no write begins beyond these
  MaxFaults    \* how many database calls may throw

Writing == {"SET", "ADD", "SUB", "MOV"}

ASSUME StockAssumption ==
  /\ QueryCodes \subseteq Writing \cup {"COUNT", "SUM"}
  /\ PushOps \subseteq {"+", "-", "="}
  /\ Counts \subseteq Qty /\ 0 \in Counts
  /\ MaxCards \in Nat /\ MaxPacks \in Nat /\ MaxJournal \in Nat
  /\ MaxFaults \in Nat

VARIABLES
  pc,      \* the next call of the open handler, "idle" when none is open
  req,     \* its request
  todo,    \* the matched cards not visited yet
  cur,     \* the card being changed
  leg,     \* what is done to which box of it; MOV has two legs
  pid, q,  \* what getQuantity returned
  cnt, sum,
  status,  \* the status the handler returns, "none" when it died
  faults

locals == <<req, todo, cur, leg, pid, q, cnt, sum>>
vars == <<tables, saved, pc, locals, status, faults>>

Queries ==
  {r \in [code : QueryCodes, name : Name, props : PropLists,
          box : Boxes, dest : Boxes, n : Counts] :
     /\ r.code # "MOV" => r.dest = r.box
     /\ r.code \notin Writing => r.n = 0}
Items == [name : Name, props : PropLists, box : Boxes, n : Counts]

NoReq == [code |-> "NONE"]
PushReq == [code |-> "PUSH"]
Kinds == {"LOOK", "SET", "ADD", "SUB", "TAKE", "PUT", "DROP", "NEW"}
NoLeg == [kind |-> "NONE"]

\* Every column, local and counter has its type; ids come from the counters.
TypeOK ==
  /\ ImageOK(Image) /\ ImageOK(saved)
  /\ pc \in {"idle", "each", "get", "set", "ref", "log", "stream", "commit"}
  /\ req \in Queries \cup {NoReq, PushReq}
  /\ todo \subseteq DOMAIN card
  /\ cur \in Nat
  /\ leg \in [kind : Kinds, box : Boxes, n : Qty] \cup {NoLeg}
  /\ pid \in Nat /\ q \in Qty
  /\ cnt \in Nat /\ sum \in Qty
  /\ status \in {"ok", "error", "none"}
  /\ faults \in 0 .. MaxFaults

ResetLocals ==
  /\ req' = NoReq /\ todo' = {} /\ cur' = 0 /\ leg' = NoLeg
  /\ pid' = 0 /\ q' = 0 /\ cnt' = 0 /\ sum' = 0

Init ==
  /\ TablesInit
  /\ pc = "idle"
  /\ req = NoReq /\ todo = {} /\ cur = 0 /\ leg = NoLeg
  /\ pid = 0 /\ q = 0 /\ cnt = 0 /\ sum = 0
  /\ status = "none" /\ faults = 0

\* The bounds of the checks: is there room for what a request may insert?
Room(newCard, newPack) == /\ Len(journal) < MaxJournal
                          /\ newCard => lastCard < MaxCards
                          /\ newPack => lastPack < MaxPacks

\* A database call throws.
Fault == faults < MaxFaults /\ faults' = faults + 1

----------------------------------------------------------------------------
(* cardQuery.                                                               *)

\* The rights are looked up, then the matching cards are selected.
Query(r) ==
  /\ pc = "idle"
  /\ req' = r
  /\ LET matched == MatchedCards(r.name, r.props, r.box)
         new == r.code = "SET" /\ matched = {}
     IN  /\ r.code \in Writing => Room(new, new \/ r.code = "MOV")
         /\ \E mayWrite \in BOOLEAN :
              IF mayWrite \/ r.code \notin Writing
                THEN pc' = "each" /\ todo' = matched
                ELSE pc' = "commit" /\ todo' = {}
  /\ status' = "ok"
  /\ UNCHANGED <<tables, saved, cur, leg, pid, q, cnt, sum, faults>>

FirstKind(code) == CASE code = "MOV" -> "TAKE"
                     [] code \in {"COUNT", "SUM"} -> "LOOK"
                     [] OTHER -> code

\* A mutant: the cursor is not advanced.
NextCardAgain ==
  /\ pc = "each"
  /\ \E c \in todo : cur' = c /\ UNCHANGED todo
  /\ leg' = [kind |-> FirstKind(req.code), box |-> req.box, n |-> req.n]
  /\ UNCHANGED cnt
  /\ pc' = "get"
  /\ UNCHANGED <<tables, saved, req, pid, q, sum, status, faults>>

NextCard ==
  /\ pc = "each"
  /\ \E c \in todo : cur' = c /\ todo' = todo \ {c}
  /\ leg' = [kind |-> FirstKind(req.code), box |-> req.box, n |-> req.n]
  /\ cnt' = cnt + 1
  /\ pc' = "get"
  /\ UNCHANGED <<tables, saved, req, pid, q, sum, status, faults>>

\* The query itself throws: setCards ends the loop and reports nothing.
LoopFault ==
  /\ pc = "each" /\ Fault
  /\ pc' = "commit"
  /\ UNCHANGED <<tables, saved, locals, status>>

\* hasAllProperties throws inside: nothing was found, so the card is passed
\* over when a property is asked for.
SkipFault ==
  /\ pc = "each" /\ Fault /\ req.props # <<>>
  /\ \E c \in todo : todo' = todo \ {c}
  /\ UNCHANGED <<tables, saved, pc, req, cur, leg, pid, q, cnt, sum, status>>

MustCreate == pc = "each" /\ todo = {} /\ req.code = "SET" /\ cnt = 0

\* A mutant: the package refers to the id before the new card's.
CreateOldId ==
  /\ MustCreate
  /\ InsertCard(req.name, req.props)
  /\ InsertPack(lastCard, req.box, req.n)
  /\ leg' = [kind |-> "NEW", box |-> req.box, n |-> req.n]
  /\ pc' = "ref"
  /\ UNCHANGED <<boxes, journal, saved, req, todo, cur, pid, q, cnt, sum,
                 status, faults>>

\* "=" on a box no matching card is in: a new card, in no journal.
Create ==
  /\ MustCreate
  /\ InsertCard(req.name, req.props)
  /\ InsertPack(lastCard + 1, req.box, req.n)
  /\ leg' = [kind |-> "NEW", box |-> req.box, n |-> req.n]
  /\ pc' = "ref"
  /\ UNCHANGED <<boxes, journal, saved, req, todo, cur, pid, q, cnt, sum,
                 status, faults>>

\* One of its inserts throws; what was inserted before it stays.
CreateFault ==
  /\ MustCreate /\ Fault
  /\ \/ UNCHANGED <<card, lastCard>>
     \/ \E k \in 0 .. Len(req.props) :
          InsertCard(req.name, SubSeq(req.props, 1, k))
  /\ pc' = "commit"
  /\ UNCHANGED <<pack, boxes, journal, lastPack, saved, locals, status>>

----------------------------------------------------------------------------
(* cardPush.                                                                *)

PushOpen ==
  /\ pc = "idle" /\ PushOps # {} /\ Room(FALSE, FALSE)
  /\ req' = PushReq
  /\ pc' = "stream"
  /\ status' = "ok"
  /\ UNCHANGED <<tables, saved, todo, cur, leg, pid, q, cnt, sum, faults>>

\* The card of "+" and "=": found, or inserted with its properties.  A
\* look-up that throws finds nothing; a property that cannot be stored is left
\* out.
Upsert(i) ==
  LET found == FoundCards(i.name, i.props) IN
  \/ /\ cur' \in found
     /\ UNCHANGED <<card, lastCard, faults>>
  \/ /\ cur' = lastCard + 1
     /\ \/ found = {} /\ InsertCard(i.name, i.props) /\ UNCHANGED faults
        \/ InsertCard(i.name, i.props) /\ Fault
        \/ /\ found = {} /\ Fault
           /\ \E k \in DOMAIN i.props : InsertCard(i.name, RemoveAt(i.props, k))

PushAdd(i) ==
  /\ pc = "stream" /\ "+" \in PushOps
  /\ Room(FoundCards(i.name, i.props) = {}, TRUE)
  /\ Upsert(i)
  /\ leg' = [kind |-> "ADD", box |-> i.box, n |-> i.n]
  /\ pc' = "get"
  /\ UNCHANGED <<pack, boxes, journal, lastPack, saved, req, todo, pid, q, cnt,
                 sum, status>>

\* An unknown card is passed over.
PushSub(i) ==
  /\ pc = "stream" /\ "-" \in PushOps
  /\ Room(FALSE, TRUE)
  /\ cur' \in FoundCards(i.name, i.props)
  /\ leg' = [kind |-> "DROP", box |-> i.box, n |-> i.n]
  /\ pc' = "get"
  /\ UNCHANGED <<tables, saved, req, todo, pid, q, cnt, sum, status, faults>>

\* "=" hands setQuantity its own result, not yet computed: any package id.
PushSet(i) ==
  /\ pc = "stream" /\ "=" \in PushOps
  /\ Room(FoundCards(i.name, i.props) = {}, TRUE)
  /\ Upsert(i)
  /\ leg' = [kind |-> "SET", box |-> i.box, n |-> i.n]
  /\ pid' \in 0 .. lastPack + 1 /\ q' = 0
  /\ pc' = "set"
  /\ UNCHANGED <<pack, boxes, journal, lastPack, saved, req, todo, cnt, sum,
                 status>>

\* The stream ends, a user without rights ends it, or an unknown component
\* symbol does; what was pushed before is committed all the same.
PushEnd ==
  /\ pc = "stream"
  /\ status' \in {"ok", "error"}
  /\ pc' = "commit"
  /\ UNCHANGED <<tables, saved, locals, faults>>

\* Storing the card throws, past saveCard: the transaction is rolled back.
PushFault ==
  /\ pc = "stream" /\ Fault
  /\ Restore
  /\ pc' = "idle" /\ ResetLocals
  /\ UNCHANGED status

----------------------------------------------------------------------------
(* One leg: getQuantity, setQuantity, the list of boxes, the journal.       *)

\* Mutants: a sum that does not wrap at 64 bits; an issue that does.
NewQtyWide(kind, old, n) ==
  CASE kind = "SET" -> n
    [] kind \in {"ADD", "PUT"} -> old + n
    [] kind \in {"SUB", "TAKE"} -> IF old > n THEN old - n ELSE 0
    [] kind = "DROP" -> (old + QMod - n) % QMod
NewQtyUnclamped(kind, old, n) ==
  CASE kind = "SET" -> n
    [] kind \in {"ADD", "PUT"} -> (old + n) % QMod
    [] kind \in {"SUB", "TAKE", "DROP"} -> (old + QMod - n) % QMod

NewQty(kind, old, n) ==
  CASE kind = "SET" -> n
    [] kind \in {"ADD", "PUT"} -> (old + n) % QMod
    [] kind \in {"SUB", "TAKE"} -> IF old > n THEN old - n ELSE 0
    [] kind = "DROP" -> (old + QMod - n) % QMod    \* q < 0 never holds

\* A mutant: MOV moves the number asked, not the number there was.
LogValueAsked(kind, old, n) ==
  CASE kind = "SUB" -> IF old > n THEN n ELSE 0
    [] OTHER -> n

LogValue(kind, old, n) ==
  CASE kind \in {"SET", "ADD", "PUT", "DROP"} -> n
    [] kind = "SUB" -> IF old > n THEN n ELSE 0
    [] kind = "TAKE" -> IF n > old THEN old ELSE n

LogOp(kind) == CASE kind = "SET" -> "="
                 [] kind = "ADD" -> "+"
                 [] kind = "PUT" -> "/"
                 [] kind \in {"SUB", "TAKE", "DROP"} -> "-"

\* Add up what the queried box holds.
Count(qty) ==
  sum' = IF leg.kind = "PUT" \/ req = PushReq THEN sum ELSE (sum + qty) % QMod

AfterGet == pc' = IF leg.kind = "LOOK" THEN "each" ELSE "set"

Get ==
  /\ pc = "get"
  /\ \E row \in GetQuantity(cur, leg.box) :
       pid' = row.id /\ q' = row.qty /\ Count(row.qty)
  /\ AfterGet
  /\ UNCHANGED <<tables, saved, req, todo, cur, leg, cnt, status, faults>>

\* Read as: no such package.
GetFault ==
  /\ pc = "get" /\ Fault
  /\ pid' = 0 /\ q' = 0
  /\ AfterGet
  /\ UNCHANGED <<tables, saved, req, todo, cur, leg, cnt, sum, status>>

Set ==
  /\ pc = "set"
  /\ SetQuantity(pid, cur, leg.box, NewQty(leg.kind, q, leg.n))
  /\ pid' = SetQuantityId(pid)
  /\ pc' = "ref"
  /\ UNCHANGED <<card, boxes, journal, lastCard, saved, req, todo, cur, leg, q,
                 cnt, sum, status, faults>>

SetFault ==
  /\ pc = "set" /\ Fault
  /\ pc' = "ref"
  /\ UNCHANGED <<tables, saved, locals, status>>

AfterRef == pc' = IF leg.kind = "NEW" THEN "commit" ELSE "log"

Ref ==
  /\ pc = "ref"
  /\ IF leg.kind \in {"SUB", "TAKE"} THEN UpdateBoxOnRemove(leg.box)
                                     ELSE UpdateBoxOnInsert(leg.box)
  /\ AfterRef
  /\ UNCHANGED <<card, pack, journal, lastCard, lastPack, saved, locals, status,
                 faults>>

RefFault ==
  /\ pc = "ref" /\ Fault
  /\ AfterRef
  /\ UNCHANGED <<tables, saved, locals, status>>

\* A mutant: the destination is written without being read.
AfterLogUnread ==
  /\ IF leg.kind = "TAKE"
       THEN /\ leg' = [kind |-> "PUT", box |-> req.dest,
                       n |-> LogValue("TAKE", q, leg.n)]
            /\ pc' = "set"
       ELSE /\ UNCHANGED leg
            /\ pc' = IF req = PushReq THEN "stream" ELSE "each"
  /\ UNCHANGED <<card, pack, boxes, lastCard, lastPack, saved, req, todo, cur,
                 pid, q, cnt, sum, status>>

\* After the source box of MOV, the destination box of the same card.
AfterLog ==
  /\ IF leg.kind = "TAKE"
       THEN /\ leg' = [kind |-> "PUT", box |-> req.dest,
                       n |-> LogValue("TAKE", q, leg.n)]
            /\ pc' = "get"
       ELSE /\ UNCHANGED leg
            /\ pc' = IF req = PushReq THEN "stream" ELSE "each"
  /\ UNCHANGED <<card, pack, boxes, lastCard, lastPack, saved, req, todo, cur,
                 pid, q, cnt, sum, status>>

\* A mutant: the arrival of a move is not recorded.
LogNoArrival ==
  /\ pc = "log"
  /\ IF leg.kind = "PUT" THEN UNCHANGED journal
     ELSE Add2Log(LogOp(leg.kind), pid, LogValue(leg.kind, q, leg.n))
  /\ AfterLog
  /\ UNCHANGED faults

Log ==
  /\ pc = "log"
  /\ Add2Log(LogOp(leg.kind), pid, LogValue(leg.kind, q, leg.n))
  /\ AfterLog
  /\ UNCHANGED faults

LogFault ==
  /\ pc = "log" /\ Fault
  /\ AfterLog
  /\ UNCHANGED journal

----------------------------------------------------------------------------
(* The end of a handler.                                                    *)

Done == pc = "commit" \/ (pc = "each" /\ todo = {} /\ ~MustCreate)

Answer ==
  /\ Done
  /\ Commit
  /\ pc' = "idle" /\ ResetLocals
  /\ UNCHANGED <<status, faults>>

\* END_GRPC_METHOD rolls back, and the handler still returns its status.
CommitFault ==
  /\ Done /\ Fault
  /\ Restore
  /\ pc' = "idle" /\ ResetLocals
  /\ UNCHANGED status

\* The process dies; SQLite rolls back from its journal.
Crash ==
  /\ pc # "idle"
  /\ Restore
  /\ pc' = "idle" /\ ResetLocals
  /\ status' = "none"
  /\ UNCHANGED faults

Step == \/ NextCard \/ Create \/ Get \/ Set \/ Ref \/ Log \/ PushEnd \/ Answer
        \/ \E i \in Items : PushAdd(i) \/ PushSub(i) \/ PushSet(i)

Failure == \/ LoopFault \/ SkipFault \/ CreateFault \/ PushFault \/ GetFault \/ SetFault
           \/ RefFault \/ LogFault \/ CommitFault \/ Crash

Next == \/ \E r \in Queries : Query(r)
        \/ PushOpen
        \/ Step
        \/ Failure

Spec == Init /\ [][Next]_vars

\* The thread of a handler keeps running, and a client ends its stream.
Fairness == WF_vars(Step)
FairSpec == Spec /\ Fairness
=============================================================================
