-------------------------------- MODULE Txn ---------------------------------
(***************************************************************************)
(* Handlers of several threads on one database file.  Each opens a         *)
(* deferred transaction; ODB's connections share one SQLite cache, so a    *)
(* statement locks the tables it uses until its transaction ends, one      *)
(* transaction at a time may write, and a statement that is locked out     *)
(* waits for the transaction in its way to end.  The wait that would close *)
(* a circle is refused: ODB throws deadlock, which the handler swallows    *)
(* where it catches, and goes on.  Locks are external; the handlers are    *)
(* the database calls of the code, in its order.  Tables nobody here       *)
(* writes (Card, the dictionaries) are left out.                           *)
(***************************************************************************)
EXTENDS Integers, FiniteSets, Sequences

CONSTANTS
  Thread,
  Work,      \* thread -> the handler it runs: "add", "move", "login", "list"
  Start      \* the quantity in the box at the start

Handler == {"add", "move", "login", "list"}
ASSUME TxnAssumption ==
  /\ IsFiniteSet(Thread)
  /\ Work \in [Thread -> Handler] /\ Start \in Nat

VARIABLES
  pc,        \* the next call of a handler; 0 once its transaction has ended
  held,      \* the table locks of its transaction
  slot,      \* the transaction that may write, if any: a set of at most one
  waits,     \* the transaction a thread waits for, or itself
  stock,     \* the quantity in the box, and where chBox moves it
  journal,   \* the threads with an entry
  saved,     \* the committed image of both
  seen,      \* what a thread has read of the stock and the journal
  applied    \* the threads whose addition was written

locks == <<held, slot, waits>>
vars == <<pc, locks, stock, journal, saved, seen, applied>>

Image == [stock |-> stock, journal |-> journal]

----------------------------------------------------------------------------
(* The handlers: the calls, each with the table and what a throw ends: the  *)
(* call alone ("call") or all that is left of the handler ("rest").         *)

Call(do, table, ends) == [do |-> do, table |-> table, ends |-> ends]

\* cardQuery "+" on a card that is there, in a box that is listed.
AddCards ==
  <<Call("read", "User", "rest"), Call("readStock", "Package", "rest"),
    Call("add", "Package", "call"), Call("read", "Box", "call"),
    Call("log", "Journal", "call")>>

\* chBox "/" of a box to one that is not there: changePackageBox reads and
\* writes under one catch.
MoveBoxes ==
  <<Call("read", "User", "rest"), Call("read", "Box", "rest"),
    Call("write", "Box", "rest"), Call("readStock", "Package", "call"),
    Call("move", "Package", "call"), Call("write", "Box", "rest")>>

\* login with a password that is right.
Login == <<Call("read", "User", "rest"), Call("write", "User", "call")>>

\* lsJournal: the join of the journal and the packages.
LsJournal ==
  <<Call("read", "User", "rest"), Call("read", "Journal", "rest"),
    Call("readStock", "Package", "rest")>>

Calls(t) == CASE Work[t] = "add" -> AddCards
              [] Work[t] = "move" -> MoveBoxes
              [] Work[t] = "login" -> Login
              [] Work[t] = "list" -> LsJournal

Table == {"User", "Package", "Box", "Journal"}
Open(t) == pc[t] # 0
InCall(t) == pc[t] \in DOMAIN Calls(t)
Now(t) == Calls(t)[pc[t]]
Reads(c) == c.do \in {"read", "readStock"}
Mode(c) == IF Reads(c) THEN "r" ELSE "w"

TypeOK ==
  /\ \A t \in Thread : pc[t] \in 0 .. Len(Calls(t)) + 1
  /\ held \in [Thread -> SUBSET (Table \X {"r", "w"})]
  /\ slot \subseteq Thread /\ Cardinality(slot) <= 1
  /\ waits \in [Thread -> Thread]
  /\ stock \in [{"src", "dst"} -> Nat]
  /\ applied \subseteq Thread

Init ==
  /\ pc = [t \in Thread |-> 1]
  /\ held = [t \in Thread |-> {}] /\ slot = {}
  /\ waits = [t \in Thread |-> t]
  /\ stock = [src |-> Start, dst |-> 0] /\ journal = {}
  /\ saved = Image
  /\ seen = [t \in Thread |-> Image]
  /\ applied = {}

----------------------------------------------------------------------------
(* Locks.                                                                   *)

Locks(u, table, modes) == \E m \in modes : <<table, m>> \in held[u]

\* A mutant: a write does not mind who reads.
InTheWayWritersOnly(t) ==
  {u \in Thread \ {t} :
     \/ ~Reads(Now(t)) /\ u \in slot
     \/ Locks(u, Now(t).table, {"w"})}

\* A mutant: a read does not mind who writes.
InTheWayReadUncommitted(t) ==
  {u \in Thread \ {t} :
     /\ ~Reads(Now(t))
     /\ u \in slot \/ Locks(u, Now(t).table, {"r", "w"})}

\* The transactions the next call of t has to wait for.
InTheWay(t) ==
  {u \in Thread \ {t} :
     \/ ~Reads(Now(t)) /\ u \in slot
     \/ Locks(u, Now(t).table, IF Reads(Now(t)) THEN {"w"} ELSE {"r", "w"})}

\* Who stands at the end of a line of waiting transactions.
Line(u) == LET at[n \in 0 .. Cardinality(Thread)] ==
                 IF n = 0 THEN u ELSE waits[at[n - 1]]
           IN  {at[n] : n \in 0 .. Cardinality(Thread)}

Circle(t, u) == t \in Line(u)

Running(t) == InCall(t) /\ waits[t] = t

\* A mutant: the slot is taken while another transaction has it.
TakeSlotAnyway(t) ==
  /\ Running(t) /\ ~Reads(Now(t)) /\ t \notin slot
  /\ slot' = slot \cup {t}
  /\ UNCHANGED <<pc, held, waits, stock, journal, saved, seen, applied>>

\* sqlite3BtreeBeginTrans: the first write of a transaction takes the slot,
\* before it asks for the lock of the table.
TakeSlot(t) ==
  /\ Running(t) /\ ~Reads(Now(t)) /\ slot = {}
  /\ slot' = {t}
  /\ UNCHANGED <<pc, held, waits, stock, journal, saved, seen, applied>>

Ready(t) == Running(t) /\ InTheWay(t) = {} /\ (Reads(Now(t)) \/ t \in slot)

Wait(t) ==
  /\ Running(t)
  /\ \E u \in InTheWay(t) : ~Circle(t, u) /\ waits' = [waits EXCEPT ![t] = u]
  /\ UNCHANGED <<pc, held, slot, stock, journal, saved, seen, applied>>

----------------------------------------------------------------------------
(* The calls.                                                               *)

Does(t, do) ==
  /\ Ready(t) /\ Now(t).do = do
  /\ pc' = [pc EXCEPT ![t] = @ + 1]
  /\ held' = [held EXCEPT ![t] = @ \cup {<<Now(t).table, Mode(Now(t))>>}]
  /\ UNCHANGED <<slot, waits, saved>>

Other(t) == /\ Does(t, "read") \/ Does(t, "write")
            /\ UNCHANGED <<stock, journal, seen, applied>>

ReadStock(t) == /\ Does(t, "readStock")
                /\ seen' = [seen EXCEPT ![t] = Image]
                /\ UNCHANGED <<stock, journal, applied>>

\* setQuantity writes the whole row, with the quantity read before plus one.
Add(t) == /\ Does(t, "add")
          /\ stock' = [stock EXCEPT !["src"] = seen[t].stock["src"] + 1]
          /\ applied' = applied \cup {t}
          /\ UNCHANGED <<journal, seen>>

\* changePackageBox puts the packages it has read into the other box.
Move(t) == /\ Does(t, "move")
           /\ stock' = [src |-> 0, dst |-> stock["dst"] + seen[t].stock["src"]]
           /\ UNCHANGED <<journal, seen, applied>>

Log(t) == /\ Does(t, "log")
          /\ journal' = journal \cup {t}
          /\ UNCHANGED <<stock, seen, applied>>

\* A mutant: a call that is refused is made again until it goes through.
SkippedRetry(t) == pc[t]

\* A read of changePackageBox that throws takes its write with it.
Skipped(t) == IF Now(t).ends = "rest" THEN Len(Calls(t)) + 1
              ELSE IF Work[t] = "move" /\ Now(t).do = "readStock" THEN pc[t] + 2
              ELSE pc[t] + 1

Deadlock(t) ==
  /\ Running(t)
  /\ \E u \in InTheWay(t) : Circle(t, u)
  /\ pc' = [pc EXCEPT ![t] = Skipped(t)]
  /\ UNCHANGED <<locks, stock, journal, saved, seen, applied>>

\* END_GRPC_METHOD: the transaction commits, whatever was swallowed, and those
\* that wait for it try again.
Finish(t) ==
  /\ Open(t) /\ ~InCall(t)
  /\ pc' = [pc EXCEPT ![t] = 0]
  /\ saved' = IF t \in slot THEN Image ELSE saved
  /\ held' = [held EXCEPT ![t] = {}]
  /\ slot' = slot \ {t}
  /\ waits' = [u \in Thread |-> IF waits[u] = t THEN u ELSE waits[u]]
  /\ UNCHANGED <<stock, journal, seen, applied>>

Step(t) == \/ TakeSlot(t) \/ Wait(t) \/ Other(t) \/ ReadStock(t) \/ Add(t)
           \/ Move(t) \/ Log(t) \/ Deadlock(t) \/ Finish(t)

Over == \A t \in Thread : ~Open(t)
Next == (\E t \in Thread : Step(t)) \/ (Over /\ UNCHANGED vars)

Spec == Init /\ [][Next]_vars

\* A thread of the pool that can go on is scheduled.
FairSpec == Spec /\ \A t \in Thread : WF_vars(Step(t))

----------------------------------------------------------------------------

Sum(s) == s["src"] + s["dst"]

\* No addition that was written is lost to another, nor to a move of its box:
\* what the file holds is the quantity of the start and one for each addition
\* that has ended.
NothingLost ==
  Sum(saved.stock) = Start + Cardinality({t \in applied : ~Open(t)})

\* Whoever reads the stock reads what is committed, though the readers and the
\* writers are many; and lsJournal shows entries and packages of one and the
\* same state.
ReadsCommitted ==
  [][\A t \in Thread : ReadStock(t) /\ t \notin slot =>
       /\ stock = saved.stock
       /\ Work[t] = "list" => journal = saved.journal]_vars

\* Every handler ends: nobody waits for ever, for the circle is seen by the
\* one who would close it.
AllEnd == <>Over

\* README.md:587, "Действия сотрудников отмечаются в журнале" (what employees
\* do is marked in the journal): an addition is in the journal when and only
\* when it was made.
AdditionsLogged ==
  \A t \in Thread : Work[t] = "add" /\ ~Open(t) =>
    (t \in applied <=> t \in saved.journal)
=============================================================================
