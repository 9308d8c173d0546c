------------------------------ MODULE TxnProofs ------------------------------
(***************************************************************************)
(* Theorems about concurrent transactions, for any number of threads and   *)
(* whatever handlers they run.                                             *)
(***************************************************************************)
EXTENDS Txn, FiniteSetTheorems, TLAPS

----------------------------------------------------------------------------
(* The inductive invariant.                                                 *)

Images == [stock : [{"src", "dst"} -> Nat], journal : SUBSET Thread]

Typed ==
  /\ \A t \in Thread : pc[t] \in 0 .. Len(Calls(t)) + 1
  /\ pc \in [Thread -> Nat]
  /\ held \in [Thread -> SUBSET (Table \X {"r", "w"})]
  /\ slot = {} \/ \E u \in Thread : slot = {u}
  /\ waits \in [Thread -> Thread]
  /\ Image \in Images /\ saved \in Images
  /\ seen \in [Thread -> Images]
  /\ applied \subseteq Thread

\* Only the one that may write holds a lock for writing, and nobody else holds
\* a lock on that table.
Exclusive ==
  \A u \in Thread, table \in Table : <<table, "w">> \in held[u] =>
    /\ u \in slot
    /\ \A v \in Thread \ {u} : <<table, "r">> \notin held[v]

\* A transaction that has ended holds nothing.
Ended == \A t \in Thread : ~Open(t) => held[t] = {} /\ t \notin slot

\* What differs from the file is locked for writing.
Uncommitted ==
  /\ stock # saved.stock => \E u \in slot : <<"Package", "w">> \in held[u]
  /\ journal # saved.journal => \E u \in slot : <<"Journal", "w">> \in held[u]

\* A handler that is about to write what it computed from a read still holds
\* the lock of the read, and what it read is still true.
AboutToAdd(t) == Work[t] = "add" /\ pc[t] = 3
AboutToMove(t) == Work[t] = "move" /\ pc[t] = 5
AboutToList(t) == Work[t] = "list" /\ pc[t] = 3
StillTrue ==
  \A t \in Thread :
    /\ AboutToAdd(t) \/ AboutToMove(t) =>
         <<"Package", "r">> \in held[t] /\ seen[t].stock = stock
    /\ AboutToAdd(t) => t \notin applied
    /\ AboutToList(t) => <<"Journal", "r">> \in held[t]

\* An addition of an open transaction is that of the one that may write.
OpenAdditions ==
  \A t \in applied : /\ Work[t] = "add" /\ pc[t] \in {0, 4, 5, 6}
                     /\ Open(t) => t \in slot

Counted ==
  /\ Sum(stock) = Start + Cardinality(applied)
  /\ NothingLost

TInv == /\ Typed /\ Exclusive /\ Ended /\ Uncommitted /\ StillTrue
        /\ OpenAdditions /\ Counted

----------------------------------------------------------------------------
(* What the handlers call.                                                  *)

LEMMA HowLong ==
  ASSUME NEW t \in Thread
  PROVE  Len(Calls(t)) \in Nat /\ DOMAIN Calls(t) = 1 .. Len(Calls(t))
  <1>1. Calls(t) \in {AddCards, MoveBoxes, Login, LsJournal}
    BY TxnAssumption DEF Handler, Calls
  <1>2. ASSUME NEW s \in {AddCards, MoveBoxes, Login, LsJournal}
        PROVE  Len(s) \in Nat /\ DOMAIN s = 1 .. Len(s)
    BY DEF AddCards, MoveBoxes, Login, LsJournal
  <1> QED BY <1>1, <1>2

\* When a handler reads the stock and when it writes.
LEMMA WhatItDoes ==
  ASSUME NEW t \in Thread, InCall(t)
  PROVE  /\ Now(t).do = "readStock" <=> \/ Work[t] = "add" /\ pc[t] = 2
                                        \/ Work[t] = "move" /\ pc[t] = 4
                                        \/ Work[t] = "list" /\ pc[t] = 3
         /\ Now(t).do = "add" <=> Work[t] = "add" /\ pc[t] = 3
         /\ Now(t).do = "move" <=> Work[t] = "move" /\ pc[t] = 5
         /\ Work[t] = "add" => pc[t] \in 1 .. 5
  <1> USE TxnAssumption DEF Handler, Call, InCall, Now, Calls
  <1>1. CASE Work[t] = "add"
    <2>1. Calls(t) = AddCards /\ pc[t] \in 1 .. 5
      BY <1>1 DEF AddCards
    <2>2. CASE pc[t] = 1 \/ pc[t] = 2
      BY <1>1, <2>1, <2>2 DEF AddCards
    <2>3. CASE pc[t] = 3
      BY <1>1, <2>1, <2>3 DEF AddCards
    <2>4. CASE pc[t] = 4 \/ pc[t] = 5
      BY <1>1, <2>1, <2>4 DEF AddCards
    <2> QED BY <2>1, <2>2, <2>3, <2>4
  <1>2. CASE Work[t] = "move"
    BY <1>2 DEF MoveBoxes
  <1>3. CASE Work[t] = "login"
    BY <1>3 DEF Login
  <1>4. CASE Work[t] = "list"
    BY <1>4 DEF LsJournal
  <1> QED BY <1>1, <1>2, <1>3, <1>4

LEMMA WhatItUses ==
  ASSUME NEW t \in Thread, InCall(t)
  PROVE  /\ Now(t).table \in Table
         /\ Now(t).do \in {"readStock", "add", "move"} => Now(t).table = "Package"
         /\ Now(t).do = "log" => Now(t).table = "Journal"
         /\ Work[t] = "list" /\ pc[t] = 2 => Now(t).do = "read" /\ Now(t).table = "Journal"
  <1> USE TxnAssumption DEF Handler, Call, InCall, Now, Calls, Table
  <1>1. CASE Work[t] = "add"
    <2>1. Calls(t) = AddCards /\ pc[t] \in 1 .. 5
      BY <1>1 DEF AddCards
    <2>2. CASE pc[t] = 1 \/ pc[t] = 2
      BY <1>1, <2>1, <2>2 DEF AddCards
    <2>3. CASE pc[t] = 3
      BY <1>1, <2>1, <2>3 DEF AddCards
    <2>4. CASE pc[t] = 4 \/ pc[t] = 5
      BY <1>1, <2>1, <2>4 DEF AddCards
    <2> QED BY <2>1, <2>2, <2>3, <2>4
  <1>2. CASE Work[t] = "move"
    BY <1>2 DEF MoveBoxes
  <1>3. CASE Work[t] = "login"
    BY <1>3 DEF Login
  <1>4. CASE Work[t] = "list"
    BY <1>4 DEF LsJournal
  <1> QED BY <1>1, <1>2, <1>3, <1>4

\* Where a handler goes on when a call was refused.
LEMMA WhatIsSkipped ==
  ASSUME NEW t \in Thread, InCall(t)
  PROVE  /\ Skipped(t) \in 1 .. Len(Calls(t)) + 1
         /\ Work[t] = "add" => Skipped(t) \in {4, 5, 6}
         /\ Work[t] = "move" => Skipped(t) # 5
         /\ Work[t] = "list" => Skipped(t) # 3
  <1> USE TxnAssumption DEF Handler, Call, InCall, Now, Calls, Skipped
  <1>1. CASE Work[t] = "add"
    BY <1>1 DEF AddCards
  <1>2. CASE Work[t] = "move"
    BY <1>2 DEF MoveBoxes
  <1>3. CASE Work[t] = "login"
    BY <1>3 DEF Login
  <1>4. CASE Work[t] = "list"
    BY <1>4 DEF LsJournal
  <1> QED BY <1>1, <1>2, <1>3, <1>4

----------------------------------------------------------------------------
(* The initial state.                                                       *)

LEMMA InitTrue == Init => TInv
  <1> SUFFICES ASSUME Init PROVE TInv
    OBVIOUS
  <1> USE TxnAssumption DEF Init
  <1>1. Typed
    <2>1. \A t \in Thread : pc[t] \in 0 .. Len(Calls(t)) + 1
      BY HowLong
    <2>2. Image \in Images
      BY DEF Image, Images
    <2> QED BY <2>1, <2>2 DEF Typed, Table, Handler
  <1>2. Exclusive /\ Ended /\ Uncommitted /\ StillTrue /\ OpenAdditions
    BY DEF Exclusive, Ended, Uncommitted, StillTrue, OpenAdditions, Open, AboutToAdd,
           AboutToMove, AboutToList, Image
  <1>3. Counted
    <2>1. {t \in applied : ~Open(t)} = {} /\ Cardinality(applied) = 0
      BY FS_EmptySet
    <2>2. saved.stock = stock
      BY DEF Image
    <2> QED BY <2>1, <2>2, FS_EmptySet DEF Counted, NothingLost, Sum
  <1> QED BY <1>1, <1>2, <1>3 DEF TInv

----------------------------------------------------------------------------
(* Steps that write nothing.                                                *)

LEMMA TakeSlotStep ==
  ASSUME TInv, NEW t \in Thread, TakeSlot(t) PROVE TInv'
  <1> USE DEF TInv, TakeSlot
  <1>1. Typed' /\ Exclusive' /\ Ended' /\ Uncommitted'
    BY HowLong DEF Typed, Image, Exclusive, Ended, Uncommitted, Open, Running, InCall
  <1>2. StillTrue' /\ OpenAdditions' /\ Counted'
    BY DEF StillTrue, OpenAdditions, Counted, NothingLost, Open, AboutToAdd, AboutToMove,
           AboutToList
  <1> QED BY <1>1, <1>2

LEMMA WaitStep ==
  ASSUME TInv, NEW t \in Thread, Wait(t) PROVE TInv'
  <1> USE DEF TInv, Wait
  <1>1. Typed'
    BY DEF Typed, Image, InTheWay
  <1>2. Exclusive' /\ Ended' /\ Uncommitted' /\ StillTrue' /\ OpenAdditions' /\ Counted'
    BY DEF Exclusive, Ended, Uncommitted, StillTrue, OpenAdditions, Counted, NothingLost,
           Open, AboutToAdd, AboutToMove, AboutToList
  <1> QED BY <1>1, <1>2

LEMMA DeadlockStep ==
  ASSUME TInv, NEW t \in Thread, Deadlock(t) PROVE TInv'
  <1> USE DEF TInv
  <1>1. /\ InCall(t) /\ pc' = [pc EXCEPT ![t] = Skipped(t)]
        /\ UNCHANGED <<held, slot, waits, stock, journal, saved, seen, applied>>
    BY DEF Deadlock, Running, locks
  <1>2. /\ Skipped(t) \in 1 .. Len(Calls(t)) + 1 /\ Skipped(t) \in Nat \ {0}
        /\ Work[t] = "add" => Skipped(t) \in {4, 5, 6}
        /\ Work[t] = "move" => Skipped(t) # 5
        /\ Work[t] = "list" => Skipped(t) # 3
    BY <1>1, WhatIsSkipped, HowLong
  <1>3. Open(t) /\ \A u \in Thread : Open(u) <=> Open(u)'
    BY <1>1, <1>2, HowLong DEF Typed, Open, InCall
  <1>4. Typed'
    <2>1. \A u \in Thread : pc'[u] \in 0 .. Len(Calls(u)) + 1 /\ pc'[u] \in Nat
      BY <1>1, <1>2, HowLong DEF Typed
    <2> QED BY <1>1, <2>1 DEF Typed, Image, Calls
  <1>5. Exclusive' /\ Ended' /\ Uncommitted'
    BY <1>1, <1>3 DEF Exclusive, Ended, Uncommitted
  <1>6. StillTrue' /\ OpenAdditions'
    BY <1>1, <1>2, <1>3 DEF StillTrue, OpenAdditions, AboutToAdd, AboutToMove, AboutToList,
                            Typed
  <1>7. Counted'
    <2>1. {u \in applied : ~Open(u)} = {u \in applied' : ~Open(u)'}
      BY <1>1, <1>3 DEF Typed
    <2> QED BY <1>1, <2>1 DEF Counted, NothingLost
  <1> QED BY <1>4, <1>5, <1>6, <1>7

----------------------------------------------------------------------------
(* Steps that make a call.                                                  *)

\* What holds after a call that goes through.
Called(t, do) ==
  /\ InCall(t) /\ Now(t).do = do /\ Ready(t)
  /\ pc'[t] = 3 <=> pc[t] = 2
  /\ pc'[t] = 4 <=> pc[t] = 3
  /\ pc'[t] = 5 <=> pc[t] = 4
  /\ pc[t] \in {4, 5} => pc'[t] \in {5, 6}
  /\ pc[t] # 0
  /\ \A u \in Thread \ {t} : pc'[u] = pc[u] /\ held'[u] = held[u]
  /\ \A u \in Thread : (Open(u) <=> Open(u)') /\ held[u] \subseteq held'[u]
  /\ <<Now(t).table, Mode(Now(t))>> \in held'[t]
  /\ ~Reads(Now(t)) => t \in slot
  /\ \A u \in Thread : pc'[u] \in 0 .. Len(Calls(u)) + 1
  /\ pc' \in [Thread -> Nat]
  /\ held' \in [Thread -> SUBSET (Table \X {"r", "w"})]
  /\ slot' = slot /\ waits' = waits /\ saved' = saved
  /\ Exclusive' /\ Ended'

LEMMA CallMade ==
  ASSUME TInv, NEW t \in Thread, NEW do, Does(t, do) PROVE Called(t, do)
  <1>1. /\ InCall(t) /\ Now(t).do = do /\ Ready(t)
        /\ pc' = [pc EXCEPT ![t] = @ + 1]
        /\ held' = [held EXCEPT ![t] = @ \cup {<<Now(t).table, Mode(Now(t))>>}]
        /\ UNCHANGED <<slot, waits, saved>>
        /\ ~Reads(Now(t)) => t \in slot
    BY DEF Does, Ready, Running
  <1>9. pc[t] \in 1 .. Len(Calls(t))
    BY <1>1, HowLong DEF InCall
  <1>2. /\ pc \in [Thread -> Nat] /\ pc[t] \in 1 .. Len(Calls(t))
        /\ held \in [Thread -> SUBSET (Table \X {"r", "w"})]
        /\ \A u \in Thread : pc[u] \in 0 .. Len(Calls(u)) + 1
        /\ Now(t).table \in Table /\ Mode(Now(t)) \in {"r", "w"}
        /\ Len(Calls(t)) \in Nat
    BY <1>1, <1>9, WhatItUses, HowLong DEF TInv, Typed, Mode
  <1>3. /\ pc'[t] = pc[t] + 1 /\ pc[t] # 0
        /\ \A u \in Thread \ {t} : pc'[u] = pc[u] /\ held'[u] = held[u]
        /\ held'[t] = held[t] \cup {<<Now(t).table, Mode(Now(t))>>}
        /\ pc' \in [Thread -> Nat]
        /\ \A u \in Thread : pc'[u] \in 0 .. Len(Calls(u)) + 1
    BY <1>1, <1>2
  <1>8. /\ pc'[t] = 3 <=> pc[t] = 2
        /\ pc'[t] = 4 <=> pc[t] = 3
        /\ pc'[t] = 5 <=> pc[t] = 4
        /\ pc[t] \in {4, 5} => pc'[t] \in {5, 6}
    BY <1>2, <1>3
  <1>4. held' \in [Thread -> SUBSET (Table \X {"r", "w"})]
    <2>1. <<Now(t).table, Mode(Now(t))>> \in Table \X {"r", "w"}
      BY <1>2
    <2> QED BY <1>1, <1>2, <2>1
  <1>5. \A u \in Thread : (Open(u) <=> Open(u)') /\ held[u] \subseteq held'[u]
    BY <1>2, <1>3 DEF Open
  <1>6. Exclusive'
    <2> SUFFICES ASSUME NEW u \in Thread, NEW table \in Table,
                        <<table, "w">> \in held'[u]
                 PROVE  /\ u \in slot
                        /\ \A v \in Thread \ {u} : <<table, "r">> \notin held'[v]
      BY <1>1 DEF Exclusive
    <2>1. \A v \in Thread \ {t} :
            /\ <<Now(t).table, "w">> \notin held[v]
            /\ Mode(Now(t)) = "w" => <<Now(t).table, "r">> \notin held[v]
      BY <1>1 DEF Ready, InTheWay, Locks, Mode
    <2>2. CASE <<table, "w">> \in held[u]
      <3>1. u \in slot /\ \A v \in Thread \ {u} : <<table, "r">> \notin held[v]
        BY <2>2 DEF TInv, Exclusive
      <3>2. u # t => <<Now(t).table, Mode(Now(t))>> # <<table, "r">>
        BY <2>1, <2>2
      <3> QED BY <1>3, <3>1, <3>2
    <2>3. CASE <<table, "w">> \notin held[u]
      <3>1. u = t /\ table = Now(t).table /\ Mode(Now(t)) = "w"
        BY <1>3, <2>3
      <3> QED BY <1>1, <1>3, <2>1, <3>1 DEF Mode
    <2> QED BY <2>2, <2>3
  <1>7. Ended'
    BY <1>1, <1>3, <1>5 DEF TInv, Ended, Open
  <1> QED BY <1>1, <1>2, <1>3, <1>4, <1>5, <1>6, <1>7, <1>8 DEF Called

\* Who writes the packages has nobody beside who is about to.
LEMMA Alone ==
  ASSUME TInv, NEW t \in Thread, NEW do \in {"add", "move"}, Called(t, do)
  PROVE  /\ slot = {t} /\ <<"Package", "w">> \in held'[t]
         /\ \A u \in Thread \ {t} : ~AboutToAdd(u) /\ ~AboutToMove(u)
         /\ seen[t].stock = stock
  <1>1. /\ InCall(t) /\ Now(t).do = do /\ Ready(t)
        /\ <<Now(t).table, Mode(Now(t))>> \in held'[t]
    BY DEF Called
  <1>2. Now(t).table = "Package" /\ ~Reads(Now(t)) /\ Mode(Now(t)) = "w"
    BY <1>1, WhatItUses DEF Reads, Mode
  <1>3. t \in slot /\ \A u \in Thread \ {t} : <<"Package", "r">> \notin held[u]
    BY <1>1, <1>2 DEF Ready, InTheWay, Locks
  <1>4. AboutToAdd(t) \/ AboutToMove(t)
    BY <1>1, WhatItDoes DEF AboutToAdd, AboutToMove
  <1> QED BY <1>1, <1>2, <1>3, <1>4 DEF TInv, Typed, StillTrue

\* A step of t leaves the others where they are.
LEMMA OthersWhereTheyWere ==
  ASSUME NEW t \in Thread, NEW do, Called(t, do), NEW u \in Thread \ {t}
  PROVE  /\ AboutToAdd(u)' <=> AboutToAdd(u)
         /\ AboutToMove(u)' <=> AboutToMove(u)
         /\ AboutToList(u)' <=> AboutToList(u)
         /\ held'[u] = held[u]
  <1>1. pc'[u] = pc[u] /\ held'[u] = held[u]
    BY DEF Called
  <1> QED BY <1>1 DEF AboutToAdd, AboutToMove, AboutToList

\* After a read of the stock, and only then, a handler is about to write.
LEMMA NotYet ==
  ASSUME NEW t \in Thread, NEW do, Called(t, do)
  PROVE  /\ do # "readStock" => ~AboutToAdd(t)' /\ ~AboutToMove(t)'
         /\ AboutToList(t)' => <<"Journal", "r">> \in held'[t] /\ do = "read"
  <1>1. /\ InCall(t) /\ Now(t).do = do
        /\ pc'[t] = 3 <=> pc[t] = 2
        /\ pc'[t] = 5 <=> pc[t] = 4
        /\ <<Now(t).table, Mode(Now(t))>> \in held'[t]
    BY DEF Called
  <1>2. do # "readStock" => ~AboutToAdd(t)' /\ ~AboutToMove(t)'
    BY <1>1, WhatItDoes DEF AboutToAdd, AboutToMove
  <1>3. AboutToList(t)' => Now(t).table = "Journal" /\ Now(t).do = "read"
    BY <1>1, WhatItUses DEF AboutToList
  <1> QED BY <1>1, <1>2, <1>3 DEF Mode, Reads

\* A call that leaves the stock and what was read alone.
LEMMA AfterOther ==
  ASSUME TInv, NEW t \in Thread, NEW do, Called(t, do), do # "readStock",
         UNCHANGED <<stock, seen, applied>>
  PROVE  StillTrue'
  <1>1. /\ ~AboutToAdd(t)' /\ ~AboutToMove(t)'
        /\ AboutToList(t)' => <<"Journal", "r">> \in held'[t]
    BY NotYet
  <1>2. ASSUME NEW u \in Thread \ {t}
        PROVE  /\ AboutToAdd(u)' <=> AboutToAdd(u)
               /\ AboutToMove(u)' <=> AboutToMove(u)
               /\ AboutToList(u)' <=> AboutToList(u)
               /\ held'[u] = held[u]
    BY OthersWhereTheyWere
  <1> QED BY <1>1, <1>2 DEF TInv, StillTrue

LEMMA AdditionsStay ==
  ASSUME TInv, NEW t \in Thread, NEW do, Called(t, do), do # "add", UNCHANGED applied
  PROVE  /\ OpenAdditions'
         /\ {u \in applied : ~Open(u)} = {u \in applied' : ~Open(u)'}
  <1>1. /\ InCall(t) /\ Now(t).do = do /\ pc[t] # 0 /\ slot' = slot
        /\ pc[t] \in {4, 5} => pc'[t] \in {5, 6}
        /\ \A u \in Thread \ {t} : pc'[u] = pc[u]
        /\ \A u \in Thread : Open(u) <=> Open(u)'
    BY DEF Called
  <1>2. t \in applied => Work[t] = "add" /\ pc'[t] \in {5, 6}
    BY <1>1, WhatItDoes DEF TInv, OpenAdditions
  <1>3. OpenAdditions'
    BY <1>1, <1>2 DEF TInv, Typed, OpenAdditions
  <1>4. {u \in applied : ~Open(u)} = {u \in applied' : ~Open(u)'}
    BY <1>1 DEF TInv, Typed
  <1> QED BY <1>3, <1>4

LEMMA OtherStep ==
  ASSUME TInv, NEW t \in Thread, Other(t) PROVE TInv'
  <1>1. PICK do \in {"read", "write"} : Does(t, do)
    BY DEF Other
  <1>2. Called(t, do) /\ UNCHANGED <<stock, journal, seen, applied, slot, waits, saved>>
    BY <1>1, CallMade DEF Other, Does
  <1>3. Typed' /\ Exclusive' /\ Ended'
    BY <1>2 DEF Called, TInv, Typed, Image, Calls
  <1>4. Uncommitted'
    BY <1>2 DEF Called, TInv, Typed, Uncommitted
  <1>5. StillTrue'
    BY <1>2, AfterOther
  <1>6. OpenAdditions' /\ Counted'
    BY <1>2, AdditionsStay DEF TInv, Counted, NothingLost
  <1> QED BY <1>3, <1>4, <1>5, <1>6 DEF TInv

LEMMA ReadStockStep ==
  ASSUME TInv, NEW t \in Thread, ReadStock(t) PROVE TInv'
  <1>1. /\ Called(t, "readStock") /\ seen' = [seen EXCEPT ![t] = Image]
        /\ UNCHANGED <<stock, journal, applied, slot, waits, saved>>
    BY CallMade DEF ReadStock, Does
  <1>2. /\ InCall(t) /\ Now(t).do = "readStock"
        /\ pc'[t] = 3 <=> pc[t] = 2
        /\ <<Now(t).table, Mode(Now(t))>> \in held'[t]
    BY <1>1 DEF Called
  <1>3. Typed' /\ Exclusive' /\ Ended'
    BY <1>1 DEF Called, TInv, Typed, Image, Calls
  <1>4. Uncommitted'
    BY <1>1 DEF Called, TInv, Typed, Uncommitted
  <1>5. StillTrue'
    <2>1. <<"Package", "r">> \in held'[t] /\ seen'[t].stock = stock
      BY <1>1, <1>2, WhatItUses DEF Mode, Reads, TInv, Typed, Image
    <2>2. AboutToAdd(t)' => t \notin applied'
      BY <1>1, <1>2 DEF TInv, OpenAdditions, AboutToAdd
    <2>3. ~AboutToList(t)'
      BY <1>1, NotYet
    <2>4. ASSUME NEW u \in Thread \ {t}
          PROVE  /\ AboutToAdd(u)' <=> AboutToAdd(u)
                 /\ AboutToMove(u)' <=> AboutToMove(u)
                 /\ AboutToList(u)' <=> AboutToList(u)
                 /\ held'[u] = held[u]
      BY <1>1, OthersWhereTheyWere
    <2>5. \A u \in Thread \ {t} : seen'[u] = seen[u]
      BY <1>1 DEF TInv, Typed
    <2> QED BY <1>1, <2>1, <2>2, <2>3, <2>4, <2>5 DEF TInv, StillTrue
  <1>6. OpenAdditions' /\ Counted'
    BY <1>1, AdditionsStay DEF TInv, Counted, NothingLost
  <1> QED BY <1>3, <1>4, <1>5, <1>6 DEF TInv

LEMMA LogStep ==
  ASSUME TInv, NEW t \in Thread, Log(t) PROVE TInv'
  <1>1. /\ Called(t, "log") /\ journal' = journal \cup {t}
        /\ UNCHANGED <<stock, seen, applied, slot, waits, saved>>
    BY CallMade DEF Log, Does
  <1>2. /\ InCall(t) /\ Now(t).do = "log" /\ (~Reads(Now(t)) => t \in slot)
        /\ <<Now(t).table, Mode(Now(t))>> \in held'[t]
    BY <1>1 DEF Called
  <1>3. Typed' /\ Exclusive' /\ Ended'
    BY <1>1 DEF Called, TInv, Typed, Image, Images, Calls
  <1>4. Uncommitted'
    <2>1. t \in slot /\ <<"Journal", "w">> \in held'[t]
      BY <1>2, WhatItUses DEF Mode, Reads
    <2> QED BY <1>1, <2>1 DEF Called, TInv, Typed, Uncommitted
  <1>5. StillTrue'
    BY <1>1, AfterOther
  <1>6. OpenAdditions' /\ Counted'
    BY <1>1, AdditionsStay DEF TInv, Counted, NothingLost
  <1> QED BY <1>3, <1>4, <1>5, <1>6 DEF TInv

\* A step that writes the packages.
LEMMA AfterWrite ==
  ASSUME TInv, NEW t \in Thread, NEW do \in {"add", "move"}, Called(t, do),
         UNCHANGED <<journal, seen>>, applied' \in {applied, applied \cup {t}}
  PROVE  /\ Uncommitted' /\ StillTrue'
         /\ t \in slot /\ seen[t].stock = stock
  <1>1. /\ slot = {t} /\ seen[t].stock = stock /\ <<"Package", "w">> \in held'[t]
        /\ \A u \in Thread \ {t} : ~AboutToAdd(u) /\ ~AboutToMove(u)
    BY Alone
  <1>2. slot' = slot /\ saved' = saved /\ \A u \in Thread : held[u] \subseteq held'[u]
    BY DEF Called
  <1>3. Uncommitted'
    BY <1>1, <1>2 DEF TInv, Uncommitted
  <1>4. ~AboutToAdd(t)' /\ ~AboutToMove(t)' /\ ~AboutToList(t)'
    BY NotYet
  <1>5. ASSUME NEW u \in Thread \ {t}
        PROVE  /\ AboutToAdd(u)' <=> AboutToAdd(u)
               /\ AboutToMove(u)' <=> AboutToMove(u)
               /\ AboutToList(u)' <=> AboutToList(u)
    BY OthersWhereTheyWere
  <1>6. StillTrue'
    BY <1>1, <1>2, <1>4, <1>5 DEF TInv, StillTrue
  <1> QED BY <1>1, <1>3, <1>6

LEMMA AddStep ==
  ASSUME TInv, NEW t \in Thread, Add(t) PROVE TInv'
  <1>1. /\ Called(t, "add") /\ UNCHANGED <<journal, seen, waits, slot, saved>>
        /\ stock' = [stock EXCEPT !["src"] = seen[t].stock["src"] + 1]
        /\ applied' = applied \cup {t}
    BY CallMade DEF Add, Does
  <1>2. Uncommitted' /\ StillTrue' /\ t \in slot /\ seen[t].stock = stock
    BY <1>1, AfterWrite
  <1>3. /\ stock \in [{"src", "dst"} -> Nat]
        /\ stock' \in [{"src", "dst"} -> Nat]
        /\ Sum(stock') = Sum(stock) + 1
    BY <1>1, <1>2 DEF TInv, Typed, Image, Images, Sum
  <1>4. Typed' /\ Exclusive' /\ Ended'
    BY <1>1, <1>3 DEF Called, TInv, Typed, Image, Images, Calls
  <1>5. t \notin applied /\ Work[t] = "add" /\ pc[t] = 3 /\ pc'[t] = 4
    <2>1. InCall(t) /\ Now(t).do = "add" /\ (pc'[t] = 4 <=> pc[t] = 3)
      BY <1>1 DEF Called
    <2> QED BY <2>1, WhatItDoes DEF TInv, StillTrue, AboutToAdd
  <1>6. /\ \A u \in Thread \ {t} : pc'[u] = pc[u]
        /\ \A u \in Thread : Open(u) <=> Open(u)'
    BY <1>1 DEF Called
  <1>7. OpenAdditions'
    BY <1>1, <1>2, <1>5, <1>6 DEF TInv, Typed, OpenAdditions
  <1>8. Counted'
    <2>1. {u \in applied : ~Open(u)} = {u \in applied' : ~Open(u)'}
      BY <1>1, <1>5, <1>6 DEF TInv, Typed, Open
    <2>2. IsFiniteSet(applied)
      BY TxnAssumption, FS_Subset DEF TInv, Typed
    <2>3. Cardinality(applied') = Cardinality(applied) + 1 /\ Cardinality(applied) \in Nat
      BY <1>1, <1>5, <2>2, FS_AddElement, FS_CardinalityType
    <2>4. Sum(stock') = Start + Cardinality(applied')
      BY <1>3, <2>3, TxnAssumption DEF TInv, Counted
    <2>5. NothingLost'
      BY <1>1, <2>1 DEF TInv, Counted, NothingLost
    <2> QED BY <2>4, <2>5 DEF Counted
  <1> QED BY <1>2, <1>4, <1>7, <1>8 DEF TInv

LEMMA MoveStep ==
  ASSUME TInv, NEW t \in Thread, Move(t) PROVE TInv'
  <1>1. /\ Called(t, "move") /\ UNCHANGED <<journal, seen, applied, waits, slot, saved>>
        /\ stock' = [src |-> 0, dst |-> stock["dst"] + seen[t].stock["src"]]
    BY CallMade DEF Move, Does
  <1>2. Uncommitted' /\ StillTrue' /\ t \in slot /\ seen[t].stock = stock
    BY <1>1, AfterWrite
  <1>3. /\ stock' \in [{"src", "dst"} -> Nat]
        /\ Sum(stock') = Sum(stock)
    BY <1>1, <1>2 DEF TInv, Typed, Image, Images, Sum
  <1>4. Typed' /\ Exclusive' /\ Ended'
    BY <1>1, <1>3 DEF Called, TInv, Typed, Image, Images, Calls
  <1>5. OpenAdditions' /\ {u \in applied : ~Open(u)} = {u \in applied' : ~Open(u)'}
    BY <1>1, AdditionsStay
  <1>6. Counted'
    <2>1. Sum(stock') = Start + Cardinality(applied')
      BY <1>1, <1>3 DEF TInv, Counted
    <2>2. NothingLost'
      BY <1>1, <1>5 DEF TInv, Counted, NothingLost
    <2> QED BY <2>1, <2>2 DEF Counted
  <1> QED BY <1>2, <1>4, <1>5, <1>6 DEF TInv

----------------------------------------------------------------------------
(* The end of a transaction.                                                *)

LEMMA FinishStep ==
  ASSUME TInv, NEW t \in Thread, Finish(t) PROVE TInv'
  <1>1. /\ Open(t) /\ ~InCall(t)
        /\ pc' = [pc EXCEPT ![t] = 0] /\ held' = [held EXCEPT ![t] = {}]
        /\ slot' = slot \ {t}
        /\ saved' = IF t \in slot THEN Image ELSE saved
        /\ waits' = [u \in Thread |-> IF waits[u] = t THEN u ELSE waits[u]]
        /\ UNCHANGED <<stock, journal, seen, applied>>
    BY DEF Finish
  <1>2. /\ pc'[t] = 0 /\ held'[t] = {}
        /\ \A u \in Thread \ {t} : pc'[u] = pc[u] /\ held'[u] = held[u]
        /\ \A u \in Thread \ {t} : Open(u)' <=> Open(u)
        /\ ~Open(t)'
        /\ t \in slot => slot = {t}
    BY <1>1 DEF TInv, Typed, Open
  <1>3. Typed'
    <2>1. \A u \in Thread : pc'[u] \in 0 .. Len(Calls(u)) + 1 /\ pc'[u] \in Nat
      <3>1. pc'[t] \in 0 .. Len(Calls(t)) + 1
        BY <1>2, HowLong
      <3>2. \A u \in Thread \ {t} : pc'[u] \in 0 .. Len(Calls(u)) + 1
        BY <1>2 DEF TInv, Typed
      <3> QED BY <3>1, <3>2, HowLong
    <2>4. pc' \in [Thread -> Nat]
      BY <1>1 DEF TInv, Typed
    <2>2. Image' = Image /\ Image \in Images /\ saved' \in Images
      BY <1>1 DEF TInv, Typed, Image
    <2>3. /\ held' \in [Thread -> SUBSET (Table \X {"r", "w"})]
          /\ waits' \in [Thread -> Thread]
          /\ slot' = {} \/ \E u \in Thread : slot' = {u}
      BY <1>1 DEF TInv, Typed
    <2> QED BY <1>1, <2>1, <2>2, <2>3, <2>4 DEF TInv, Typed, Calls
  <1>4. Exclusive'
    BY <1>1, <1>2 DEF TInv, Exclusive
  <1>5. Ended'
    BY <1>1, <1>2 DEF TInv, Ended
  <1>6. Uncommitted'
    BY <1>1, <1>2 DEF TInv, Uncommitted, Image
  <1>7. StillTrue'
    <2>1. ~AboutToAdd(t)' /\ ~AboutToMove(t)' /\ ~AboutToList(t)'
      BY <1>2 DEF AboutToAdd, AboutToMove, AboutToList
    <2>2. ASSUME NEW u \in Thread \ {t}
          PROVE  /\ AboutToAdd(u)' <=> AboutToAdd(u)
                 /\ AboutToMove(u)' <=> AboutToMove(u)
                 /\ AboutToList(u)' <=> AboutToList(u)
      BY <1>2 DEF AboutToAdd, AboutToMove, AboutToList
    <2> QED BY <1>1, <1>2, <2>1, <2>2 DEF TInv, StillTrue
  <1>8. OpenAdditions'
    BY <1>1, <1>2 DEF TInv, Typed, OpenAdditions
  <1>9. Counted'
    <2>1. CASE t \in slot
      <3>1. {u \in applied' : ~Open(u)'} = applied
        <4>1. \A u \in applied : ~Open(u)'
          BY <1>2, <2>1 DEF TInv, Typed, OpenAdditions
        <4> QED BY <1>1, <4>1
      <3>2. saved'.stock = stock
        BY <1>1, <2>1 DEF Image
      <3> QED BY <1>1, <3>1, <3>2 DEF TInv, Counted, NothingLost
    <2>2. CASE t \notin slot
      <3>1. t \notin applied
        BY <1>1, <2>2 DEF TInv, OpenAdditions
      <3>2. {u \in applied' : ~Open(u)'} = {u \in applied : ~Open(u)}
        BY <1>1, <1>2, <3>1 DEF TInv, Typed
      <3> QED BY <1>1, <2>2, <3>2 DEF TInv, Counted, NothingLost
    <2> QED BY <2>1, <2>2
  <1> QED BY <1>3, <1>4, <1>5, <1>6, <1>7, <1>8, <1>9 DEF TInv

LEMMA StutterTrue == TInv /\ UNCHANGED vars => TInv'
  <1> SUFFICES ASSUME TInv, UNCHANGED vars PROVE TInv'
    OBVIOUS
  <1> USE DEF TInv, vars, locks
  <1>1. Typed'
    BY DEF Typed, Image, Calls
  <1>2. Exclusive' /\ Ended' /\ Uncommitted'
    BY DEF Exclusive, Ended, Uncommitted, Open
  <1>3. StillTrue' /\ OpenAdditions'
    BY DEF StillTrue, OpenAdditions, Open, AboutToAdd, AboutToMove, AboutToList
  <1>4. Counted'
    BY DEF Counted, NothingLost, Open
  <1> QED BY <1>1, <1>2, <1>3, <1>4

LEMMA StepTrue == TInv /\ [Next]_vars => TInv'
  <1>1. ASSUME TInv, NEW t \in Thread, Step(t) PROVE TInv'
    BY <1>1, TakeSlotStep, WaitStep, OtherStep, ReadStockStep, AddStep, MoveStep, LogStep,
       DeadlockStep, FinishStep DEF Step
  <1> QED BY <1>1, StutterTrue DEF Next

LEMMA Always == Spec => []TInv
  BY InitTrue, StepTrue, PTL DEF Spec

----------------------------------------------------------------------------
(* The theorems.                                                            *)

\* Additions of any number of threads (cardQuery "+": getQuantity, then
\* setQuantity of what it read plus the count) and a move of the box beside
\* them: none is lost, whatever calls are refused with a deadlock.
THEOREM NoAdditionLost == Spec => []NothingLost
  <1>1. TInv => NothingLost
    BY DEF TInv, Counted
  <1> QED BY <1>1, Always, PTL

\* Slots, locks, waits and stock keep their types.
THEOREM TypeCorrect == Spec => []TypeOK
  <1>1. TInv => TypeOK
    <2> SUFFICES ASSUME TInv PROVE TypeOK
      OBVIOUS
    <2>1. Cardinality(slot) <= 1
      <3>1. CASE slot = {}
        BY <3>1, FS_EmptySet
      <3>2. CASE \E u \in Thread : slot = {u}
        BY <3>2, FS_Singleton
      <3> QED BY <3>1, <3>2 DEF TInv, Typed
    <2> QED BY <2>1 DEF TInv, Typed, TypeOK, Image, Images
  <1> QED BY <1>1, Always, PTL

\* What another transaction has not committed is never read, and lsJournal
\* reads entries and packages of one and the same state.
THEOREM OnlyCommittedIsRead == Spec => ReadsCommitted
  <1> DEFINE Reading == \A t \in Thread : ReadStock(t) /\ t \notin slot =>
                          /\ stock = saved.stock
                          /\ Work[t] = "list" => journal = saved.journal
  <1>1. TInv /\ [Next]_vars => [Reading]_vars
    <2> SUFFICES ASSUME TInv, NEW t \in Thread, ReadStock(t), t \notin slot
                 PROVE  /\ stock = saved.stock
                        /\ Work[t] = "list" => journal = saved.journal
      OBVIOUS
    <2>1. Called(t, "readStock")
      BY CallMade DEF ReadStock
    <2>2. InCall(t) /\ Now(t).do = "readStock" /\ Ready(t)
      BY <2>1 DEF Called
    <2>3. Now(t).table = "Package" /\ Reads(Now(t))
      BY <2>2, WhatItUses DEF Reads
    <2>4. \A u \in Thread \ {t} : <<"Package", "w">> \notin held[u]
      BY <2>2, <2>3 DEF Ready, InTheWay, Locks
    <2>5. stock = saved.stock
      BY <2>4 DEF TInv, Typed, Uncommitted
    <2>6. ASSUME Work[t] = "list" PROVE journal = saved.journal
      <3>1. <<"Journal", "r">> \in held[t]
        BY <2>2, <2>6, WhatItDoes DEF TInv, StillTrue, AboutToList
      <3>2. \A u \in Thread \ {t} : <<"Journal", "w">> \notin held[u]
        BY <3>1 DEF TInv, Exclusive, Table
      <3> QED BY <3>2 DEF TInv, Typed, Uncommitted
    <2> QED BY <2>5, <2>6
  <1> QED BY <1>1, Always, PTL DEF Spec, ReadsCommitted
=============================================================================
