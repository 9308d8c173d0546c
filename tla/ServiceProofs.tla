---------------------------- MODULE ServiceProofs ----------------------------
(***************************************************************************)
(* Theorems about the life of the process, for any number of threads,      *)
(* signals and cleans.                                                     *)
(***************************************************************************)
EXTENDS Service, TLAPS

----------------------------------------------------------------------------
(* The inductive invariant.                                                 *)

LastSteps == {"done", "stopWS", "join", "delete"}
MainSteps == {"new", "http", "grpc", "wait", "done", "stopWS", "join", "delete",
              "exit", "crashed"}
SignalSteps == {"none", "stopNWait", "drain"} \cup LastSteps

\* TypeOK with the types it leaves out.
Typed ==
  /\ TypeOK
  /\ pc \in [Frame -> MainSteps \cup SignalSteps]
  /\ stopped \in Nat

\* How far main is says what the gRPC server may be.
MainKnows ==
  /\ pc["main"] \in {"new", "http", "grpc"} => server = "null"
  /\ pc["main"] \in {"new", "http"} => descriptor = "null"
  /\ pc["main"] \notin {"stopWS", "join"}
  /\ pc["main"] \in {"done", "delete"} => server \in {"null", "down"}

\* The signal handler takes the gRPC server down before it does anything
\* else, and is the only one to do so; so it is the one who stops the HTTP
\* server, and after it there is neither server nor service.
SignalKnows ==
  /\ server = "closing" <=> pc["signal"] = "drain"
  /\ pc["signal"] \in LastSteps => server = "down"
  /\ descriptor = "closing" <=> pc["signal"] = "join"
  /\ pc["signal"] = "stopWS" => descriptor = "up"
  /\ pc["signal"] = "delete" => descriptor = "null"
  /\ pc["main"] = "delete" => server = "down" /\ descriptor = "null"
  /\ server = "down" /\ pc["signal"] \notin LastSteps =>
       descriptor = "null" /\ service = "null"

\* What is stopped is down, or about to be.
Stopped ==
  /\ server = "null" => stopped = 0
  /\ descriptor = "up" => stopped = 0
  /\ stopped <= 1

\* The service goes when both servers have gone, and they go when their
\* threads are idle.
Drained ==
  Lives =>
    /\ \A w \in Grpc : work[w] # "idle" => server \in {"up", "closing"}
    /\ \A w \in Http : work[w] # "idle" => descriptor # "null"
    /\ service = "null" => pc["main"] = "new" \/ (server = "down" /\ descriptor = "null")

\* A handler nothing disturbs has no clean beside it, and the database is
\* closed by a clean only.
Undisturbed ==
  Lives =>
    /\ \A w, v \in Worker : work[w] = "handler" /\ w \notin disturbed => work[v] # "clean"
    /\ mDb = "deleted" => service = "null" \/ \E v \in Worker : work[v] = "clean"

\* A clean nothing disturbs runs alone, and what it has emptied is empty.
Emptied ==
  Lives => \A w \in Worker \ disturbed : work[w] = "clean" =>
    /\ \A v \in Worker \ {w} : work[v] = "idle"
    /\ \A n \in DOMAIN Cleaned : n < next[w] => Cleaned[n] \notin full

SInv == Typed /\ MainKnows /\ SignalKnows /\ Stopped /\ Drained /\ Undisturbed /\ Emptied

----------------------------------------------------------------------------
(* The initial state.                                                       *)

LEMMA InitTrue == Init => SInv
  <1> SUFFICES ASSUME Init PROVE SInv
    OBVIOUS
  <1> USE DEF Init
  <1>1. Typed
    BY ServiceAssumption DEF Typed, TypeOK, Frame, MainSteps, SignalSteps,
                             LastSteps, Worker, Table, Cleaned
  <1>2. MainKnows /\ SignalKnows /\ Stopped
    BY DEF MainKnows, SignalKnows, LastSteps, Stopped
  <1>3. Drained /\ Undisturbed /\ Emptied
    BY DEF Drained, Undisturbed, Emptied, Worker
  <1> QED BY <1>1, <1>2, <1>3 DEF SInv

----------------------------------------------------------------------------
(* The steps of main and of the signal handler.                             *)

LEMMA NewServiceStep ==
  ASSUME SInv, NewService PROVE SInv'
  <1> USE DEF SInv, NewService, At, Goto, Lives, process, workers
  <1>1. Typed'
    BY ServiceAssumption DEF Typed, TypeOK, Frame, MainSteps, SignalSteps, LastSteps
  <1>2. MainKnows'
    BY DEF Typed, Frame, MainKnows, SignalKnows, LastSteps, MainSteps, SignalSteps
  <1>3. SignalKnows'
    BY DEF Typed, TypeOK, Frame, MainKnows, SignalKnows, LastSteps, MainSteps, SignalSteps
  <1>4. Stopped'
    BY DEF Typed, TypeOK, Frame, MainKnows, SignalKnows, Stopped, LastSteps
  <1>5. Drained'
    BY DEF Typed, TypeOK, Frame, MainKnows, SignalKnows, Drained, LastSteps, Busy, Worker
  <1>6. Undisturbed' /\ Emptied'
    BY DEF Typed, TypeOK, Frame, MainKnows, SignalKnows, Undisturbed, Emptied, LastSteps
  <1> QED BY <1>1, <1>2, <1>3, <1>4, <1>5, <1>6

LEMMA RunHttpJsonStep ==
  ASSUME SInv, RunHttpJson PROVE SInv'
  <1> USE DEF SInv, RunHttpJson, At, Goto, Lives, process, workers
  <1>1. Typed'
    BY ServiceAssumption DEF Typed, TypeOK, Frame, MainSteps, SignalSteps, LastSteps
  <1>2. MainKnows'
    BY DEF Typed, Frame, MainKnows, SignalKnows, LastSteps, MainSteps, SignalSteps
  <1>3. SignalKnows'
    BY DEF Typed, TypeOK, Frame, MainKnows, SignalKnows, LastSteps, MainSteps, SignalSteps
  <1>4. Stopped'
    BY DEF Typed, TypeOK, Frame, MainKnows, SignalKnows, Stopped, LastSteps
  <1>5. Drained'
    BY DEF Typed, TypeOK, Frame, MainKnows, SignalKnows, Drained, LastSteps, Busy, Worker
  <1>6. Undisturbed' /\ Emptied'
    BY DEF Typed, TypeOK, Frame, MainKnows, SignalKnows, Undisturbed, Emptied, LastSteps
  <1> QED BY <1>1, <1>2, <1>3, <1>4, <1>5, <1>6

LEMMA RunGrpcStep ==
  ASSUME SInv, RunGrpc PROVE SInv'
  <1> USE DEF SInv, RunGrpc, At, Goto, Lives, process, workers
  <1>1. Typed'
    BY ServiceAssumption DEF Typed, TypeOK, Frame, MainSteps, SignalSteps, LastSteps
  <1>2. MainKnows'
    BY DEF Typed, Frame, MainKnows, SignalKnows, LastSteps, MainSteps, SignalSteps
  <1>3. SignalKnows'
    BY DEF Typed, TypeOK, Frame, MainKnows, SignalKnows, LastSteps, MainSteps, SignalSteps
  <1>4. Stopped'
    BY DEF Typed, TypeOK, Frame, MainKnows, SignalKnows, Stopped, LastSteps
  <1>5. Drained'
    BY DEF Typed, TypeOK, Frame, MainKnows, SignalKnows, Drained, LastSteps, Busy, Worker
  <1>6. Undisturbed' /\ Emptied'
    BY DEF Typed, TypeOK, Frame, MainKnows, SignalKnows, Undisturbed, Emptied, LastSteps
  <1> QED BY <1>1, <1>2, <1>3, <1>4, <1>5, <1>6

LEMMA WaitEndsStep ==
  ASSUME SInv, WaitEnds PROVE SInv'
  <1> USE DEF SInv, WaitEnds, At, Goto, Lives, process, workers
  <1>1. Typed'
    BY ServiceAssumption DEF Typed, TypeOK, Frame, MainSteps, SignalSteps, LastSteps
  <1>2. MainKnows'
    BY DEF Typed, Frame, MainKnows, SignalKnows, LastSteps, MainSteps, SignalSteps
  <1>3. SignalKnows'
    BY DEF Typed, TypeOK, Frame, MainKnows, SignalKnows, LastSteps, MainSteps, SignalSteps
  <1>4. Stopped'
    BY DEF Typed, TypeOK, Frame, MainKnows, SignalKnows, Stopped, LastSteps
  <1>5. Drained'
    BY DEF Typed, TypeOK, Frame, MainKnows, SignalKnows, Drained, LastSteps, Busy, Worker
  <1>6. Undisturbed' /\ Emptied'
    BY DEF Typed, TypeOK, Frame, MainKnows, SignalKnows, Undisturbed, Emptied, LastSteps
  <1> QED BY <1>1, <1>2, <1>3, <1>4, <1>5, <1>6

LEMMA SignalStep ==
  ASSUME SInv, Signal PROVE SInv'
  <1> USE DEF SInv, Signal, At, Goto, Lives, process, workers
  <1>1. Typed'
    BY ServiceAssumption DEF Typed, TypeOK, Frame, MainSteps, SignalSteps, LastSteps
  <1>2. MainKnows'
    BY DEF Typed, Frame, MainKnows, SignalKnows, LastSteps, MainSteps, SignalSteps
  <1>3. SignalKnows'
    BY DEF Typed, TypeOK, Frame, MainKnows, SignalKnows, LastSteps, MainSteps, SignalSteps
  <1>4. Stopped'
    BY DEF Typed, TypeOK, Frame, MainKnows, SignalKnows, Stopped, LastSteps
  <1>5. Drained'
    BY DEF Typed, TypeOK, Frame, MainKnows, SignalKnows, Drained, LastSteps, Busy, Worker
  <1>6. Undisturbed' /\ Emptied'
    BY DEF Typed, TypeOK, Frame, MainKnows, SignalKnows, Undisturbed, Emptied, LastSteps
  <1> QED BY <1>1, <1>2, <1>3, <1>4, <1>5, <1>6

LEMMA StopNWaitStep ==
  ASSUME SInv, StopNWait PROVE SInv'
  <1> USE DEF SInv, StopNWait, At, Goto, Lives, process, workers
  <1>1. Typed'
    BY ServiceAssumption DEF Typed, TypeOK, Frame, MainSteps, SignalSteps, LastSteps
  <1>2. MainKnows'
    BY DEF Typed, Frame, MainKnows, SignalKnows, LastSteps, MainSteps, SignalSteps
  <1>3. SignalKnows'
    BY DEF Typed, TypeOK, Frame, MainKnows, SignalKnows, LastSteps, MainSteps, SignalSteps
  <1>4. Stopped'
    BY DEF Typed, TypeOK, Frame, MainKnows, SignalKnows, Stopped, LastSteps
  <1>5. Drained'
    BY DEF Typed, TypeOK, Frame, MainKnows, SignalKnows, Drained, LastSteps, Busy, Worker
  <1>6. Undisturbed' /\ Emptied'
    BY DEF Typed, TypeOK, Frame, MainKnows, SignalKnows, Undisturbed, Emptied, LastSteps
  <1> QED BY <1>1, <1>2, <1>3, <1>4, <1>5, <1>6

LEMMA DrainStep ==
  ASSUME SInv, Drain PROVE SInv'
  <1> USE DEF SInv, Drain, At, Goto, Lives, process, workers
  <1>1. Typed'
    BY ServiceAssumption DEF Typed, TypeOK, Frame, MainSteps, SignalSteps, LastSteps
  <1>2. MainKnows'
    BY DEF Typed, Frame, MainKnows, SignalKnows, LastSteps, MainSteps, SignalSteps
  <1>3. SignalKnows'
    BY DEF Typed, TypeOK, Frame, MainKnows, SignalKnows, LastSteps, MainSteps, SignalSteps
  <1>4. Stopped'
    BY DEF Typed, TypeOK, Frame, MainKnows, SignalKnows, Stopped, LastSteps
  <1>5. Drained'
    BY DEF Typed, TypeOK, Frame, MainKnows, SignalKnows, Drained, LastSteps, Busy, Worker
  <1>6. Undisturbed' /\ Emptied'
    BY DEF Typed, TypeOK, Frame, MainKnows, SignalKnows, Undisturbed, Emptied, LastSteps
  <1> QED BY <1>1, <1>2, <1>3, <1>4, <1>5, <1>6

LEMMA DoneStep ==
  ASSUME SInv, NEW f \in Frame, Done(f) PROVE SInv'
  <1> USE DEF SInv, Done, At, Goto, Return, Lives, process, workers
  <1>1. Typed'
    BY ServiceAssumption DEF Typed, TypeOK, Frame, MainSteps, SignalSteps,
                             LastSteps, MainKnows, SignalKnows
  <1>2. MainKnows'
    BY DEF Typed, Frame, MainKnows, SignalKnows, LastSteps, MainSteps, SignalSteps
  <1>3. SignalKnows'
    BY DEF Typed, TypeOK, Frame, MainKnows, SignalKnows, LastSteps, MainSteps, SignalSteps
  <1>4. Stopped'
    BY DEF Typed, TypeOK, Frame, MainKnows, SignalKnows, Stopped, LastSteps
  <1>5. Drained'
    BY DEF Typed, TypeOK, Frame, MainKnows, SignalKnows, Drained, LastSteps, Busy, Worker
  <1>6. Undisturbed' /\ Emptied'
    BY DEF Typed, TypeOK, Frame, MainKnows, SignalKnows, Undisturbed, Emptied, LastSteps
  <1> QED BY <1>1, <1>2, <1>3, <1>4, <1>5, <1>6

LEMMA StopWSStep ==
  ASSUME SInv, NEW f \in Frame, StopWS(f) PROVE SInv'
  <1> USE DEF SInv, StopWS, At, Goto, Return, Lives, process, workers
  <1>1. Typed'
    BY ServiceAssumption DEF Typed, TypeOK, Frame, MainSteps, SignalSteps,
                             LastSteps, MainKnows, SignalKnows
  <1>2. MainKnows'
    BY DEF Typed, Frame, MainKnows, SignalKnows, LastSteps, MainSteps, SignalSteps
  <1>3. SignalKnows'
    BY DEF Typed, TypeOK, Frame, MainKnows, SignalKnows, LastSteps, MainSteps, SignalSteps
  <1>4. Stopped'
    BY DEF Typed, TypeOK, Frame, MainKnows, SignalKnows, Stopped, LastSteps
  <1>5. Drained'
    BY DEF Typed, TypeOK, Frame, MainKnows, SignalKnows, Drained, LastSteps, Busy, Worker
  <1>6. Undisturbed' /\ Emptied'
    BY DEF Typed, TypeOK, Frame, MainKnows, SignalKnows, Undisturbed, Emptied, LastSteps
  <1> QED BY <1>1, <1>2, <1>3, <1>4, <1>5, <1>6

LEMMA JoinStep ==
  ASSUME SInv, NEW f \in Frame, Join(f) PROVE SInv'
  <1> USE DEF SInv, Join, At, Goto, Return, Lives, process, workers
  <1>1. Typed'
    BY ServiceAssumption DEF Typed, TypeOK, Frame, MainSteps, SignalSteps,
                             LastSteps, MainKnows, SignalKnows
  <1>2. MainKnows'
    BY DEF Typed, Frame, MainKnows, SignalKnows, LastSteps, MainSteps, SignalSteps
  <1>3. SignalKnows'
    BY DEF Typed, TypeOK, Frame, MainKnows, SignalKnows, LastSteps, MainSteps, SignalSteps
  <1>4. Stopped'
    BY DEF Typed, TypeOK, Frame, MainKnows, SignalKnows, Stopped, LastSteps
  <1>5. Drained'
    BY DEF Typed, TypeOK, Frame, MainKnows, SignalKnows, Drained, LastSteps, Busy, Worker
  <1>6. Undisturbed' /\ Emptied'
    BY DEF Typed, TypeOK, Frame, MainKnows, SignalKnows, Undisturbed, Emptied, LastSteps
  <1> QED BY <1>1, <1>2, <1>3, <1>4, <1>5, <1>6

LEMMA DeleteStep ==
  ASSUME SInv, NEW f \in Frame, Delete(f) PROVE SInv'
  <1> USE DEF SInv, Delete, At, Goto, Return, Lives, process, workers
  <1>1. Typed'
    BY ServiceAssumption DEF Typed, TypeOK, Frame, MainSteps, SignalSteps,
                             LastSteps, MainKnows, SignalKnows
  <1>2. MainKnows'
    BY DEF Typed, Frame, MainKnows, SignalKnows, LastSteps, MainSteps, SignalSteps
  <1>3. SignalKnows'
    BY DEF Typed, TypeOK, Frame, MainKnows, SignalKnows, LastSteps, MainSteps, SignalSteps
  <1>4. Stopped'
    BY DEF Typed, TypeOK, Frame, MainKnows, SignalKnows, Stopped, LastSteps
  <1>5. Drained'
    BY DEF Typed, TypeOK, Frame, MainKnows, SignalKnows, Drained, LastSteps, Busy, Worker
  <1>6. Undisturbed' /\ Emptied'
    BY DEF Typed, TypeOK, Frame, MainKnows, SignalKnows, Undisturbed, Emptied, LastSteps
  <1> QED BY <1>1, <1>2, <1>3, <1>4, <1>5, <1>6

----------------------------------------------------------------------------
(* The steps of the threads.                                                *)

\* A step of a thread leaves alone what main and the signal handler know.
LEMMA ProcessKept ==
  ASSUME SInv, UNCHANGED process
  PROVE  /\ MainKnows' /\ SignalKnows' /\ Stopped' /\ (Lives <=> Lives')
         /\ pc' \in [Frame -> MainSteps \cup SignalSteps] /\ stopped' \in Nat
  BY DEF SInv, Typed, process, MainKnows, SignalKnows, LastSteps, Stopped, Lives

\* Whoever takes a call finds the service and the database.
LEMMA ServerFindsService ==
  ASSUME SInv, Lives, NEW w \in Worker, Accepts(w) PROVE service = "alive"
  BY DEF SInv, Typed, TypeOK, MainKnows, Drained, Accepts, Worker

LEMMA CleanedFacts ==
  /\ DOMAIN Cleaned = 1 .. 5 /\ Len(Cleaned) = 5
  /\ \A n \in 1 .. 5 : Cleaned[n] \in Table
  /\ \A t \in Table : \E n \in 1 .. 5 : t = Cleaned[n]
  BY DEF Cleaned, Table

LEMMA BeginHandlerStep ==
  ASSUME SInv, NEW w \in Worker, BeginHandler(w) PROVE SInv'
  <1> USE DEF SInv, BeginHandler, Begin, Beside
  <1>1. /\ MainKnows' /\ SignalKnows' /\ Stopped' /\ (Lives <=> Lives')
        /\ pc' \in [Frame -> MainSteps \cup SignalSteps] /\ stopped' \in Nat
    BY ProcessKept DEF process
  <1>2. Typed'
    BY <1>1, CleanedFacts, ServiceAssumption DEF Typed, TypeOK, process, Busy, Cleaners
  <1>3. Drained'
    BY <1>1, ServiceAssumption DEF Typed, TypeOK, Drained, process, Accepts, Worker
  <1>4. Undisturbed'
    BY <1>1, ServerFindsService DEF Typed, TypeOK, Undisturbed, process, Busy, Cleaners
  <1>5. Emptied'
    BY <1>1, CleanedFacts DEF Typed, TypeOK, Emptied, process, Busy, Cleaners
  <1> QED BY <1>1, <1>2, <1>3, <1>4, <1>5

LEMMA BeginCleanStep ==
  ASSUME SInv, NEW w \in Worker, BeginClean(w) PROVE SInv'
  <1> USE DEF SInv, BeginClean, Begin, Beside
  <1>1. /\ MainKnows' /\ SignalKnows' /\ Stopped' /\ (Lives <=> Lives')
        /\ pc' \in [Frame -> MainSteps \cup SignalSteps] /\ stopped' \in Nat
    BY ProcessKept DEF process
  <1>2. Typed'
    BY <1>1, CleanedFacts, ServiceAssumption DEF Typed, TypeOK, process, Busy, Cleaners
  <1>3. Drained'
    BY <1>1, ServiceAssumption DEF Typed, TypeOK, Drained, process, Accepts, Worker
  <1>4. Undisturbed'
    BY <1>1, ServerFindsService DEF Typed, TypeOK, Undisturbed, process, Busy, Cleaners
  <1>5. Emptied'
    BY <1>1, CleanedFacts DEF Typed, TypeOK, Emptied, process, Busy, Cleaners
  <1> QED BY <1>1, <1>2, <1>3, <1>4, <1>5

LEMMA WriteStep ==
  ASSUME SInv, NEW w \in Worker, Write(w) PROVE SInv'
  <1> USE DEF SInv, Write
  <1>1. /\ MainKnows' /\ SignalKnows' /\ Stopped' /\ (Lives <=> Lives')
        /\ pc' \in [Frame -> MainSteps \cup SignalSteps] /\ stopped' \in Nat
    BY ProcessKept DEF process
  <1>2. Typed'
    BY <1>1, CleanedFacts, ServiceAssumption DEF Typed, TypeOK, process, Busy
  <1>3. Drained'
    BY <1>1 DEF Typed, TypeOK, Drained, process, Accepts, Worker
  <1>4. Undisturbed'
    BY <1>1 DEF Typed, TypeOK, Undisturbed, process, Busy, Cleaners
  <1>5. Emptied'
    BY <1>1, CleanedFacts DEF Typed, TypeOK, Emptied, process, Busy, Cleaners
  <1> QED BY <1>1, <1>2, <1>3, <1>4, <1>5

LEMMA EndHandlerStep ==
  ASSUME SInv, NEW w \in Worker, EndHandler(w) PROVE SInv'
  <1> USE DEF SInv, EndHandler
  <1>1. /\ MainKnows' /\ SignalKnows' /\ Stopped' /\ (Lives <=> Lives')
        /\ pc' \in [Frame -> MainSteps \cup SignalSteps] /\ stopped' \in Nat
    BY ProcessKept DEF process
  <1>2. Typed'
    BY <1>1, CleanedFacts, ServiceAssumption DEF Typed, TypeOK, process, Busy
  <1>3. Drained'
    BY <1>1 DEF Typed, TypeOK, Drained, process, Accepts, Worker
  <1>4. Undisturbed'
    BY <1>1 DEF Typed, TypeOK, Undisturbed, process, Busy, Cleaners
  <1>5. Emptied'
    BY <1>1, CleanedFacts DEF Typed, TypeOK, Emptied, process, Busy, Cleaners
  <1> QED BY <1>1, <1>2, <1>3, <1>4, <1>5

LEMMA CleanClosesStep ==
  ASSUME SInv, NEW w \in Worker, CleanCloses(w) PROVE SInv'
  <1> USE DEF SInv, CleanCloses
  <1>1. /\ MainKnows' /\ SignalKnows' /\ Stopped' /\ (Lives <=> Lives')
        /\ pc' \in [Frame -> MainSteps \cup SignalSteps] /\ stopped' \in Nat
    BY ProcessKept DEF process
  <1>2. Typed'
    BY <1>1, CleanedFacts, ServiceAssumption DEF Typed, TypeOK, process, Busy
  <1>3. Drained'
    BY <1>1 DEF Typed, TypeOK, Drained, process, Accepts, Worker
  <1>4. Undisturbed'
    BY <1>1 DEF Typed, TypeOK, Undisturbed, process, Busy, Cleaners
  <1>5. Emptied'
    BY <1>1, CleanedFacts DEF Typed, TypeOK, Emptied, process, Busy, Cleaners
  <1> QED BY <1>1, <1>2, <1>3, <1>4, <1>5

LEMMA CleanStatementStep ==
  ASSUME SInv, NEW w \in Worker, CleanStatement(w) PROVE SInv'
  <1> USE DEF SInv, CleanStatement
  <1>1. /\ MainKnows' /\ SignalKnows' /\ Stopped' /\ (Lives <=> Lives')
        /\ pc' \in [Frame -> MainSteps \cup SignalSteps] /\ stopped' \in Nat
    BY ProcessKept DEF process
  <1>2. Typed'
    BY <1>1, CleanedFacts, ServiceAssumption DEF Typed, TypeOK, process, Busy
  <1>3. Drained'
    BY <1>1 DEF Typed, TypeOK, Drained, process, Accepts, Worker
  <1>4. Undisturbed'
    BY <1>1 DEF Typed, TypeOK, Undisturbed, process, Busy, Cleaners
  <1>5. Emptied'
    BY <1>1, CleanedFacts DEF Typed, TypeOK, Emptied, process, Busy, Cleaners
  <1> QED BY <1>1, <1>2, <1>3, <1>4, <1>5

LEMMA CleanFaultStep ==
  ASSUME SInv, NEW w \in Worker, CleanFault(w) PROVE SInv'
  <1> USE DEF SInv, CleanFault
  <1>1. /\ MainKnows' /\ SignalKnows' /\ Stopped' /\ (Lives <=> Lives')
        /\ pc' \in [Frame -> MainSteps \cup SignalSteps] /\ stopped' \in Nat
    BY ProcessKept DEF process
  <1>2. Typed'
    BY <1>1, CleanedFacts, ServiceAssumption DEF Typed, TypeOK, process, Busy
  <1>3. Drained'
    BY <1>1 DEF Typed, TypeOK, Drained, process, Accepts, Worker
  <1>4. Undisturbed'
    BY <1>1 DEF Typed, TypeOK, Undisturbed, process, Busy, Cleaners
  <1>5. Emptied'
    BY <1>1, CleanedFacts DEF Typed, TypeOK, Emptied, process, Busy, Cleaners
  <1> QED BY <1>1, <1>2, <1>3, <1>4, <1>5

LEMMA CleanOpensStep ==
  ASSUME SInv, NEW w \in Worker, CleanOpens(w) PROVE SInv'
  <1> USE DEF SInv, CleanOpens
  <1>1. /\ MainKnows' /\ SignalKnows' /\ Stopped' /\ (Lives <=> Lives')
        /\ pc' \in [Frame -> MainSteps \cup SignalSteps] /\ stopped' \in Nat
    BY ProcessKept DEF process
  <1>2. Typed'
    BY <1>1, CleanedFacts, ServiceAssumption DEF Typed, TypeOK, process, Busy
  <1>3. Drained'
    BY <1>1 DEF Typed, TypeOK, Drained, process, Accepts, Worker
  <1>4. Undisturbed'
    BY <1>1 DEF Typed, TypeOK, Undisturbed, process, Busy, Cleaners
  <1>5. Emptied'
    BY <1>1, CleanedFacts DEF Typed, TypeOK, Emptied, process, Busy, Cleaners
  <1> QED BY <1>1, <1>2, <1>3, <1>4, <1>5

LEMMA StutterTrue == SInv /\ UNCHANGED vars => SInv'
  BY ProcessKept DEF SInv, vars, process, workers, Typed, TypeOK, Drained, Undisturbed,
                     Emptied, Lives

LEMMA StepTrue == SInv /\ [Next]_vars => SInv'
  <1> SUFFICES ASSUME SInv, [Next]_vars PROVE SInv'
    OBVIOUS
  <1>1. CASE Main
    BY <1>1, NewServiceStep, RunHttpJsonStep, RunGrpcStep, WaitEndsStep DEF Main
  <1>2. ASSUME NEW f \in Frame, Last(f) PROVE SInv'
    BY <1>2, DoneStep, StopWSStep, JoinStep, DeleteStep DEF Last
  <1>3. CASE Signal \/ StopNWait \/ Drain
    BY <1>3, SignalStep, StopNWaitStep, DrainStep
  <1>4. ASSUME NEW w \in Worker,
               BeginHandler(w) \/ BeginClean(w) \/ Write(w) \/ CleanFault(w) \/ End(w)
        PROVE  SInv'
    BY <1>4, BeginHandlerStep, BeginCleanStep, WriteStep, CleanFaultStep, EndHandlerStep,
       CleanClosesStep, CleanStatementStep, CleanOpensStep DEF End
  <1>5. CASE Exited \/ UNCHANGED vars
    BY <1>5, StutterTrue DEF Exited
  <1> QED BY <1>1, <1>2, <1>3, <1>4, <1>5 DEF Next, Handling, Frame

LEMMA Always == Spec => []SInv
  BY InitTrue, StepTrue, PTL DEF Spec

----------------------------------------------------------------------------
(* The theorems.                                                            *)

\* However many threads, signals and cleans there are, no handler of either
\* server runs on a deleted service, nor, unless a clean runs beside it, on a
\* deleted database: stopNWait and done stop the servers before the service
\* goes (svc.cpp).
THEOREM HandlersHaveTheirService == Spec => []ServiceInvariant
  <1>1. SInv => ServiceInvariant
    BY DEF SInv, Typed, ServiceInvariant, ServiceThere, DbThere, Drained, Undisturbed,
           MainKnows, TypeOK, Worker, Busy
  <1> QED BY <1>1, Always, PTL

\* The signal handler and main both run done, with as many signals as there
\* may be, and the HTTP server is stopped at most once (svc.cpp).
THEOREM ServerStoppedOnce == Spec => []StoppedOnce
  <1>1. SInv => StoppedOnce
    BY DEF SInv, Stopped, StoppedOnce
  <1> QED BY <1>1, Always, PTL

\* A clean nothing ran beside, and no statement of which failed, leaves no row
\* of the stock, however many threads there are (svcImpl.cpp, clean).
THEOREM CleanLeavesNothing == Spec => CleanEmpties
  <1> DEFINE Emptying == \A w \in Worker \ disturbed :
                           work[w] = "clean" /\ work'[w] = "idle" => full' = {}
  <1>1. SInv /\ [Next]_vars => [Emptying]_vars
    <2> SUFFICES ASSUME SInv, Next, NEW w \in Worker \ disturbed,
                        work[w] = "clean", work'[w] = "idle"
                 PROVE  full' = {}
      BY DEF Emptying
    <2>1. CleanOpens(w)
      BY DEF Next, Main, NewService, RunHttpJson, RunGrpc, WaitEnds, Last, Done, StopWS,
             Join, Delete, Signal, Handling, StopNWait, Drain, Exited, workers, vars,
             BeginHandler, BeginClean, Begin, Write, CleanFault, End, EndHandler,
             CleanCloses, CleanStatement, CleanOpens, SInv, Typed, TypeOK
    <2> QED BY <2>1, CleanedFacts DEF SInv, Typed, TypeOK, Emptied, CleanOpens
  <1> QED BY <1>1, Always, PTL DEF Spec, CleanEmpties
=============================================================================
