------------------------------ MODULE Service -------------------------------
(***************************************************************************)
(* The life of the process: main makes the service, starts the HTTP server *)
(* and the gRPC server, and waits; SIGINT runs the signal handler on       *)
(* main's thread, between two of its steps; threads of both servers run    *)
(* handlers, one of which (clean) closes the database and opens it again.  *)
(* The servers are external: each stops taking calls, then waits for those *)
(* that run.  A daemon (daemonize.cpp) forks and then does what main does. *)
(***************************************************************************)
EXTENDS Integers, Sequences

CONSTANTS
  Grpc, Http,    \* the threads of the two servers
  MaxSignals, MaxCleans

ASSUME ServiceAssumption ==
  Grpc \cap Http = {} /\ MaxSignals \in Nat /\ MaxCleans \in Nat

Worker == Grpc \cup Http
Frame == {"main", "signal"}

\* The tables clean empties, in its order (sqlite-helper.cpp).
Cleaned == <<"Card", "Property", "Package", "Box", "Journal">>
Table == {Cleaned[n] : n \in DOMAIN Cleaned}

VARIABLES
  pc,            \* the next step of main and of the signal handler
  server,        \* the gRPC server
  descriptor,    \* the HTTP server
  service,       \* "alive", or "null" before it is made and once deleted
  stopped,       \* how often MHD_stop_daemon was called
  work,          \* what a worker runs: "idle", "handler", "clean"
  next,          \* the next statement of a clean; 0 before mDb is deleted
  disturbed,     \* workers a clean has run beside, and cleans that met a fault
  mDb,           \* "open" or "deleted"
  full,          \* the tables that may have rows
  signals, cleans

process == <<pc, server, descriptor, service, stopped, signals>>
workers == <<work, next, disturbed, full, cleans>>
vars == <<process, workers, mDb>>

TypeOK ==
  /\ pc["main"] \in {"new", "http", "grpc", "wait", "done", "stopWS", "join",
                     "delete", "exit", "crashed"}
  /\ pc["signal"] \in {"none", "stopNWait", "drain", "done", "stopWS", "join",
                       "delete"}
  /\ server \in {"null", "up", "closing", "down"}
  /\ descriptor \in {"null", "up", "closing"}
  /\ service \in {"null", "alive"} /\ mDb \in {"open", "deleted"}
  /\ work \in [Worker -> {"idle", "handler", "clean"}]
  /\ next \in [Worker -> 0 .. Len(Cleaned) + 1]
  /\ disturbed \subseteq Worker /\ full \subseteq Table
  /\ signals \in 0 .. MaxSignals /\ cleans \in 0 .. MaxCleans

Init ==
  /\ pc = [main |-> "new", signal |-> "none"]
  /\ server = "null" /\ descriptor = "null" /\ service = "null" /\ stopped = 0
  /\ work = [w \in Worker |-> "idle"] /\ next = [w \in Worker |-> 0]
  /\ disturbed = {}
  /\ mDb = "deleted" /\ full = Table
  /\ signals = 0 /\ cleans = 0

Lives == pc["main"] \notin {"exit", "crashed"}
Busy(W) == {w \in W : work[w] # "idle"}

\* A step of a frame: main is interrupted while the signal handler runs.
At(f, step) == /\ pc[f] = step /\ Lives
               /\ f = "main" => pc["signal"] = "none"
Goto(f, step) == pc' = [pc EXCEPT ![f] = step]
Return(f) == Goto(f, IF f = "main" THEN "exit" ELSE "none")

----------------------------------------------------------------------------
(* main and run.                                                            *)

NewService ==
  /\ At("main", "new") /\ Goto("main", "http")
  /\ service' = "alive" /\ mDb' = "open"
  /\ UNCHANGED <<server, descriptor, stopped, signals, workers>>

\* HTTP is optional and may fail to start; main goes on.
RunHttpJson ==
  /\ At("main", "http") /\ Goto("main", "grpc")
  /\ descriptor' \in {"null", "up"}
  /\ UNCHANGED <<server, service, stopped, signals, workers, mDb>>

RunGrpc ==
  /\ At("main", "grpc")
  /\ \/ server' = "up" /\ Goto("main", "wait")
     \/ UNCHANGED server /\ Goto("main", "done")
  /\ UNCHANGED <<descriptor, service, stopped, signals, workers, mDb>>

WaitEnds ==
  /\ At("main", "wait") /\ server = "down" /\ Goto("main", "done")
  /\ UNCHANGED <<server, descriptor, service, stopped, signals, workers, mDb>>

----------------------------------------------------------------------------
(* stopNWait and done: main's last step, and the signal handler.            *)

\* One signal at a time: another one while the handler runs would be taken
\* by a thread of a server.
Signal ==
  /\ Lives /\ pc["signal"] = "none" /\ signals < MaxSignals
  /\ Goto("signal", "stopNWait") /\ signals' = signals + 1
  /\ UNCHANGED <<server, descriptor, service, stopped, workers, mDb>>

\* A mutant: Shutdown is not called.
StopNWaitFlagsOnly ==
  /\ At("signal", "stopNWait") /\ Goto("signal", "done")
  /\ UNCHANGED <<server, descriptor, service, stopped, signals, workers, mDb>>

\* Without a server, Shutdown is called on a null pointer.
StopNWait ==
  /\ At("signal", "stopNWait")
  /\ \/ server = "null" /\ Goto("main", "crashed") /\ UNCHANGED server
     \/ server = "up" /\ server' = "closing" /\ Goto("signal", "drain")
     \/ server = "down" /\ Goto("signal", "done") /\ UNCHANGED server
  /\ UNCHANGED <<descriptor, service, stopped, signals, workers, mDb>>

Drain ==
  /\ At("signal", "drain") /\ Busy(Grpc) = {}
  /\ server' = "down" /\ Goto("signal", "done")
  /\ UNCHANGED <<descriptor, service, stopped, signals, workers, mDb>>

\* A mutant: the service is deleted, then the HTTP server stopped.
DoneDeletesFirst(f) ==
  /\ At(f, "done")
  /\ IF server = "null" THEN Return(f) /\ UNCHANGED <<service, mDb>>
     ELSE /\ Goto(f, IF descriptor # "null" THEN "stopWS" ELSE "delete")
          /\ service' = "null" /\ mDb' = "deleted"
  /\ UNCHANGED <<server, descriptor, stopped, signals, workers>>

Done(f) ==
  /\ At(f, "done")
  /\ IF server = "null" THEN Return(f)
     ELSE Goto(f, IF descriptor # "null" THEN "stopWS" ELSE "delete")
  /\ UNCHANGED <<server, descriptor, service, stopped, signals, workers, mDb>>

\* MHD_stop_daemon: no new calls, then the threads of the pool are joined.
StopWS(f) ==
  /\ At(f, "stopWS") /\ Goto(f, "join")
  /\ descriptor' = "closing" /\ stopped' = stopped + 1
  /\ UNCHANGED <<server, service, signals, workers, mDb>>

\* A mutant: the descriptor is kept.
JoinKeepsDescriptor(f) ==
  /\ At(f, "join") /\ Busy(Http) = {} /\ Goto(f, "delete")
  /\ UNCHANGED <<server, descriptor, service, stopped, signals, workers, mDb>>

Join(f) ==
  /\ At(f, "join") /\ Busy(Http) = {} /\ Goto(f, "delete")
  /\ descriptor' = "null"
  /\ UNCHANGED <<server, service, stopped, signals, workers, mDb>>

\* The destructor of the service deletes mDb; a null service is left alone.
Delete(f) ==
  /\ At(f, "delete") /\ Return(f)
  /\ service' = "null"
  /\ mDb' = IF service = "alive" THEN "deleted" ELSE mDb
  /\ UNCHANGED <<server, descriptor, stopped, signals, workers>>

----------------------------------------------------------------------------
(* The threads of the servers.                                              *)

Accepts(w) == IF w \in Grpc THEN server = "up" ELSE descriptor = "up"
Cleaners == {w \in Worker : work[w] = "clean"}

\* A handler that runs beside a clean, and that clean, are disturbed.
Beside(w, what) ==
  disturbed' = (disturbed \ {w}) \cup
    IF what = "clean" /\ Busy(Worker) # {} THEN Busy(Worker) \cup {w}
    ELSE IF Cleaners # {} THEN Cleaners \cup {w} ELSE {}

Begin(w, what) ==
  /\ Lives /\ Accepts(w) /\ work[w] = "idle"
  /\ work' = [work EXCEPT ![w] = what] /\ next' = [next EXCEPT ![w] = 0]
  /\ Beside(w, what)
  /\ cleans' = IF what = "clean" THEN cleans + 1 ELSE cleans
  /\ UNCHANGED <<process, full, mDb>>

BeginHandler(w) == Begin(w, "handler")
BeginClean(w) == cleans < MaxCleans /\ Begin(w, "clean")

\* A handler commits rows of some tables.
Write(w) ==
  /\ Lives /\ work[w] = "handler"
  /\ \E t \in Table : full' = full \cup {t}
  /\ UNCHANGED <<process, work, next, disturbed, cleans, mDb>>

EndHandler(w) ==
  /\ Lives /\ work[w] = "handler" /\ work' = [work EXCEPT ![w] = "idle"]
  /\ UNCHANGED <<process, next, disturbed, full, cleans, mDb>>

\* clean, once its user's rights are checked and that transaction committed.
CleanCloses(w) ==
  /\ Lives /\ work[w] = "clean" /\ next[w] = 0
  /\ mDb' = "deleted" /\ next' = [next EXCEPT ![w] = 1]
  /\ UNCHANGED <<process, work, disturbed, full, cleans>>

\* A mutant: one statement too few.
CleanStatementShort(w) ==
  /\ Lives /\ work[w] = "clean" /\ next[w] \in DOMAIN Cleaned
  /\ full' = IF next[w] = Len(Cleaned) THEN full ELSE full \ {Cleaned[next[w]]}
  /\ next' = [next EXCEPT ![w] = @ + 1]
  /\ UNCHANGED <<process, work, disturbed, cleans, mDb>>

\* Each statement commits on its own.
CleanStatement(w) ==
  /\ Lives /\ work[w] = "clean" /\ next[w] \in DOMAIN Cleaned
  /\ full' = full \ {Cleaned[next[w]]}
  /\ next' = [next EXCEPT ![w] = @ + 1]
  /\ UNCHANGED <<process, work, disturbed, cleans, mDb>>

\* The file is busy: the statements left are not made.
CleanFault(w) ==
  /\ Lives /\ work[w] = "clean" /\ next[w] \in DOMAIN Cleaned
  /\ next' = [next EXCEPT ![w] = Len(Cleaned) + 1]
  /\ disturbed' = disturbed \cup {w}
  /\ UNCHANGED <<process, work, full, cleans, mDb>>

CleanOpens(w) ==
  /\ Lives /\ work[w] = "clean" /\ next[w] = Len(Cleaned) + 1
  /\ mDb' = "open" /\ work' = [work EXCEPT ![w] = "idle"]
  /\ UNCHANGED <<process, next, disturbed, full, cleans>>

End(w) == EndHandler(w) \/ CleanCloses(w) \/ CleanStatement(w) \/ CleanOpens(w)

Main == NewService \/ RunHttpJson \/ RunGrpc \/ WaitEnds
Last(f) == Done(f) \/ StopWS(f) \/ Join(f) \/ Delete(f)
Handling == StopNWait \/ Drain \/ Last("signal")
Exited == ~Lives /\ UNCHANGED vars

Next ==
  \/ Main \/ Last("main") \/ Signal \/ Handling \/ Exited
  \/ \E w \in Worker : BeginHandler(w) \/ BeginClean(w) \/ Write(w) \/ CleanFault(w)
                       \/ End(w)

Spec == Init /\ [][Next]_vars

\* Threads run on, and every handler ends (a client ends its stream).
FairSpec == /\ Spec
            /\ WF_vars(Main \/ Last("main")) /\ WF_vars(Handling)
            /\ \A w \in Worker : WF_vars(End(w))

----------------------------------------------------------------------------

\* No handler of either server runs on a deleted service: both servers are
\* drained before it goes.
ServiceThere == Lives /\ Busy(Worker) # {} => service = "alive"

\* Nor on a deleted database, unless a clean runs beside it; and a clean that
\* fails leaves the database open for those who come after it.
DbThere == Lives => \A w \in Worker :
                      work[w] = "handler" /\ w \notin disturbed => mDb = "open"

\* The invariant of the process: its parts are in one of their states, and no
\* handler runs on what is gone.
ServiceInvariant == TypeOK /\ ServiceThere /\ DbThere

\* done runs in the signal handler and again in main, and more often with more
\* signals; the HTTP server is stopped once.
StoppedOnce == stopped <= 1

\* A clean nothing ran beside, and no statement of which failed, leaves no row
\* of the stock.
CleanEmpties ==
  [][\A w \in Worker \ disturbed :
       work[w] = "clean" /\ work'[w] = "idle" => full' = {}]_vars

\* A signal ends the process, whatever handlers run when it comes.
SignalEnds == pc["signal"] # "none" ~> ~Lives
=============================================================================
