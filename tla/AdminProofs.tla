----------------------------- MODULE AdminProofs -----------------------------
(***************************************************************************)
(* Theorems about accounts, property types and settings, for any names,    *)
(* passwords, plugins, lists of settings, requests and faults.             *)
(***************************************************************************)
EXTENDS Admin, OperatorProofs

----------------------------------------------------------------------------
(* The inductive invariant: AdminInvariant with the types TypeOK leaves    *)
(* out.                                                                     *)

Counted ==
  /\ lastUser \in Nat /\ lastType \in Nat /\ lastProp \in Nat
  /\ lastSetting \in [Table -> Nat]
  /\ settings = [t \in Table |-> settings[t]]

Inductive == AdminInvariant /\ Counted

LEMMA Initially == Init => Inductive
  BY AdminAssumption
     DEF Init, Inductive, AdminInvariant, TypeOK, PropertiesTyped, Counted, Empty, Account, Right

----------------------------------------------------------------------------
(* Accounts.                                                                *)

AccountsTyped ==
  /\ lastUser \in Nat
  /\ DOMAIN users \subseteq 1 .. lastUser
  /\ \A u \in DOMAIN users : users[u] \in Account

\* A new row gets the next id.
LEMMA AccountAdded ==
  ASSUME AccountsTyped, NEW row \in Account,
         lastUser' = lastUser + 1, users' = Put(users, lastUser + 1, row)
  PROVE  AccountsTyped'
  BY DEF AccountsTyped, Put

\* A row that is there is written.
LEMMA AccountWritten ==
  ASSUME AccountsTyped, NEW row \in Account, NEW u \in DOMAIN users,
         lastUser' = lastUser, users' = Put(users, u, row)
  PROVE  AccountsTyped'
  BY DEF AccountsTyped, Put

\* An account gets a token, and nothing else.
Tokened(u, k) == users' = [users EXCEPT ![u].token = k]

LEMMA TokenGiven ==
  ASSUME AccountsTyped, NEW u \in DOMAIN users, NEW k \in NewToken, Tokened(u, k)
  PROVE  /\ DOMAIN users' = DOMAIN users
         /\ \A x \in DOMAIN users : users'[x] \in Account
         /\ \A x \in DOMAIN users :
              [users'[x] EXCEPT !.token = 0] = [users[x] EXCEPT !.token = 0]
  <1>1. k \in Nat
    BY AdminAssumption DEF NewToken
  <1> QED BY <1>1 DEF AccountsTyped, Tokened, Account

\* What a login may do to the accounts: nothing, a token for one, or a new one.
LEMMA LoginDoes ==
  ASSUME AccountsTyped, NEW n \in UserName, NEW p \in Password, Login(n, p)
  PROVE  \/ UNCHANGED <<users, lastUser>>
         \/ /\ \E u \in DOMAIN users, k \in NewToken : Tokened(u, k)
            /\ UNCHANGED lastUser
         \/ /\ Named(n) = {} /\ lastUser' = lastUser + 1
            /\ \E row \in Account : /\ row.name = n /\ row.rights = 0
                                    /\ users' = Put(users, lastUser + 1, row)
  <1>1. CASE LoginByPassword(n, p)
    BY <1>1 DEF LoginByPassword, Known, Named, Tokened
  <1>2. CASE LoginByPlugin(n, p)
    <2>1. ASSUME NEW k \in NewToken
          PROVE  [name |-> n, password |-> p, rights |-> 0, token |-> k] \in Account
      BY AdminAssumption DEF NewToken, Account, Right
    <2> QED BY <1>2, <2>1 DEF LoginByPlugin
  <1>3. CASE LoginFault(n, p)
    BY <1>3 DEF LoginFault, Known, Named, Tokened
  <1> QED BY <1>1, <1>2, <1>3 DEF Login

\* What a change of accounts may do: nothing, add a row, write or remove one.
LEMMA ChUserDoes ==
  ASSUME NEW op, NEW v, v.row \in Account, ChUser(op, v)
  PROVE  \/ UNCHANGED <<users, lastUser>>
         \/ /\ Target(v.id, v.row.name) = {} /\ lastUser' = lastUser + 1
            /\ \E row \in Account : /\ row.name = v.row.name
                                    /\ users' = Put(users, lastUser + 1, row)
         \/ /\ UNCHANGED lastUser
            /\ \E u \in Target(v.id, v.row.name) : users' = Put(users, u, v.row)
         \/ /\ UNCHANGED lastUser
            /\ \E u \in DOMAIN users : users' = Without(users, {u})
  <1>1. \A u \in Target(v.id, v.row.name) : u \in DOMAIN users
    BY DEF Target, Named
  <1>2. CASE AssignUser(v)
    BY <1>2 DEF AssignUser
  <1>3. CASE AddUser(v)
    <2>1. \A k \in NewToken : /\ [v.row EXCEPT !.token = k] \in Account
                              /\ [v.row EXCEPT !.token = k].name = v.row.name
      BY AdminAssumption DEF NewToken, Account
    <2> QED BY <1>3, <2>1 DEF AddUser
  <1>4. CASE RemoveUser(v)
    BY <1>1, <1>4 DEF RemoveUser
  <1> QED BY <1>2, <1>3, <1>4 DEF ChUser

LEMMA RowsAreAccounts ==
  ASSUME NEW v \in UserChanges
  PROVE  v.row \in Account
  BY AdminAssumption DEF UserChanges, Account, Right

LEMMA LoginAnyTyped == AccountsTyped /\ LoginAny => AccountsTyped'
  <1> SUFFICES ASSUME AccountsTyped, NEW n \in UserName, NEW p \in Password, Login(n, p)
               PROVE  AccountsTyped'
    BY DEF LoginAny
  <1>1. CASE UNCHANGED <<users, lastUser>>
    BY <1>1 DEF AccountsTyped
  <1>2. CASE UNCHANGED lastUser /\ \E u \in DOMAIN users, k \in NewToken : Tokened(u, k)
    <2>1. DOMAIN users' = DOMAIN users /\ \A x \in DOMAIN users : users'[x] \in Account
      BY <1>2, TokenGiven
    <2> QED BY <1>2, <2>1 DEF AccountsTyped
  <1>3. CASE lastUser' = lastUser + 1
             /\ \E row \in Account : users' = Put(users, lastUser + 1, row)
    BY <1>3, AccountAdded
  <1> QED BY <1>1, <1>2, <1>3, LoginDoes

LEMMA ChUserAnyTyped == AccountsTyped /\ ChUserAny => AccountsTyped'
  <1> SUFFICES ASSUME AccountsTyped, NEW op, NEW v \in UserChanges, ChUser(op, v)
               PROVE  AccountsTyped'
    BY DEF ChUserAny
  <1>1. v.row \in Account /\ \A u \in Target(v.id, v.row.name) : u \in DOMAIN users
    BY RowsAreAccounts DEF Target, Named
  <1>2. CASE UNCHANGED <<users, lastUser>>
    BY <1>2 DEF AccountsTyped
  <1>3. CASE lastUser' = lastUser + 1
             /\ \E row \in Account : users' = Put(users, lastUser + 1, row)
    BY <1>3, AccountAdded
  <1>4. CASE UNCHANGED lastUser
             /\ \E u \in Target(v.id, v.row.name) : users' = Put(users, u, v.row)
    BY <1>1, <1>4, AccountWritten
  <1>5. CASE UNCHANGED lastUser /\ \E u \in DOMAIN users : users' = Without(users, {u})
    BY <1>5 DEF AccountsTyped, Without
  <1> QED BY <1>1, <1>2, <1>3, <1>4, <1>5, ChUserDoes

----------------------------------------------------------------------------
(* Property types.                                                          *)

DictionaryTyped ==
  /\ lastType \in Nat /\ lastProp \in Nat
  /\ DOMAIN types \subseteq 1 .. lastType /\ \A t \in DOMAIN types : types[t] \in Key
  /\ DOMAIN props \subseteq 1 .. lastProp /\ \A p \in DOMAIN props : props[p] \in Nat

LEMMA AddTypeKeeps ==
  ASSUME DictionaryTyped, NEW v, v.key \in Key, AddType(v), UNCHANGED <<props, lastProp>>
  PROVE  DictionaryTyped' /\ DOMAIN types \subseteq DOMAIN types'
  BY DEF DictionaryTyped, AddType, Put

LEMMA AssignTypeKeeps ==
  ASSUME DictionaryTyped, NEW v, v.key \in Key, AssignType(v), UNCHANGED <<props, lastProp>>
  PROVE  DictionaryTyped' /\ DOMAIN types \subseteq DOMAIN types'
  <1>1. CASE AddType(v)
    BY <1>1, AddTypeKeeps
  <1>2. CASE Typed(v.id, v.key) # {}
    BY <1>2 DEF AssignType, DictionaryTyped
  <1> QED BY <1>1, <1>2 DEF AssignType

LEMMA RemoveTypeKeeps ==
  ASSUME DictionaryTyped, faults \in Nat, NEW v, RemoveType(v), UNCHANGED lastProp
  PROVE  /\ DictionaryTyped'
         /\ PropertiesTyped => PropertiesTyped'
         /\ faults' = faults \/ Fault
  <1>1. CASE UNCHANGED <<types, props, faults>>
    BY <1>1 DEF DictionaryTyped, PropertiesTyped, RemoveType
  <1>2. CASE \E t \in Typed(v.id, v.key) :
               /\ types' = Without(types, {t}) /\ props' = Without(props, OfType(t))
               /\ UNCHANGED faults
    <2>1. PICK t : /\ types' = Without(types, {t}) /\ props' = Without(props, OfType(t))
                   /\ UNCHANGED faults
      BY <1>2
    <2>2. /\ DOMAIN types' = DOMAIN types \ {t} /\ \A x \in DOMAIN types' : types'[x] = types[x]
          /\ DOMAIN props' = DOMAIN props \ OfType(t)
          /\ \A x \in DOMAIN props' : props'[x] = props[x]
      BY <2>1 DEF Without
    <2>3. DictionaryTyped'
      BY <2>2 DEF DictionaryTyped, RemoveType
    <2>4. \A x \in DOMAIN props' : props'[x] # t
      BY <2>2 DEF OfType
    <2> QED BY <2>1, <2>2, <2>3, <2>4 DEF PropertiesTyped
  <1>3. CASE Fault /\ \E t, gone : /\ types' = Without(types, {t}) \/ UNCHANGED types
                                   /\ props' = Without(props, gone)
    <2>1. faults' # 0
      BY <1>3 DEF Fault
    <2>2. PICK t, gone : /\ types' = Without(types, {t}) \/ UNCHANGED types
                         /\ props' = Without(props, gone)
      BY <1>3
    <2>3. /\ DOMAIN types' \subseteq DOMAIN types /\ \A x \in DOMAIN types' : types'[x] = types[x]
          /\ DOMAIN props' \subseteq DOMAIN props /\ \A x \in DOMAIN props' : props'[x] = props[x]
      BY <2>2 DEF Without
    <2> QED BY <1>3, <2>1, <2>3 DEF DictionaryTyped, PropertiesTyped, RemoveType
  <1> QED BY <1>1, <1>2, <1>3 DEF RemoveType

LEMMA ChTypeAnyKeeps ==
  ASSUME DictionaryTyped, faults \in Nat, ChTypeAny
  PROVE  /\ DictionaryTyped'
         /\ PropertiesTyped => PropertiesTyped'
         /\ faults' = faults \/ Fault
  <1>1. PICK op \in {"=", "+", "-"}, v \in [id : 0 .. lastType, key : Key] :
          ChPropertyType(op, v)
    BY DEF ChTypeAny
  <1>2. v.key \in Key /\ UNCHANGED lastProp
    BY <1>1 DEF ChPropertyType
  <1>3. CASE RemoveType(v)
    BY <1>2, <1>3, RemoveTypeKeeps
  <1>4. CASE UNCHANGED <<props, faults>> /\ AssignType(v)
    BY <1>2, <1>4, AssignTypeKeeps DEF PropertiesTyped
  <1>5. CASE UNCHANGED <<props, faults>> /\ AddType(v)
    BY <1>2, <1>5, AddTypeKeeps DEF PropertiesTyped
  <1>6. CASE UNCHANGED <<props, faults, types, lastType>>
    BY <1>2, <1>6 DEF DictionaryTyped, PropertiesTyped
  <1> QED BY <1>1, <1>3, <1>4, <1>5, <1>6 DEF ChPropertyType

LEMMA AddPropertyKeeps ==
  ASSUME DictionaryTyped, AddProperty
  PROVE  DictionaryTyped' /\ (PropertiesTyped => PropertiesTyped')
  <1>1. PICK t \in DOMAIN types : props' = Put(props, lastProp + 1, t)
    BY DEF AddProperty
  <1>2. /\ lastProp' = lastProp + 1 /\ UNCHANGED <<types, lastType, faults>>
    BY DEF AddProperty
  <1>3. /\ DOMAIN props' = DOMAIN props \cup {lastProp + 1}
        /\ \A x \in DOMAIN props' : props'[x] = t \/ (x \in DOMAIN props /\ props'[x] = props[x])
    BY <1>1 DEF Put
  <1>4. t \in Nat
    BY DEF DictionaryTyped
  <1> QED BY <1>2, <1>3, <1>4 DEF DictionaryTyped, PropertiesTyped
----------------------------------------------------------------------------
(* Settings.  Written is a fold, and a fold is CHOOSE g : g solves an       *)
(* equation: there is a solution, and there is only one, by induction over  *)
(* the rows written.                                                        *)

Ident(k) == [i \in 1 .. k |-> i]
\* What one row of the list does.
WriteOne(acc, list, i, bad) ==
  IF list[i].id \in DOMAIN acc.rows /\ i # bad
  THEN [acc EXCEPT !.rows[list[i].id] = list[i].value, !.seen = @ \cup {list[i].id}]
  ELSE [rows |-> Put(acc.rows, acc.last + 1, list[i].value),
        last |-> acc.last + 1, seen |-> acc.seen \cup {acc.last + 1}]
\* g solves the equation of the fold over the first k rows.
Writes(g, st, list, k, bad) ==
  g = [s \in SUBSET DOMAIN Ident(k) |->
         IF s = {} THEN st ELSE WriteOne(g[s \ {Max(s)}], list, Ident(k)[Max(s)], bad)]

\* The fold of the library, spelled out.
LEMMA Expand ==
  ASSUME NEW st, NEW list, NEW k, NEW bad
  PROVE Written(st, list, k, bad) = (CHOOSE g : Writes(g, st, list, k, bad))[DOMAIN Ident(k)]
  BY Zenon DEF Written, FoldLeft, MapThenFoldSet, Writes, Ident, WriteOne

\* The equation has a solution: that for one row less, extended.
LEMMA Solvable ==
  ASSUME NEW st, NEW list, NEW k \in Nat, NEW bad
  PROVE  \E g : Writes(g, st, list, k, bad)
  <1> DEFINE Bad == {n \in Nat : ~\E g : Writes(g, st, list, n, bad)}
  <1> SUFFICES ASSUME Bad # {} PROVE FALSE
    OBVIOUS
  <1>1. PICK n \in Bad : \A y \in Bad : n <= y
    BY LeastNumber
  <1>2. n # 0
    <2>1. DOMAIN Ident(0) = {}
      BY DEF Ident
    <2>3. \A s \in SUBSET {} : s = {}
      OBVIOUS
    <2>2. Writes([s \in SUBSET {} |-> st], st, list, 0, bad)
      BY <2>1, <2>3 DEF Writes
    <2> QED BY <1>1, <2>2
  <1>3. n - 1 \in Nat /\ n - 1 \notin Bad
    BY <1>1, <1>2
  <1>4. PICK g : Writes(g, st, list, n - 1, bad)
    BY <1>3
  <1> DEFINE h == [s \in SUBSET (1 .. n) |->
                     IF n \in s THEN WriteOne(g[s \ {n}], list, n, bad) ELSE g[s]]
  <1>5. ASSUME NEW s \in SUBSET (1 .. n)
        PROVE h[s] = IF s = {} THEN st
                     ELSE WriteOne(h[s \ {Max(s)}], list, Ident(n)[Max(s)], bad)
    <2>1. CASE n \in s
      <3>1. Max(s) = n /\ n \notin s \ {n} /\ s \ {n} \in SUBSET (1 .. n) /\ Ident(n)[n] = n
        BY <2>1, MaxIs, <1>2 DEF Ident
      <3> QED BY <2>1, <3>1
    <2>2. CASE n \notin s
      <3>1. s \in SUBSET (1 .. n - 1) /\ s \ {Max(s)} \in SUBSET (1 .. n)
        <4>1. \A y \in s : y \in 1 .. n /\ y # n
          BY <2>2
        <4>2. \A y \in s : y \in 1 .. n - 1
          BY <4>1, <1>3
        <4> QED BY <4>2
      <3>2. g[s] = IF s = {} THEN st
                   ELSE WriteOne(g[s \ {Max(s)}], list, Ident(n - 1)[Max(s)], bad)
        <4>1. DOMAIN Ident(n - 1) = 1 .. n - 1
          BY DEF Ident
        <4> QED BY <3>1, <4>1, <1>4 DEF Writes
      <3>3. s # {} => Ident(n - 1)[Max(s)] = Ident(n)[Max(s)]
        BY <3>1, <1>3, MaxIs DEF Ident
      <3> QED BY <2>2, <3>1, <3>2, <3>3
    <2> QED BY <2>1, <2>2
  <1>6. Writes(h, st, list, n, bad)
    <2>1. DOMAIN Ident(n) = 1 .. n
      BY DEF Ident
    <2> HIDE DEF h
    <2>2. h = [s \in SUBSET (1 .. n) |-> h[s]]
      BY DEF h
    <2> QED BY <1>5, <2>1, <2>2 DEF Writes
  <1> QED BY <1>1, <1>6

\* Solutions agree: a smallest set on which they differ has a Max, and without
\* it they agree.
LEMMA OneSolution ==
  ASSUME NEW st, NEW list, NEW k \in Nat, NEW bad, NEW n \in 0 .. k,
         NEW g, Writes(g, st, list, k, bad), NEW h, Writes(h, st, list, n, bad)
  PROVE  \A s \in SUBSET (1 .. n) : g[s] = h[s]
  <1> DEFINE S == 1 .. n
             Bad == {s \in SUBSET S : g[s] # h[s]}
  <1> SUFFICES ASSUME Bad # {} PROVE FALSE
    OBVIOUS
  <1>1. IsFiniteSet(S)
    BY FS_Interval
  <1>2. PICK m \in Bad : \A y \in Bad : y \subseteq m => y = m
    <2>1. Bad \subseteq SUBSET S
      OBVIOUS
    <2> HIDE DEF S, Bad
    <2> QED BY <1>1, <2>1, SmallestPart
  <1>3. /\ DOMAIN Ident(n) = 1 .. n /\ DOMAIN Ident(k) = 1 .. k
        /\ m \in SUBSET (1 .. n) /\ m \in SUBSET (1 .. k)
    BY DEF Ident
  <1>4. m # {}
    BY <1>2, <1>3 DEF Writes
  <1>5. Max(m) \in m /\ Ident(n)[Max(m)] = Ident(k)[Max(m)]
    BY <1>3, <1>4, MaxIs DEF Ident
  <1>6. g[m \ {Max(m)}] = h[m \ {Max(m)}]
    <2>1. m \ {Max(m)} \in SUBSET S /\ m \ {Max(m)} \subseteq m /\ m \ {Max(m)} # m
      BY <1>2, <1>5
    <2> QED BY <1>2, <2>1
  <1> HIDE DEF Bad
  <1>7. g[m] = h[m]
    BY <1>3, <1>4, <1>5, <1>6 DEF Writes
  <1> QED BY <1>2, <1>7 DEF Bad

\* The rows are written one after the other.
LEMMA WrittenStep ==
  ASSUME NEW st, NEW list, NEW k \in Nat, NEW bad
  PROVE  /\ Written(st, list, 0, bad) = st
         /\ Written(st, list, k + 1, bad)
              = WriteOne(Written(st, list, k, bad), list, k + 1, bad)
  <1> DEFINE sol(n) == CHOOSE g : Writes(g, st, list, n, bad)
  <1>1. ASSUME NEW n \in Nat
        PROVE  /\ Writes(sol(n), st, list, n, bad)
               /\ Written(st, list, n, bad) = sol(n)[1 .. n]
    <2>1. DOMAIN Ident(n) = 1 .. n
      BY DEF Ident
    <2> QED BY <2>1, Solvable, Expand
  <1> HIDE DEF sol
  <1>2. Written(st, list, 0, bad) = st
    <2>1. DOMAIN Ident(0) = {} /\ 1 .. 0 = {}
      BY DEF Ident
    <2>2. Writes(sol(0), st, list, 0, bad) /\ Written(st, list, 0, bad) = sol(0)[{}]
      BY <2>1, <1>1
    <2>3. {} \in SUBSET {}
      OBVIOUS
    <2> QED BY <2>1, <2>2, <2>3 DEF Writes
  <1>3. sol(k + 1)[1 .. k] = sol(k)[1 .. k]
    <2>1. k + 1 \in Nat /\ k \in 0 .. k + 1 /\ 1 .. k \in SUBSET (1 .. k)
      OBVIOUS
    <2>2. Writes(sol(k + 1), st, list, k + 1, bad) /\ Writes(sol(k), st, list, k, bad)
      BY <1>1, <2>1
    <2>3. \A s \in SUBSET (1 .. k) : sol(k + 1)[s] = sol(k)[s]
      BY <2>1, <2>2, OneSolution
    <2> QED BY <2>1, <2>3
  <1>4. sol(k + 1)[1 .. k + 1] = WriteOne(sol(k + 1)[1 .. k], list, k + 1, bad)
    <2>1. k + 1 \in Nat /\ k + 1 \in 1 .. k + 1 /\ 1 .. k + 1 \in SUBSET (1 .. k + 1)
      OBVIOUS
    <2>3. Max(1 .. k + 1) = k + 1
      BY <2>1, MaxIs
    <2>4. (1 .. k + 1) \ {k + 1} = 1 .. k
      OBVIOUS
    <2>5. Writes(sol(k + 1), st, list, k + 1, bad)
      BY <1>1, <2>1
    <2>2. DOMAIN Ident(k + 1) = 1 .. k + 1 /\ Ident(k + 1)[k + 1] = k + 1
      BY DEF Ident
    <2> QED BY <2>1, <2>2, <2>3, <2>4, <2>5 DEF Writes
  <1> QED BY <1>1, <1>2, <1>3, <1>4

\* What holds of the table when k rows are written: no row is gone, and a row
\* that was there and was sent is seen, or its value is, in a new row.
Progress(rows, n, list, k, acc) ==
  /\ acc = [rows |-> acc.rows, last |-> acc.last, seen |-> acc.seen]
  /\ acc.last \in Nat /\ n <= acc.last
  /\ DOMAIN acc.rows \subseteq 1 .. acc.last
  /\ acc.seen \subseteq DOMAIN acc.rows
  /\ DOMAIN rows \subseteq DOMAIN acc.rows
  /\ (\A i \in DOMAIN list : list[i].id <= n) =>
       \A i \in 1 .. k : list[i].id \in DOMAIN rows =>
         \/ list[i].id \in acc.seen
         \/ \E x \in acc.seen : x > n /\ acc.rows[x] = list[i].value

LEMMA ProgressStep ==
  ASSUME NEW rows, NEW n \in Nat, NEW list \in Seq([id : Nat, value : Value]),
         NEW k \in Nat, k < Len(list), NEW bad, NEW acc, Progress(rows, n, list, k, acc)
  PROVE  Progress(rows, n, list, k + 1, WriteOne(acc, list, k + 1, bad))
  <1> DEFINE e == list[k + 1]
             new == WriteOne(acc, list, k + 1, bad)
             given == \A i \in DOMAIN list : list[i].id <= n
  <1> SUFFICES Progress(rows, n, list, k + 1, new)
    OBVIOUS
  <1>1. /\ k + 1 \in DOMAIN list /\ e.id \in Nat
        /\ \A i \in 1 .. k + 1 : i \in 1 .. k \/ i = k + 1
    <2>1. Len(list) \in Nat /\ DOMAIN list = 1 .. Len(list)
      OBVIOUS
    <2>2. k + 1 \in 1 .. Len(list) /\ \A i \in 1 .. k + 1 : i \in 1 .. k \/ i = k + 1
      BY <2>1
    <2> HIDE DEF e, new, given
    <2>3. list[k + 1] \in [id : Nat, value : Value]
      <3> DEFINE Row == [id : Nat, value : Value]
      <3>1. list \in Seq(Row)
        OBVIOUS
      <3> HIDE DEF Row
      <3>2. list[k + 1] \in Row
        BY <2>1, <2>2, <3>1
      <3> QED BY <3>2 DEF Row
    <2> USE DEF e
    <2> QED BY <2>1, <2>2, <2>3
  <1>2. CASE e.id \in DOMAIN acc.rows /\ k + 1 # bad
    <2>1. /\ new = [rows |-> [acc.rows EXCEPT ![e.id] = e.value], last |-> acc.last,
                    seen |-> acc.seen \cup {e.id}]
      BY <1>2 DEF Progress, WriteOne
    <2>2. /\ DOMAIN new.rows = DOMAIN acc.rows /\ new.last = acc.last
          /\ new.seen = acc.seen \cup {e.id}
          /\ \A x \in DOMAIN acc.rows : x # e.id => new.rows[x] = acc.rows[x]
      BY <2>1
    <2>3. ASSUME given, NEW i \in 1 .. k, list[i].id \in DOMAIN rows
          PROVE  \/ list[i].id \in new.seen
                 \/ \E x \in new.seen : x > n /\ new.rows[x] = list[i].value
      <3>1. e.id <= n
        BY <2>3, <1>1
      <3>2. ASSUME NEW x \in acc.seen, x > n, acc.rows[x] = list[i].value
            PROVE  x \in new.seen /\ new.rows[x] = list[i].value
        BY <2>2, <3>1, <3>2, <1>1 DEF Progress
      <3> QED BY <2>2, <2>3, <3>2 DEF Progress
    <2>4. e.id \in new.seen
      BY <2>2
    <2>5. new = [rows |-> new.rows, last |-> new.last, seen |-> new.seen]
      BY <2>1
    <2>6. given => \A i \in 1 .. k + 1 : list[i].id \in DOMAIN rows =>
                     \/ list[i].id \in new.seen
                     \/ \E x \in new.seen : x > n /\ new.rows[x] = list[i].value
      BY <1>1, <2>3, <2>4
    <2>7. /\ new.last \in Nat /\ n <= new.last /\ DOMAIN new.rows \subseteq 1 .. new.last
          /\ new.seen \subseteq DOMAIN new.rows /\ DOMAIN rows \subseteq DOMAIN new.rows
      BY <1>2, <2>2 DEF Progress
    <2> HIDE DEF new
    <2> QED BY <2>5, <2>6, <2>7 DEF Progress
  <1>3. CASE ~(e.id \in DOMAIN acc.rows /\ k + 1 # bad)
    <2>1. new = [rows |-> Put(acc.rows, acc.last + 1, e.value), last |-> acc.last + 1,
                 seen |-> acc.seen \cup {acc.last + 1}]
      BY <1>3 DEF WriteOne
    <2>2. /\ DOMAIN new.rows = DOMAIN acc.rows \cup {acc.last + 1} /\ new.last = acc.last + 1
          /\ new.seen = acc.seen \cup {acc.last + 1}
          /\ new.rows[acc.last + 1] = e.value
          /\ acc.last + 1 \notin DOMAIN acc.rows
          /\ \A x \in DOMAIN acc.rows : new.rows[x] = acc.rows[x]
      BY <2>1 DEF Put, Progress
    <2>3. ASSUME given, NEW i \in 1 .. k, list[i].id \in DOMAIN rows
          PROVE  \/ list[i].id \in new.seen
                 \/ \E x \in new.seen : x > n /\ new.rows[x] = list[i].value
      BY <2>2, <2>3 DEF Progress
    <2>4. \E x \in new.seen : x > n /\ new.rows[x] = e.value
      BY <2>2 DEF Progress
    <2>5. new = [rows |-> new.rows, last |-> new.last, seen |-> new.seen]
      BY <2>1
    <2>6. given => \A i \in 1 .. k + 1 : list[i].id \in DOMAIN rows =>
                     \/ list[i].id \in new.seen
                     \/ \E x \in new.seen : x > n /\ new.rows[x] = list[i].value
      BY <1>1, <2>3, <2>4
    <2>7. /\ new.last \in Nat /\ n <= new.last /\ DOMAIN new.rows \subseteq 1 .. new.last
          /\ new.seen \subseteq DOMAIN new.rows /\ DOMAIN rows \subseteq DOMAIN new.rows
      <3>1. /\ acc.last \in Nat /\ n <= acc.last /\ DOMAIN acc.rows \subseteq 1 .. acc.last
            /\ acc.seen \subseteq DOMAIN acc.rows /\ DOMAIN rows \subseteq DOMAIN acc.rows
        BY DEF Progress
      <3>2. acc.last + 1 \in Nat /\ 1 .. acc.last \cup {acc.last + 1} \subseteq 1 .. acc.last + 1
        BY <3>1
      <3>3. n <= acc.last + 1
        BY <3>1
      <3> HIDE DEF new
      <3> QED BY <2>2, <3>1, <3>2, <3>3
    <2> HIDE DEF new
    <2> QED BY <2>5, <2>6, <2>7 DEF Progress
  <1> QED BY <1>2, <1>3

LEMMA WrittenProgress ==
  ASSUME NEW rows, NEW n \in Nat, DOMAIN rows \subseteq 1 .. n,
         NEW list \in Seq([id : Nat, value : Value]), NEW bad
  PROVE  \A k \in 0 .. Len(list) :
           Progress(rows, n, list, k,
                    Written([rows |-> rows, last |-> n, seen |-> {}], list, k, bad))
  <1> DEFINE st == [rows |-> rows, last |-> n, seen |-> {}]
             Bad == {k \in 0 .. Len(list) : ~Progress(rows, n, list, k, Written(st, list, k, bad))}
  <1> SUFFICES ASSUME Bad # {} PROVE FALSE
    OBVIOUS
  <1>1. PICK k \in Bad : \A y \in Bad : k <= y
    <2>1. Bad \in SUBSET Nat
      OBVIOUS
    <2> HIDE DEF Bad
    <2> QED BY <2>1, LeastNumber
  <1>2. Progress(rows, n, list, 0, st)
    BY DEF Progress
  <1>3. Written(st, list, 0, bad) = st
    BY WrittenStep
  <1>4. k # 0
    BY <1>1, <1>2, <1>3
  <1>5. /\ k \in 0 .. Len(list) /\ k - 1 \in 0 .. Len(list) /\ k - 1 < Len(list)
        /\ k - 1 \in Nat /\ (k - 1) + 1 = k
    <2>1. Len(list) \in Nat /\ k \in 0 .. Len(list)
      BY <1>1
    <2> HIDE DEF Bad
    <2> QED BY <1>4, <2>1
  <1>6. Progress(rows, n, list, k - 1, Written(st, list, k - 1, bad))
    <2>1. k - 1 \notin Bad
      <3> HIDE DEF Bad
      <3> QED BY <1>1, <1>5
    <2> QED BY <1>5, <2>1
  <1>7. Written(st, list, (k - 1) + 1, bad)
          = WriteOne(Written(st, list, k - 1, bad), list, (k - 1) + 1, bad)
    <2> HIDE DEF st, Bad
    <2>1. \A j \in Nat : Written(st, list, j + 1, bad)
                           = WriteOne(Written(st, list, j, bad), list, j + 1, bad)
      BY WrittenStep
    <2> QED BY <1>5, <2>1
  <1>8. Progress(rows, n, list, (k - 1) + 1,
                 WriteOne(Written(st, list, k - 1, bad), list, (k - 1) + 1, bad))
    <2> HIDE DEF st, Bad
    <2> QED BY <1>5, <1>6, ProgressStep
  <1> QED BY <1>1, <1>5, <1>7, <1>8
\* A table after a list is saved, however it ended.
Survives(rows, n, list, o) ==
  /\ o.last \in Nat /\ DOMAIN o.rows \subseteq 1 .. o.last
  /\ (\A i \in DOMAIN list : list[i].id <= n) =>
       \A i \in DOMAIN list : list[i].id \in DOMAIN rows =>
         \/ list[i].id \in DOMAIN o.rows
         \/ \E x \in DOMAIN o.rows : o.rows[x] = list[i].value

LEMMA OutcomesSurvive ==
  ASSUME NEW rows, NEW n \in Nat, DOMAIN rows \subseteq 1 .. n,
         NEW list \in Seq([id : Nat, value : Value]), NEW o \in Outcomes(rows, n, list)
  PROVE  Survives(rows, n, list, o)
  <1> DEFINE st == [rows |-> rows, last |-> n, seen |-> {}]
             At(k, bad) == Written(st, list, k, bad)
             Result(w, gone, ok, bad) ==
               [rows |-> Without(w.rows, gone), last |-> w.last, ok |-> ok, bad |-> bad]
  <1>1. Len(list) \in Nat /\ DOMAIN list = 1 .. Len(list)
    OBVIOUS
  <1>2. \A bad : \A k \in 0 .. Len(list) : Progress(rows, n, list, k, At(k, bad))
    BY WrittenProgress
  <1>3. ASSUME NEW bad, NEW gone \in SUBSET (DOMAIN At(Len(list), bad).rows \ At(Len(list), bad).seen),
               NEW ok, NEW thrown, o = Result(At(Len(list), bad), gone, ok, thrown)
        PROVE  Survives(rows, n, list, o)
    <2> DEFINE w == At(Len(list), bad)
    <2>1. Progress(rows, n, list, Len(list), w)
      <3> HIDE DEF At
      <3>1. Len(list) \in 0 .. Len(list)
        BY <1>1
      <3> QED BY <1>2, <3>1
    <2>2. /\ DOMAIN o.rows = DOMAIN w.rows \ gone /\ o.last = w.last
          /\ \A x \in DOMAIN w.rows \ gone : o.rows[x] = w.rows[x]
      BY <1>3 DEF Without
    <2>3. \A x \in w.seen : x \notin gone
      BY <1>3
    <2> HIDE DEF w, st
    <2> QED BY <1>1, <2>1, <2>2, <2>3 DEF Progress, Survives
  <1>4. ASSUME NEW i \in DOMAIN list, o = Result(At(i - 1, 0), {}, FALSE, TRUE)
        PROVE  Survives(rows, n, list, o)
    <2> DEFINE w == At(i - 1, 0)
    <2>1. Progress(rows, n, list, i - 1, w)
      <3> HIDE DEF At
      <3>1. i - 1 \in 0 .. Len(list)
        BY <1>1
      <3> QED BY <1>2, <3>1
    <2>2. /\ DOMAIN o.rows = DOMAIN w.rows /\ o.last = w.last
      BY <1>4 DEF Without
    <2> HIDE DEF w, st
    <2> QED BY <2>1, <2>2 DEF Progress, Survives
  <1>5. \/ \E bad : \E gone \in SUBSET (DOMAIN At(Len(list), bad).rows \ At(Len(list), bad).seen) :
                       \E ok, thrown : o = Result(At(Len(list), bad), gone, ok, thrown)
        \/ \E i \in DOMAIN list : o = Result(At(i - 1, 0), {}, FALSE, TRUE)
    BY Zenon DEF Outcomes
  <1> HIDE DEF At, Result
  <1> QED BY <1>3, <1>4, <1>5
StoredTyped ==
  /\ lastSetting \in [Table -> Nat]
  /\ settings = [t \in Table |-> settings[t]]
  /\ \A t \in Table : DOMAIN settings[t] \subseteq 1 .. lastSetting[t]

\* What is sent for a table, and what SettingsSurvive says of it.
SurvivesIn(t, list) ==
  GivenOut(t, list) =>
    \A i \in DOMAIN list :
      list[i].id \in DOMAIN settings[t] =>
        \/ list[i].id \in DOMAIN settings'[t]
        \/ \E x \in DOMAIN settings'[t] : settings'[t][x] = list[i].value

LEMMA SetSettingsKeeps ==
  ASSUME StoredTyped, NEW service \in Lists, NEW symbol \in Lists, SetSettings(service, symbol)
  PROVE  /\ StoredTyped'
         /\ faults' = faults \/ Fault
         /\ SurvivesIn("service", service) /\ SurvivesIn("symbol", symbol)
  <1>1. PICK a \in Outcomes(settings["service"], lastSetting["service"], service),
             b \in Outcomes(settings["symbol"], lastSetting["symbol"], symbol) :
          /\ IF a.ok
             THEN /\ settings' = [service |-> a.rows, symbol |-> b.rows]
                  /\ lastSetting' = [service |-> a.last, symbol |-> b.last]
             ELSE /\ settings' = [settings EXCEPT !["service"] = a.rows]
                  /\ lastSetting' = [lastSetting EXCEPT !["service"] = a.last]
          /\ IF a.bad \/ b.bad THEN Fault ELSE UNCHANGED faults
    BY DEF SetSettings
  <1>2. /\ service \in Seq([id : Nat, value : Value]) /\ symbol \in Seq([id : Nat, value : Value])
        /\ lastSetting["service"] \in Nat /\ lastSetting["symbol"] \in Nat
        /\ DOMAIN settings["service"] \subseteq 1 .. lastSetting["service"]
        /\ DOMAIN settings["symbol"] \subseteq 1 .. lastSetting["symbol"]
    BY AdminAssumption DEF StoredTyped, Table
  <1>3. Survives(settings["service"], lastSetting["service"], service, a)
    BY <1>2, OutcomesSurvive
  <1>4. Survives(settings["symbol"], lastSetting["symbol"], symbol, b)
    BY <1>2, OutcomesSurvive
  <1>5. CASE a.ok
    <2>1. /\ settings'["service"] = a.rows /\ settings'["symbol"] = b.rows
          /\ lastSetting'["service"] = a.last /\ lastSetting'["symbol"] = b.last
          /\ DOMAIN settings' = Table /\ DOMAIN lastSetting' = Table
          /\ settings' = [t \in Table |-> settings'[t]]
          /\ lastSetting' = [t \in Table |-> lastSetting'[t]]
      BY <1>1, <1>5 DEF Table
    <2>2. StoredTyped'
      BY <2>1, <1>3, <1>4 DEF StoredTyped, Table, Survives
    <2>3. SurvivesIn("service", service) /\ SurvivesIn("symbol", symbol)
      BY <2>1, <1>3, <1>4 DEF SurvivesIn, Survives, GivenOut
    <2> QED BY <1>1, <2>2, <2>3
  <1>6. CASE ~a.ok
    <2>1. /\ settings'["service"] = a.rows /\ settings'["symbol"] = settings["symbol"]
          /\ lastSetting'["service"] = a.last /\ lastSetting'["symbol"] = lastSetting["symbol"]
          /\ settings' = [t \in Table |-> settings'[t]]
          /\ lastSetting' = [t \in Table |-> lastSetting'[t]]
      BY <1>1, <1>6 DEF Table, StoredTyped
    <2>2. StoredTyped'
      BY <2>1, <1>2, <1>3 DEF StoredTyped, Table, Survives
    <2>3. SurvivesIn("service", service) /\ SurvivesIn("symbol", symbol)
      BY <2>1, <1>3 DEF SurvivesIn, Survives, GivenOut
    <2> QED BY <1>1, <2>2, <2>3
  <1> QED BY <1>5, <1>6

LEMMA UnsetKeeps == StoredTyped /\ UnsetAny => StoredTyped'
  <1> SUFFICES ASSUME StoredTyped, NEW id, RmSymbolProperty(id)
               PROVE  StoredTyped'
    BY DEF UnsetAny
  <1> QED BY DEF RmSymbolProperty, StoredTyped, Table, Without

----------------------------------------------------------------------------
(* The theorems.                                                            *)

\* What every step does to the bounds, and what it leaves alone.
LEMMA StepsAreBounded ==
  ASSUME Inductive, Next
  PROVE  /\ requests < MaxRequests /\ requests' = requests + 1
         /\ faults' = faults \/ Fault
  <1>1. CASE LoginAny
    BY <1>1 DEF LoginAny, Login, Request, LoginByPassword, LoginByPlugin, LoginFault
  <1>2. CASE ChUserAny
    BY <1>2 DEF ChUserAny, ChUser, Request
  <1>3. CASE ChTypeAny
    <2>1. requests < MaxRequests /\ requests' = requests + 1
      BY <1>3 DEF ChTypeAny, ChPropertyType, Request
    <2>2. DictionaryTyped /\ faults \in Nat
      BY DEF Inductive, AdminInvariant, TypeOK, Counted, DictionaryTyped
    <2> QED BY <1>3, <2>1, <2>2, ChTypeAnyKeeps
  <1>4. CASE AddProperty
    BY <1>4 DEF AddProperty, Request
  <1>5. CASE SetAny
    <2>1. requests < MaxRequests /\ requests' = requests + 1
      BY <1>5 DEF SetAny, SetSettings, Request
    <2>2. StoredTyped
      BY DEF Inductive, AdminInvariant, TypeOK, Counted, StoredTyped
    <2> QED BY <1>5, <2>1, <2>2, SetSettingsKeeps DEF SetAny
  <1>6. CASE UnsetAny
    BY <1>6 DEF UnsetAny, RmSymbolProperty, Request
  <1> QED BY <1>1, <1>2, <1>3, <1>4, <1>5, <1>6 DEF Next

LEMMA StepKeeps == Inductive /\ [Next]_vars => Inductive'
  <1> SUFFICES ASSUME Inductive, [Next]_vars PROVE Inductive'
    OBVIOUS
  <1> DEFINE Bounded == requests \in 0 .. MaxRequests /\ faults \in 0 .. MaxFaults
  <1>1. /\ AccountsTyped /\ DictionaryTyped /\ StoredTyped /\ PropertiesTyped
        /\ Bounded /\ faults \in Nat
    BY DEF Inductive, AdminInvariant, TypeOK, Counted, AccountsTyped, DictionaryTyped, StoredTyped
  <1>2. ASSUME AccountsTyped', DictionaryTyped', StoredTyped', PropertiesTyped', Bounded'
        PROVE  Inductive'
    BY <1>2
       DEF Inductive, AdminInvariant, TypeOK, Counted, AccountsTyped, DictionaryTyped, StoredTyped
  <1>3. CASE UNCHANGED vars
    BY <1>3
       DEF vars, accounts, dictionary, stored, Inductive, AdminInvariant, TypeOK, PropertiesTyped,
           Counted
  <1>4. CASE Next
    <2>1. Bounded'
      <3>1. requests < MaxRequests /\ requests' = requests + 1 /\ (faults' = faults \/ Fault)
        BY <1>4, StepsAreBounded
      <3> QED BY <1>1, <3>1, AdminAssumption DEF Fault
    <2>2. faults' \in Nat /\ (faults' = 0 => faults = 0)
      BY <1>1, <1>4, StepsAreBounded, AdminAssumption DEF Fault
    <2>3. CASE LoginAny
      <3>1. AccountsTyped' /\ UNCHANGED <<dictionary, stored>>
        BY <1>1, <2>3, LoginAnyTyped DEF LoginAny, Login
      <3> QED BY <1>1, <1>2, <2>1, <2>2, <3>1
              DEF dictionary, stored, DictionaryTyped, StoredTyped, PropertiesTyped
    <2>4. CASE ChUserAny
      <3>1. AccountsTyped' /\ UNCHANGED <<dictionary, stored>>
        BY <1>1, <2>4, ChUserAnyTyped DEF ChUserAny, ChUser
      <3> QED BY <1>1, <1>2, <2>1, <2>2, <3>1
              DEF dictionary, stored, DictionaryTyped, StoredTyped, PropertiesTyped
    <2>5. CASE ChTypeAny
      <3>1. UNCHANGED <<accounts, stored>>
        BY <2>5 DEF ChTypeAny, ChPropertyType
      <3>2. DictionaryTyped' /\ PropertiesTyped'
        BY <1>1, <2>5, ChTypeAnyKeeps
      <3> QED BY <1>1, <1>2, <2>1, <3>1, <3>2 DEF accounts, stored, AccountsTyped, StoredTyped
    <2>6. CASE AddProperty
      <3>1. UNCHANGED <<accounts, stored>>
        BY <2>6 DEF AddProperty
      <3>2. DictionaryTyped' /\ PropertiesTyped'
        BY <1>1, <2>6, AddPropertyKeeps
      <3> QED BY <1>1, <1>2, <2>1, <3>1, <3>2 DEF accounts, stored, AccountsTyped, StoredTyped
    <2>7. CASE SetAny \/ UnsetAny
      <3>1. UNCHANGED <<accounts, dictionary>>
        BY <2>7 DEF SetAny, SetSettings, UnsetAny, RmSymbolProperty
      <3>2. StoredTyped'
        BY <1>1, <2>7, SetSettingsKeeps, UnsetKeeps DEF SetAny
      <3> QED BY <1>1, <1>2, <2>1, <2>2, <3>1, <3>2
              DEF accounts, dictionary, AccountsTyped, DictionaryTyped, PropertiesTyped
    <2> QED BY <1>4, <2>3, <2>4, <2>5, <2>6, <2>7 DEF Next
  <1> QED BY <1>3, <1>4

LEMMA AlwaysInductive == Spec => []Inductive
  BY Initially, StepKeeps, PTL DEF Spec

\* Ids are given out in turn, and as long as no database call throws, no card
\* has a property of a type that is gone: chPropertyType takes the properties
\* of the row it has found, by id or by key, before it takes the row.
THEOREM DictionaryIsTyped == Spec => []AdminInvariant
  <1>1. Inductive => AdminInvariant
    BY DEF Inductive
  <1> QED BY <1>1, AlwaysInductive, PTL

\* However many requests come and whatever throws, a login or a change that
\* names an account by its name makes no second account of a name.
THEOREM NamesAreUnique == Spec => NamesStayUnique
  <1>1. ASSUME Inductive, [Next]_vars, OneNameEach, ~ById' PROVE OneNameEach'
    <2>1. AccountsTyped
      BY <1>1 DEF Inductive, AdminInvariant, TypeOK, Counted, AccountsTyped
    <2>2. CASE UNCHANGED users
      BY <1>1, <2>2 DEF OneNameEach
    <2>3. CASE \E n \in UserName, p \in Password : Login(n, p)
      <3>1. PICK n \in UserName, p \in Password : Login(n, p)
        BY <2>3
      <3>2. CASE \E u \in DOMAIN users, k \in NewToken : Tokened(u, k)
        BY <1>1, <2>1, <3>2 DEF OneNameEach, Tokened, AccountsTyped, Account
      <3>3. CASE /\ Named(n) = {}
                 /\ \E row \in Account : /\ row.name = n
                                         /\ users' = Put(users, lastUser + 1, row)
        BY <1>1, <3>3 DEF OneNameEach, Put, Named
      <3> QED BY <2>1, <2>2, <3>1, <3>2, <3>3, LoginDoes
    <2>4. CASE \E op \in {"=", "+", "-"} : \E v \in UserChanges : ChUser(op, v)
      <3>1. PICK op \in {"=", "+", "-"}, v \in UserChanges : ChUser(op, v)
        BY <2>4
      <3>2. v.id = 0
        BY <1>1, <3>1 DEF ChUser, Request, ById
      <3>3. Target(v.id, v.row.name) = Named(v.row.name)
        BY <3>2 DEF Target
      <3>4. CASE /\ Named(v.row.name) = {}
                 /\ \E row \in Account : /\ row.name = v.row.name
                                         /\ users' = Put(users, lastUser + 1, row)
        BY <1>1, <3>4 DEF OneNameEach, Put, Named
      <3>5. CASE \E u \in Named(v.row.name) : users' = Put(users, u, v.row)
        BY <1>1, <3>5 DEF OneNameEach, Put, Named
      <3>6. CASE \E u \in DOMAIN users : users' = Without(users, {u})
        BY <1>1, <3>6 DEF OneNameEach, Without
      <3>7. v.row \in Account
        BY RowsAreAccounts
      <3> QED BY <2>2, <3>1, <3>3, <3>4, <3>5, <3>6, <3>7, ChUserDoes
    <2>5. UNCHANGED users \/ LoginAny \/ ChUserAny
      BY <1>1 DEF vars, accounts, Next, ChTypeAny, ChPropertyType, AddProperty, SetAny, SetSettings,
                  UnsetAny, RmSymbolProperty
    <2> QED BY <2>2, <2>3, <2>4, <2>5 DEF LoginAny, ChUserAny
  <1> QED BY <1>1, AlwaysInductive, PTL DEF Spec, NamesStayUnique

\* A login, whatever it throws, changes nothing of an account but its token,
\* and an account it makes has no rights.
THEOREM LoginGivesNoRights == Spec => LoginKeepsAccounts
  <1> DEFINE Kept ==
        \A u \in DOMAIN users' :
          IF u \in DOMAIN users
          THEN [users'[u] EXCEPT !.token = 0] = [users[u] EXCEPT !.token = 0]
          ELSE users'[u].rights = 0
  <1>1. ASSUME Inductive, [Next]_vars, last'.op = "login" PROVE Kept
    <2>1. AccountsTyped
      BY <1>1 DEF Inductive, AdminInvariant, TypeOK, Counted, AccountsTyped
    <2>2. CASE UNCHANGED users
      BY <2>2
    <2>3. CASE LoginAny
      <3>1. PICK n \in UserName, p \in Password : Login(n, p)
        BY <2>3 DEF LoginAny
      <3>2. CASE \E u \in DOMAIN users, k \in NewToken : Tokened(u, k)
        <4>1. /\ DOMAIN users' = DOMAIN users
              /\ \A x \in DOMAIN users :
                   [users'[x] EXCEPT !.token = 0] = [users[x] EXCEPT !.token = 0]
          BY <2>1, <3>2, TokenGiven
        <4> QED BY <4>1
      <3>3. CASE \E row \in Account : row.rights = 0 /\ users' = Put(users, lastUser + 1, row)
        <4>1. lastUser + 1 \notin DOMAIN users
          BY <2>1 DEF AccountsTyped
        <4>2. /\ DOMAIN users' = DOMAIN users \cup {lastUser + 1}
              /\ users'[lastUser + 1].rights = 0
              /\ \A x \in DOMAIN users : users'[x] = users[x]
          BY <3>3, <4>1 DEF Put
        <4> QED BY <4>1, <4>2
      <3> QED BY <2>1, <2>2, <3>1, <3>2, <3>3, LoginDoes
    <2>4. CASE UNCHANGED vars
      BY <2>2, <2>4 DEF vars, accounts
    <2>5. CASE ChUserAny
      BY <1>1, <2>5 DEF ChUserAny, ChUser, Request
    <2>6. CASE ChTypeAny \/ AddProperty \/ SetAny \/ UnsetAny
      BY <2>2, <2>6
         DEF ChTypeAny, ChPropertyType, AddProperty, SetAny, SetSettings, UnsetAny,
             RmSymbolProperty, accounts
    <2> QED BY <1>1, <2>3, <2>4, <2>5, <2>6 DEF Next
  <1> QED BY <1>1, AlwaysInductive, PTL DEF Spec, LoginKeepsAccounts

\* For every list of settings a client may send back, and wherever saving it
\* throws, a setting that was there and was sent is there afterwards, with its
\* id or with its value in a new row: saveSettings erases only rows it has not
\* seen, and only when all are written.
THEOREM NoSettingLost == Spec => SettingsSurvive
  <1>1. ASSUME Inductive, [Next]_vars, last'.op = "settings", NEW t \in Table
        PROVE  SurvivesIn(t, last'.sent[t])
    <2>1. StoredTyped
      BY <1>1 DEF Inductive, AdminInvariant, TypeOK, Counted, StoredTyped
    <2>2. CASE SetAny
      <3>1. PICK service \in Lists, symbol \in Lists : SetSettings(service, symbol)
        BY <2>2 DEF SetAny
      <3>2. last'.sent = [x \in Table |-> IF x = "service" THEN service ELSE symbol]
        BY <3>1 DEF SetSettings, Request
      <3>3. SurvivesIn("service", service) /\ SurvivesIn("symbol", symbol)
        BY <2>1, <3>1, SetSettingsKeeps
      <3>4. last'.sent["service"] = service /\ last'.sent["symbol"] = symbol
        BY <3>2 DEF Table
      <3> QED BY <3>3, <3>4 DEF Table
    <2>3. CASE UNCHANGED settings
      BY <2>3 DEF SurvivesIn
    <2>4. CASE UnsetAny
      BY <1>1, <2>4 DEF UnsetAny, RmSymbolProperty, Request
    <2>5. UNCHANGED settings \/ SetAny \/ UnsetAny
      BY <1>1 DEF vars, stored, Next, LoginAny, Login, ChUserAny, ChUser, ChTypeAny, ChPropertyType,
                  AddProperty
    <2> QED BY <2>2, <2>3, <2>4, <2>5
  <1> DEFINE Kept ==
        last'.op = "settings" =>
          \A t \in Table : GivenOut(t, last'.sent[t]) =>
            \A i \in DOMAIN last'.sent[t] :
              LET e == last'.sent[t][i] IN
              e.id \in DOMAIN settings[t] =>
                \/ e.id \in DOMAIN settings'[t]
                \/ \E x \in DOMAIN settings'[t] : settings'[t][x] = e.value
  <1>2. ASSUME Inductive, [Next]_vars PROVE Kept
    BY <1>1, <1>2 DEF SurvivesIn
  <1>3. SettingsSurvive <=> [][Kept]_vars
    BY DEF SettingsSurvive
  <1> HIDE DEF Kept
  <1> QED BY <1>2, <1>3, AlwaysInductive, PTL DEF Spec
=============================================================================
