-------------------------------- MODULE Admin -------------------------------
(***************************************************************************)
(* What an administrator keeps: accounts, the types of properties, and the *)
(* settings of the clients; and login, which gives an account a token and  *)
(* makes one for a name a login plugin knows.  A handler is one            *)
(* transaction and here one step; a step in which a database call throws   *)
(* commits what was done before, as the code does.  A handler whose only   *)
(* write throws changes nothing, and is left out.                          *)
(***************************************************************************)
EXTENDS Integers, SequencesExt

CONSTANTS
  UserName, Password,
  Plugin,        \* the accounts (name, password) a login plugin accepts
  Accounts,      \* what clients make of an account
  Key,           \* names of property types
  Value,         \* contents of a setting
  MaxToken,      \* tokens are 1 .. MaxToken (rand)
  Lists,         \* lists of settings clients send: id (0 for a new one), value
  MaxRequests, MaxFaults

ASSUME AdminAssumption ==
  /\ Plugin \subseteq UserName \X Password
  /\ Accounts \subseteq [name : UserName, password : Password, rights : {0, 1},
                          token : Nat]
  /\ MaxToken \in Nat \ {0} /\ MaxRequests \in Nat /\ MaxFaults \in Nat
  /\ Lists \subseteq Seq([id : Nat, value : Value])

VARIABLES
  users, lastUser,   \* User: id -> name, password, rights, token
  types, lastType,   \* PropertyType: id -> key (a unique index)
  props, lastProp,   \* Property, of which the type only
  settings, lastSetting,  \* ServiceSettings and SymbolProperty: id -> value
  answer,            \* what the last login was told
  last,              \* the last request
  requests, faults

accounts == <<users, lastUser, answer>>
dictionary == <<types, lastType, props, lastProp>>
stored == <<settings, lastSetting>>
vars == <<accounts, dictionary, stored, last, requests, faults>>

Table == {"service", "symbol"}
Right == {0, 1}
\* The token is a number: a change of an account stores the one sent.
Account == [name : UserName, password : Password, rights : Right, token : Nat]
NoAnswer == [success |-> FALSE, id |-> 0, token |-> 0]

TypeOK ==
  /\ DOMAIN users \subseteq 1 .. lastUser
  /\ \A u \in DOMAIN users : users[u] \in Account
  /\ DOMAIN types \subseteq 1 .. lastType /\ \A t \in DOMAIN types : types[t] \in Key
  /\ DOMAIN props \subseteq 1 .. lastProp /\ \A p \in DOMAIN props : props[p] \in Nat
  /\ \A t \in Table : DOMAIN settings[t] \subseteq 1 .. lastSetting[t]
  /\ requests \in 0 .. MaxRequests /\ faults \in 0 .. MaxFaults

Empty == [x \in {} |-> x]
Put(f, k, v) == [x \in DOMAIN f \cup {k} |-> IF x = k THEN v ELSE f[x]]
Without(f, S) == [x \in DOMAIN f \ S |-> f[x]]

\* A server starts with an administrator.
Init ==
  /\ \E a \in Accounts : a.rights = 1 /\ users = [u \in {1} |-> a]
  /\ lastUser = 1
  /\ types = Empty /\ lastType = 0 /\ props = Empty /\ lastProp = 0
  /\ settings = [t \in Table |-> Empty] /\ lastSetting = [t \in Table |-> 0]
  /\ answer = NoAnswer
  /\ last = [op |-> "none"]
  /\ requests = 0 /\ faults = 0

Request(r) ==
  /\ requests < MaxRequests /\ requests' = requests + 1
  /\ last' = r
Fault == faults < MaxFaults /\ faults' = faults + 1

Named(n) == {u \in DOMAIN users : users[u].name = n}
Known(n, p) == {u \in Named(n) : users[u].password = p}

\* checkUserRights: the rights of a row with the name and the password, or -1.
Rights(n, p) == IF Known(n, p) = {} THEN {-1} ELSE {users[u].rights : u \in Known(n, p)}

----------------------------------------------------------------------------
(* Accounts.                                                                *)

\* generateNewToken: rand until it is not 0.
NewToken == 1 .. MaxToken

\* checkCredentialsNSetToken
LoginByPassword(n, p) ==
  \E u \in Known(n, p), k \in NewToken :
    /\ users' = [users EXCEPT ![u].token = k]
    /\ answer' = [success |-> TRUE, id |-> u, token |-> k]
    /\ UNCHANGED <<lastUser, faults>>

\* A mutant: the account found is overwritten with what the request holds.
LoginByPluginOverwrites(n, p) ==
  /\ <<n, p>> \in Plugin
  /\ \E k \in NewToken :
       LET row == [name |-> n, password |-> p, rights |-> 0, token |-> k]
       IN  /\ IF Named(n) = {}
              THEN lastUser' = lastUser + 1 /\ users' = Put(users, lastUser + 1, row)
              ELSE UNCHANGED lastUser /\ \E u \in Named(n) : users' = Put(users, u, row)
           /\ answer' = [success |-> TRUE, id |-> 0, token |-> k]
  /\ UNCHANGED faults

\* setCredentialsNSetToken: a name that is there is updated under the id of
\* the request, which has none: that throws and is swallowed.
LoginByPlugin(n, p) ==
  /\ <<n, p>> \in Plugin
  /\ \E k \in NewToken :
       IF Named(n) = {}
       THEN /\ lastUser' = lastUser + 1
            /\ users' = Put(users, lastUser + 1,
                            [name |-> n, password |-> p, rights |-> 0, token |-> k])
            /\ answer' = [success |-> TRUE, id |-> lastUser + 1, token |-> k]
       ELSE /\ answer' = [success |-> TRUE, id |-> 0, token |-> k]
            /\ UNCHANGED <<users, lastUser>>
  /\ UNCHANGED faults

\* The write of the token throws: the password counts as wrong, unless a
\* plugin knows it, whose path then writes the row checkCredentials has found.
LoginFault(n, p) ==
  /\ Fault
  /\ \/ /\ Known(n, p) # {} /\ <<n, p>> \in Plugin
        /\ \E u \in Known(n, p), k \in NewToken :
             /\ users' = [users EXCEPT ![u].token = k]
             /\ answer' = [success |-> TRUE, id |-> u, token |-> k]
     \/ /\ Known(n, p) # {} /\ <<n, p>> \notin Plugin
        /\ answer' = NoAnswer /\ UNCHANGED users
     \/ /\ Known(n, p) = {} /\ <<n, p>> \in Plugin
        /\ \E k \in NewToken : answer' = [success |-> TRUE, id |-> 0, token |-> k]
        /\ UNCHANGED users
  /\ UNCHANGED lastUser

Login(n, p) ==
  /\ Request([op |-> "login", name |-> n, password |-> p])
  /\ \/ LoginByPassword(n, p)
     \/ Known(n, p) = {} /\ LoginByPlugin(n, p)
     \/ Known(n, p) = {} /\ <<n, p>> \notin Plugin /\ answer' = NoAnswer
        /\ UNCHANGED <<users, lastUser, faults>>
     \/ LoginFault(n, p)
  /\ UNCHANGED <<dictionary, stored>>

\* The rows a change is about: by id when one is given, else by name.
Target(id, name) == IF id # 0 THEN {id} \cap DOMAIN users ELSE Named(name)

\* A mutant: "=" looks for the id alone.
AssignUserById(v) ==
  IF v.id \in DOMAIN users
  THEN UNCHANGED lastUser /\ users' = Put(users, v.id, v.row)
  ELSE lastUser' = lastUser + 1 /\ users' = Put(users, lastUser + 1, v.row)

AssignUser(v) ==
  LET found == Target(v.id, v.row.name)
  IN  IF found = {}
      THEN lastUser' = lastUser + 1 /\ users' = Put(users, lastUser + 1, v.row)
      ELSE UNCHANGED lastUser /\ \E u \in found : users' = Put(users, u, v.row)

AddUser(v) ==
  IF Target(v.id, v.row.name) # {} THEN UNCHANGED <<users, lastUser>>
  ELSE /\ lastUser' = lastUser + 1
       /\ \E k \in NewToken :
            users' = Put(users, lastUser + 1, [v.row EXCEPT !.token = k])

RemoveUser(v) ==
  /\ LET found == Target(v.id, v.row.name)
     IN  IF found = {} THEN UNCHANGED users
         ELSE \E u \in found : users' = Without(users, {u})
  /\ UNCHANGED lastUser

\* CHECK_PERMISSION: some account may; a request of another is refused.
May == \E n \in UserName, p \in Password : 1 \in Rights(n, p)

ChUser(op, v) ==
  /\ May
  /\ Request([op |-> op, id |-> v.id])
  /\ \/ op = "=" /\ AssignUser(v)
     \/ op = "+" /\ AddUser(v)
     \/ op = "-" /\ RemoveUser(v)
  /\ UNCHANGED <<answer, dictionary, stored, faults>>

UserChanges == [id : 0 .. lastUser, row : Accounts]
ChUserAny == \E op \in {"=", "+", "-"} : \E v \in UserChanges : ChUser(op, v)
LoginAny == \E n \in UserName, p \in Password : Login(n, p)

----------------------------------------------------------------------------
(* Property types.                                                          *)

Typed(id, key) == IF id # 0 THEN {id} \cap DOMAIN types
                  ELSE {t \in DOMAIN types : types[t] = key}
KeyFree(key, t) == \A x \in DOMAIN types \ {t} : types[x] # key

\* persist or update of a key that is there breaks the index: it throws and
\* is swallowed.
AddType(v) ==
  IF KeyFree(v.key, 0)
  THEN lastType' = lastType + 1 /\ types' = Put(types, lastType + 1, v.key)
  ELSE UNCHANGED <<types, lastType>>
AssignType(v) ==
  IF Typed(v.id, v.key) = {} THEN AddType(v)
  ELSE /\ \E t \in Typed(v.id, v.key) :
            types' = IF KeyFree(v.key, t) THEN [types EXCEPT ![t] = v.key] ELSE types
       /\ UNCHANGED lastType

OfType(t) == {x \in DOMAIN props : props[x] = t}

\* A mutant: the properties of the type id in the request.
RemoveTypeById(v) ==
  /\ IF Typed(v.id, v.key) = {} THEN UNCHANGED <<types, props>>
     ELSE \E t \in Typed(v.id, v.key) : /\ types' = Without(types, {t})
                                        /\ props' = Without(props, OfType(v.id))
  /\ UNCHANGED <<lastType, faults>>

\* removePropertyFromCards swallows: the type goes with some properties left.
\* Or the erasure of the type throws, and its properties are gone.
RemoveType(v) ==
  /\ IF Typed(v.id, v.key) = {} THEN UNCHANGED <<types, props, faults>>
     ELSE \E t \in Typed(v.id, v.key) :
            \/ /\ types' = Without(types, {t}) /\ props' = Without(props, OfType(t))
               /\ UNCHANGED faults
            \/ /\ types' = Without(types, {t})
               /\ \E some \in SUBSET OfType(t) : props' = Without(props, some)
               /\ Fault
            \/ UNCHANGED types /\ props' = Without(props, OfType(t)) /\ Fault
  /\ UNCHANGED lastType

ChPropertyType(op, v) ==
  /\ May
  /\ Request([op |-> "type"])
  /\ \/ op = "=" /\ AssignType(v) /\ UNCHANGED <<props, faults>>
     \/ /\ op = "+" /\ UNCHANGED <<props, faults>>
        /\ IF Typed(v.id, v.key) # {} THEN UNCHANGED <<types, lastType>> ELSE AddType(v)
     \/ op = "-" /\ RemoveType(v)
  /\ UNCHANGED <<accounts, lastProp, stored>>

ChTypeAny == \E op \in {"=", "+", "-"} :
               \E v \in [id : 0 .. lastType, key : Key] : ChPropertyType(op, v)

\* chCard gives a card a property of a type a client has listed.
AddProperty ==
  /\ May
  /\ \E t \in DOMAIN types : props' = Put(props, lastProp + 1, t)
  /\ lastProp' = lastProp + 1
  /\ Request([op |-> "card"])
  /\ UNCHANGED <<accounts, types, lastType, stored, faults>>

----------------------------------------------------------------------------
(* Settings: the rows sent are written, then the rows not sent erased.      *)

\* The first k rows of a list; the update of row bad throws and becomes an
\* insert, as that of a row that is not there does.
Written(st, list, k, bad) ==
  FoldLeft(LAMBDA acc, i :
             IF list[i].id \in DOMAIN acc.rows /\ i # bad
             THEN [acc EXCEPT !.rows[list[i].id] = list[i].value,
                              !.seen = @ \cup {list[i].id}]
             ELSE [rows |-> Put(acc.rows, acc.last + 1, list[i].value),
                   last |-> acc.last + 1, seen |-> acc.seen \cup {acc.last + 1}],
           st, [i \in 1 .. k |-> i])

\* A mutant: all the old rows go first, then those sent are inserted.
OutcomesReplaceAll(rows, n, list) ==
  LET new == [x \in n + 1 .. n + Len(list) |-> list[x - n].value]
  IN  {[rows |-> new, last |-> n + Len(list), ok |-> TRUE, bad |-> FALSE],
       [rows |-> Empty, last |-> n, ok |-> FALSE, bad |-> TRUE]}

\* What may become of a table: all is well; one update throws; an insert
\* throws; an erase throws.
Outcomes(rows, n, list) ==
  LET st == [rows |-> rows, last |-> n, seen |-> {}]
      Old(w) == DOMAIN w.rows \ w.seen
      Result(w, gone, ok, bad) ==
        [rows |-> Without(w.rows, gone), last |-> w.last, ok |-> ok, bad |-> bad]
      all == Written(st, list, Len(list), 0)
  IN  {Result(all, Old(all), TRUE, FALSE)}
      \cup {LET w == Written(st, list, Len(list), i) IN Result(w, Old(w), TRUE, TRUE) :
              i \in {j \in DOMAIN list : list[j].id \in DOMAIN rows}}
      \cup {Result(Written(st, list, i - 1, 0), {}, FALSE, TRUE) : i \in DOMAIN list}
      \cup {Result(all, gone, FALSE, TRUE) : gone \in SUBSET Old(all)}

\* saveSettings: both tables, unless the first stops it.
SetSettings(service, symbol) ==
  /\ May
  /\ Request([op |-> "settings", sent |-> [t \in Table |->
                 IF t = "service" THEN service ELSE symbol]])
  /\ \E a \in Outcomes(settings["service"], lastSetting["service"], service) :
     \E b \in Outcomes(settings["symbol"], lastSetting["symbol"], symbol) :
       /\ IF a.ok
          THEN /\ settings' = [service |-> a.rows, symbol |-> b.rows]
               /\ lastSetting' = [service |-> a.last, symbol |-> b.last]
          ELSE /\ settings' = [settings EXCEPT !["service"] = a.rows]
               /\ lastSetting' = [lastSetting EXCEPT !["service"] = a.last]
       /\ IF a.bad \/ b.bad THEN Fault ELSE UNCHANGED faults
  /\ UNCHANGED <<accounts, dictionary>>

RmSymbolProperty(id) ==
  /\ May
  /\ Request([op |-> "unset"])
  /\ settings' = [settings EXCEPT !["symbol"] = Without(@, {id})]
  /\ UNCHANGED <<accounts, dictionary, lastSetting, faults>>

SetAny == \E service, symbol \in Lists : SetSettings(service, symbol)
UnsetAny == \E id \in DOMAIN settings["symbol"] : RmSymbolProperty(id)

Next == \/ LoginAny \/ ChUserAny \/ ChTypeAny \/ AddProperty
        \/ SetAny \/ UnsetAny

Spec == Init /\ [][Next]_vars

----------------------------------------------------------------------------

\* A name goes with one account, so that a name and a password mean one set
\* of rights: no change that names an account by its name, and no login, makes
\* a second row of a name.  (A change by id may.)
OneNameEach == \A u, v \in DOMAIN users : users[u].name = users[v].name => u = v
ById == last.op \in {"=", "+", "-"} /\ last.id # 0
NamesStayUnique == [][OneNameEach /\ ~ById' => OneNameEach']_vars

\* A login never changes the name, the password or the rights of an account
\* there is, and an account it makes has no rights, also when the password is
\* right for the plugin and not for the row.
LoginKeepsAccounts ==
  [][last'.op = "login" =>
       \A u \in DOMAIN users' :
         IF u \in DOMAIN users
         THEN [users'[u] EXCEPT !.token = 0] = [users[u] EXCEPT !.token = 0]
         ELSE users'[u].rights = 0]_vars

\* Removing a property type, whether by id or by key, leaves no card with a
\* property of no type, as long as no call throws.
PropertiesTyped == faults = 0 => \A x \in DOMAIN props : props[x] \in DOMAIN types

\* The invariant of the dictionaries: ids were given out in turn, and no property
\* is without its type.
AdminInvariant == TypeOK /\ PropertiesTyped

\* Ids of rows there are or were, or none.
GivenOut(t, list) == \A i \in DOMAIN list : list[i].id <= lastSetting[t]

\* Whatever throws while settings are saved, a setting that was there and was
\* sent is still there, old or new: nothing is erased before all is written.
\* That takes a client that sends back the ids it was given: the update that
\* throws becomes an insert, and a later row of the list with the id this
\* insert gets would overwrite it.
SettingsSurvive ==
  [][last'.op = "settings" =>
       \A t \in Table : GivenOut(t, last'.sent[t]) =>
         \A i \in DOMAIN last'.sent[t] :
           LET e == last'.sent[t][i] IN
           e.id \in DOMAIN settings[t] =>
             \/ e.id \in DOMAIN settings'[t]
             \/ \E x \in DOMAIN settings'[t] : settings'[t][x] = e.value]_vars
=============================================================================
