--------------------------- MODULE CardEditProofs ----------------------------
(***************************************************************************)
(* Theorems about chCard, for any cards, packages, requests and faults.    *)
(* The handler has a list of calls still to make.  The invariant says of   *)
(* the list what it may do to the tables as they are when each call comes  *)
(* to be made: all its rows are of one card, which is there, or is written *)
(* first, or goes last, after everything it has; and no package is written *)
(* but those the request may touch.                                        *)
(* The third part is about additions: the calls that may throw of          *)
(* themselves come before those that fill a box not yet listed.  The       *)
(* fourth is about removals: each erasing of a package is followed by its  *)
(* entry.  The last is about edits: every package sent is there to stay,   *)
(* or written by a call to come.                                           *)
(***************************************************************************)
EXTENDS CardEdit, OperatorProofs, SequenceTheorems

----------------------------------------------------------------------------
(* Ids in order.                                                            *)

\* Every element once.
LEMMA InIdOrderIs ==
  ASSUME NEW S \in SUBSET Nat, IsFiniteSet(S)
  PROVE  /\ InIdOrder(S) \in Seq(S)
         /\ \A x \in S : \E i \in DOMAIN InIdOrder(S) : InIdOrder(S)[i] = x
         /\ \A i, j \in DOMAIN InIdOrder(S) : InIdOrder(S)[i] = InIdOrder(S)[j] => i = j
  <1> DEFINE s == InIdOrder(S)
             n == Cardinality(S)
  <1>1. Sorted(s, S)
    BY SortedExists, Zenon DEF InIdOrder, Sorted
  <1> HIDE DEF s
  <1>2. /\ n \in Nat /\ s \in [1 .. n -> S]
        /\ \A x \in S : \E i \in 1 .. n : s[i] = x
        /\ \A i, j \in 1 .. n : s[i] = s[j] => i = j
    BY <1>1, SortedIs DEF Sorted
  <1> HIDE DEF n
  <1>3. s \in Seq(S) /\ DOMAIN s = 1 .. n
    BY <1>2
  <1> QED BY <1>2, <1>3 DEF s

----------------------------------------------------------------------------
(* Lists of lists.                                                          *)

Flattens(g, ss, n) ==
  g = [i \in 1 .. n |-> IF i = 1 THEN ss[i] ELSE g[i - 1] \o ss[i]]

LEMMA FlattensExists ==
  ASSUME NEW ss, NEW n \in Nat
  PROVE  \E g : Flattens(g, ss, n)
  <1> DEFINE Bad == {m \in Nat : ~\E g : Flattens(g, ss, m)}
  <1> SUFFICES ASSUME Bad # {} PROVE FALSE
    OBVIOUS
  <1>1. PICK m \in Bad : \A y \in Bad : m <= y
    BY LeastNumber
  <1>2. m # 0
    <2> DEFINE g == [i \in 1 .. 0 |-> 0]
    <2>1. Flattens(g, ss, 0)
      BY DEF Flattens
    <2> QED BY <1>1, <2>1
  <1>3. m - 1 \in Nat /\ m - 1 \notin Bad
    <2>1. m \in Nat
      BY <1>1
    <2>2. \A y \in Bad : y \in Nat
      OBVIOUS
    <2> HIDE DEF Bad
    <2> QED BY <1>1, <1>2, <2>1, <2>2
  <1>4. PICK g : Flattens(g, ss, m - 1)
    BY <1>3
  <1> DEFINE h == [i \in 1 .. m |-> IF i # m THEN g[i]
                                   ELSE IF i = 1 THEN ss[i] ELSE g[m - 1] \o ss[m]]
  <1>5. ASSUME NEW i \in 1 .. m
        PROVE  h[i] = IF i = 1 THEN ss[i] ELSE h[i - 1] \o ss[i]
    <2>1. CASE i = m
      <3>1. i # 1 => h[i - 1] = g[m - 1]
        BY <1>3, <2>1
      <3> QED BY <2>1, <3>1
    <2>2. CASE i # m
      <3>1. i \in 1 .. m - 1 /\ h[i] = g[i] /\ (i # 1 => h[i - 1] = g[i - 1])
        BY <1>3, <2>2
      <3>2. g[i] = IF i = 1 THEN ss[i] ELSE g[i - 1] \o ss[i]
        BY <1>4, <3>1 DEF Flattens
      <3> QED BY <3>1, <3>2
    <2> QED BY <2>1, <2>2
  <1>6. Flattens(h, ss, m)
    <2> HIDE DEF h
    <2>1. h = [i \in 1 .. m |-> h[i]]
      BY DEF h
    <2> QED BY <1>5, <2>1 DEF Flattens
  <1> QED BY <1>1, <1>6

\* Where each list begins in the whole: list after list, with nothing between.
LEMMA FlattenIs ==
  ASSUME NEW T, NEW ss \in Seq(Seq(T))
  PROVE  /\ FlattenSeq(ss) \in Seq(T)
         /\ \E at \in [DOMAIN ss -> Nat] :
              /\ \A i \in DOMAIN ss : \A j \in DOMAIN ss[i] :
                   /\ at[i] + j \in DOMAIN FlattenSeq(ss)
                   /\ FlattenSeq(ss)[at[i] + j] = ss[i][j]
              /\ \A k \in DOMAIN FlattenSeq(ss) :
                   \E i \in DOMAIN ss : \E j \in DOMAIN ss[i] : k = at[i] + j
              /\ \A i, j \in DOMAIN ss : i < j => at[i] + Len(ss[i]) <= at[j]
  <1> DEFINE n == Len(ss)
             g == CHOOSE g : Flattens(g, ss, n)
  <1>1. n \in Nat /\ DOMAIN ss = 1 .. n /\ \A i \in 1 .. n : ss[i] \in Seq(T)
    OBVIOUS
  <1>2. CASE n = 0
    <2>1. FlattenSeq(ss) = ss /\ ss = <<>>
      BY <1>2 DEF FlattenSeq
    <2> DEFINE at == [i \in DOMAIN ss |-> 0]
    <2>2. at \in [DOMAIN ss -> Nat] /\ DOMAIN ss = {} /\ FlattenSeq(ss) \in Seq(T)
      BY <1>1, <1>2, <2>1
    <2> HIDE DEF at
    <2> QED BY <2>1, <2>2
  <1>3. CASE n # 0
    <2>1. FlattenSeq(ss) = g[n]
      BY <1>3, Zenon DEF FlattenSeq, Flattens
    <2>2. Flattens(g, ss, n)
      BY <1>1, FlattensExists
    <2> HIDE DEF g, n
    <2>3. \A i \in 1 .. n : g[i] = IF i = 1 THEN ss[i] ELSE g[i - 1] \o ss[i]
      BY <1>1, <2>2 DEF Flattens
    <2> DEFINE at == [i \in 1 .. n |-> IF i = 1 THEN 0 ELSE Len(g[i - 1])]
               Covers(k) ==
                 /\ g[k] \in Seq(T)
                 /\ \A i \in 1 .. k : at[i] \in Nat /\ at[i] + Len(ss[i]) <= Len(g[k])
                 /\ \A i \in 1 .. k : \A j \in DOMAIN ss[i] :
                      at[i] + j \in DOMAIN g[k] /\ g[k][at[i] + j] = ss[i][j]
                 /\ \A x \in DOMAIN g[k] :
                      \E i \in 1 .. k : \E j \in DOMAIN ss[i] : x = at[i] + j
               Bad == {k \in 1 .. n : ~Covers(k)}
    <2>4. \A k \in 1 .. n : Covers(k)
      <3> SUFFICES ASSUME Bad # {} PROVE FALSE
        <4> HIDE DEF Covers
        <4> QED OBVIOUS
      <3>1. PICK k \in Bad : \A y \in Bad : k <= y
        <4>1. Bad \subseteq Nat
          BY <1>1
        <4> HIDE DEF Bad
        <4> QED BY <4>1, LeastNumber
      <3>2. k \in 1 .. n /\ ~Covers(k)
        OBVIOUS
      <3>3. CASE k = 1
        <4>1. g[1] = ss[1] /\ at[1] = 0 /\ ss[1] \in Seq(T)
          BY <1>1, <2>3, <3>2, <3>3
        <4> HIDE DEF at
        <4>2. \A x \in DOMAIN ss[1] : at[1] + x = x /\ x \in Nat
          BY <4>1
        <4>3. Covers(1)
          BY <4>1, <4>2
        <4> QED BY <3>2, <3>3, <4>3
      <3>4. CASE k # 1
        <4>1. k - 1 \in 1 .. n /\ k - 1 < k /\ k \in Nat
          BY <1>1, <3>2, <3>4
        <4>2. Covers(k - 1)
          <5>1. k - 1 \notin Bad
            <6> HIDE DEF Bad, Covers
            <6> QED BY <3>1, <4>1
          <5> HIDE DEF Covers
          <5> QED BY <4>1, <5>1
        <4> DEFINE s == g[k - 1]
                   t == ss[k]
        <4>3. /\ g[k] = s \o t /\ at[k] = Len(s) /\ t \in Seq(T) /\ s \in Seq(T)
          BY <1>1, <2>3, <3>2, <3>4, <4>2
        <4>4. /\ \A i \in 1 .. k - 1 : at[i] \in Nat /\ at[i] + Len(ss[i]) <= Len(s)
              /\ \A i \in 1 .. k - 1 : \A j \in DOMAIN ss[i] :
                   at[i] + j \in DOMAIN s /\ s[at[i] + j] = ss[i][j]
              /\ \A x \in DOMAIN s :
                   \E i \in 1 .. k - 1 : \E j \in DOMAIN ss[i] : x = at[i] + j
          BY <4>2
        <4>5. \A i \in 1 .. k : i = k \/ i \in 1 .. k - 1
          BY <4>1
        <4>6. \A i \in 1 .. k : ss[i] \in Seq(T) /\ Len(ss[i]) \in Nat
          BY <1>1, <3>2
        <4> HIDE DEF s, at
        <4>7. /\ s \o t \in Seq(T) /\ Len(s \o t) = Len(s) + Len(t)
              /\ Len(s) \in Nat /\ Len(t) \in Nat /\ DOMAIN s = 1 .. Len(s) /\ DOMAIN t = 1 .. Len(t)
              /\ DOMAIN (s \o t) = 1 .. Len(s) + Len(t)
              /\ \A x \in 1 .. Len(s) : (s \o t)[x] = s[x]
              /\ \A x \in 1 .. Len(t) : (s \o t)[Len(s) + x] = t[x]
          <5> HIDE DEF t
          <5> QED BY <4>3
        <4>8. \A i \in 1 .. k : at[i] \in Nat /\ at[i] + Len(ss[i]) <= Len(g[k])
          <5>1. ASSUME NEW i \in 1 .. k - 1
                PROVE at[i] \in Nat /\ at[i] + Len(ss[i]) <= Len(g[k])
            <6>1. at[i] \in Nat /\ at[i] + Len(ss[i]) <= Len(s) /\ Len(ss[i]) \in Nat
              BY <4>1, <4>4, <4>6
            <6> HIDE DEF t
            <6> QED BY <6>1, <4>3, <4>7
          <5> QED BY <4>3, <4>5, <4>7, <5>1
        <4>9. ASSUME NEW i \in 1 .. k, NEW j \in DOMAIN ss[i]
              PROVE  at[i] + j \in DOMAIN g[k] /\ g[k][at[i] + j] = ss[i][j]
          <5>1. CASE i = k
            <6>1. j \in 1 .. Len(t) /\ at[i] + j = Len(s) + j /\ ss[i] = t
              BY <4>3, <4>7, <5>1
            <6>2. Len(s) + j \in 1 .. Len(s) + Len(t)
              <7> HIDE DEF t
              <7> QED BY <4>7, <6>1
            <6> HIDE DEF t
            <6> QED BY <4>3, <4>7, <6>1, <6>2
          <5>2. CASE i \in 1 .. k - 1
            <6>1. at[i] + j \in DOMAIN s /\ s[at[i] + j] = ss[i][j]
              BY <4>4, <5>2
            <6> HIDE DEF t
            <6> QED BY <4>3, <4>7, <6>1
          <5> QED BY <4>5, <5>1, <5>2
        <4>10. ASSUME NEW x \in DOMAIN g[k]
               PROVE  \E i \in 1 .. k : \E j \in DOMAIN ss[i] : x = at[i] + j
          <5>1. CASE x \in DOMAIN s
            <6>1. PICK i \in 1 .. k - 1 : \E j \in DOMAIN ss[i] : x = at[i] + j
              BY <4>4, <5>1
            <6>2. i \in 1 .. k
              BY <4>1
            <6> QED BY <6>1, <6>2
          <5>2. CASE x \notin DOMAIN s
            <6>1. x - Len(s) \in 1 .. Len(t) /\ x = Len(s) + (x - Len(s))
              <7> HIDE DEF t
              <7> QED BY <4>3, <4>7, <5>2
            <6>2. x - Len(s) \in DOMAIN ss[k] /\ k \in 1 .. k
              BY <4>1, <4>7, <6>1
            <6> QED BY <4>3, <6>1, <6>2
          <5> QED BY <5>1, <5>2
        <4>11. g[k] \in Seq(T)
          BY <4>3, <4>7
        <4>12. Covers(k)
          BY <4>8, <4>9, <4>10, <4>11
        <4> QED BY <3>2, <4>12
      <3> QED BY <3>3, <3>4
    <2>5. Covers(n) /\ n \in 1 .. n
      <3>1. n \in 1 .. n
        BY <1>1, <1>3
      <3> HIDE DEF Covers
      <3> QED BY <2>4, <3>1
    <2>6. ASSUME NEW i \in 1 .. n, NEW j \in 1 .. n, i < j
          PROVE  at[i] + Len(ss[i]) <= at[j]
      <3>1. j # 1 /\ j - 1 \in 1 .. n /\ i \in 1 .. j - 1
        BY <1>1, <2>6
      <3>2. at[j] = Len(g[j - 1])
        BY <3>1
      <3>3. Covers(j - 1)
        <4> HIDE DEF Covers
        <4> QED BY <2>4, <3>1
      <3> HIDE DEF at
      <3> QED BY <3>1, <3>2, <3>3
    <2>7. at \in [1 .. n -> Nat]
      BY <1>1, <2>5
    <2> HIDE DEF at
    <2>8. /\ FlattenSeq(ss) \in Seq(T)
          /\ \A i \in DOMAIN ss : \A j \in DOMAIN ss[i] :
               /\ at[i] + j \in DOMAIN FlattenSeq(ss)
               /\ FlattenSeq(ss)[at[i] + j] = ss[i][j]
          /\ \A k \in DOMAIN FlattenSeq(ss) :
               \E i \in DOMAIN ss : \E j \in DOMAIN ss[i] : k = at[i] + j
      <3>1. DOMAIN ss = 1 .. n /\ FlattenSeq(ss) = g[n]
        BY <1>1, <2>1
      <3>2. FlattenSeq(ss) \in Seq(T)
        BY <2>5, <3>1
      <3>3. \A i \in DOMAIN ss : \A j \in DOMAIN ss[i] :
              at[i] + j \in DOMAIN FlattenSeq(ss) /\ FlattenSeq(ss)[at[i] + j] = ss[i][j]
        BY <2>5, <3>1
      <3>4. ASSUME NEW k \in DOMAIN FlattenSeq(ss)
            PROVE  \E i \in DOMAIN ss : \E j \in DOMAIN ss[i] : k = at[i] + j
        <4>1. k \in DOMAIN g[n]
          BY <3>1
        <4>2. PICK i \in 1 .. n : \E j \in DOMAIN ss[i] : k = at[i] + j
          BY <2>5, <4>1
        <4> QED BY <3>1, <4>2
      <3> QED BY <3>2, <3>3, <3>4
    <2>9. \A i, j \in DOMAIN ss : i < j => at[i] + Len(ss[i]) <= at[j]
      BY <1>1, <2>6
    <2>10. at \in [DOMAIN ss -> Nat]
      BY <1>1, <2>7
    <2> QED BY <2>8, <2>9, <2>10, Zenon
  <1> QED BY <1>2, <1>3

\* A list built from lists, one for each element of another.
LEMMA ListsOf ==
  ASSUME NEW T, NEW X, NEW s \in Seq(X), NEW ss, ss = [i \in DOMAIN s |-> ss[i]],
         \A i \in DOMAIN s : ss[i] \in Seq(T)
  PROVE  ss \in Seq(Seq(T)) /\ DOMAIN ss = DOMAIN s
  <1>1. Len(s) \in Nat /\ DOMAIN s = 1 .. Len(s)
    OBVIOUS
  <1>2. ss \in [1 .. Len(s) -> Seq(T)]
    BY <1>1
  <1> QED BY <1>1, <1>2

\* One element in front.
LEMMA InFront ==
  ASSUME NEW X, NEW rest \in Seq(X), NEW a
  PROVE  /\ <<a>> \o rest # <<>>
         /\ Head(<<a>> \o rest) = a
         /\ Tail(<<a>> \o rest) = rest
  <1> DEFINE Y == X \cup {a}
  <1>1. <<a>> \in Seq(Y) /\ rest \in Seq(Y)
    OBVIOUS
  <1> HIDE DEF Y
  <1>2. /\ <<a>> \o rest \in Seq(Y) /\ Len(<<a>> \o rest) = 1 + Len(rest)
        /\ (<<a>> \o rest)[1] = a /\ Len(rest) \in Nat
        /\ \A i \in 1 .. Len(rest) : (<<a>> \o rest)[1 + i] = rest[i]
    BY <1>1
  <1>3. <<a>> \o rest # <<>> /\ Head(<<a>> \o rest) = a
    BY <1>2
  <1>4. Tail(<<a>> \o rest) \in Seq(Y) /\ Len(Tail(<<a>> \o rest)) = Len(rest)
        /\ \A i \in 1 .. Len(rest) : Tail(<<a>> \o rest)[i] = rest[i]
    BY <1>2, <1>3
  <1> QED BY <1>1, <1>3, <1>4

----------------------------------------------------------------------------
(* The calls ahead.  Their rows belong to one card, which is there, or to   *)
(* be written first, or is the one to be erased last.                       *)

PackOf(c) == [card : {c}, box : Boxes, qty : Qty]
PropOf(c) == [card : {c}, pair : STRING \X STRING]

Inserts(c) ==
  [table : {"pack"}, do : {"insert"}, id : {0}, row : PackOf(c)]
  \cup [table : {"prop"}, do : {"insert"}, id : {0}, row : PropOf(c)]
Updates(c, mine) ==
  [table : {"pack"}, do : {"update"}, id : mine, row : PackOf(c)]
  \cup [table : {"prop"}, do : {"update"}, id : Nat, row : PropOf(c)]
Erases(mine) ==
  [table : {"pack"}, do : {"erase"}, id : mine, row : {<<>>}]
  \cup [table : {"prop"}, do : {"erase"}, id : Nat, row : {<<>>}]
Logs == [table : {"log"}, do : {"insert"}, id : {0}, row : Entry]
        \cup {[table |-> "end", do |-> "read"]}
Lists == [table : {"box"}, do : {"insert"}, id : {0}, row : Boxes]

Quiet(c, mine) == Inserts(c) \cup Updates(c, mine) \cup Erases(mine) \cup Logs \cup Lists

\* The packages a request may write.
MineFor(r) ==
  {p \in Nat : p \in DOMAIN saved.pack =>
                 IF r.op = "+" THEN saved.card[saved.pack[p].card].name = r.name
                 ELSE saved.pack[p].card = r.card}

Ready(s, mine) == \E c \in DOMAIN card : s \in Seq(Quiet(c, mine))
NewFirst(s, mine) ==
  \E row \in CardRow, rest \in Seq(Quiet(lastCard + 1, mine)) :
    s = Insert("card", row) \o rest
CardFirst(s, mine) ==
  \E c \in Nat, row \in CardRow : \E rest \in Seq(Quiet(c, mine)) :
    s = Update("card", c, row) \o rest
ErasedIn(s, table, id) ==
  \E i \in DOMAIN s : s[i] = [table |-> table, do |-> "erase", id |-> id, row |-> <<>>]
CardLast(s, mine) ==
  \E c \in Nat : \E rest \in Seq(Erases(mine) \cup Logs) :
    /\ s = rest \o Erase("card", c)
    /\ \A x \in PropsOf(c) : ErasedIn(rest, "prop", x)
    /\ \A p \in PacksOf(c) : ErasedIn(rest, "pack", p)

Safe(s, mine) ==
  \/ s = <<>> \/ Ready(s, mine) \/ NewFirst(s, mine) \/ CardFirst(s, mine) \/ CardLast(s, mine)

PropsOK(f, last) ==
  /\ last \in Nat /\ DOMAIN f \subseteq 1 .. last
  /\ \A x \in DOMAIN f : f[x] \in [card : Nat, pair : STRING \X STRING]

Owned == /\ Orphanless(Image)
         /\ \A x \in DOMAIN prop : prop[x].card \in DOMAIN card

Stores ==
  /\ ImageOK(Image) /\ ImageOK(saved)
  /\ PropsOK(prop, lastProp) /\ PropsOK(savedProp[1], savedProp[2])
  /\ Owned /\ NoOrphans
  /\ saved.lastPack <= lastPack
  /\ requests \in 0 .. MaxRequests /\ faults \in 0 .. MaxFaults

Between == Idle => todo = <<>> /\ card = saved.card /\ pack = saved.pack

IInv == Stores /\ Between /\ OthersUntouched /\ Safe(todo, MineFor(req))

\* The calls by name.
LEMMA CallsAre ==
  ASSUME NEW c, NEW mine
  PROVE  /\ \A row \in PackOf(c) : Insert("pack", row) \in Seq(Quiet(c, mine))
         /\ \A row \in PropOf(c) : Insert("prop", row) \in Seq(Quiet(c, mine))
         /\ \A p \in mine : \A row \in PackOf(c) : Update("pack", p, row) \in Seq(Quiet(c, mine))
         /\ \A x \in Nat : \A row \in PropOf(c) : Update("prop", x, row) \in Seq(Quiet(c, mine))
         /\ \A p \in mine : Erase("pack", p) \in Seq(Erases(mine) \cup Logs)
         /\ \A x \in Nat : Erase("prop", x) \in Seq(Erases(mine) \cup Logs)
         /\ \A op \in OpSymbol, p \in Nat, n \in Qty :
              Log(op, p, n) \in Seq(Erases(mine) \cup Logs)
         /\ <<[table |-> "end", do |-> "read"]>> \in Seq(Quiet(c, mine))
         /\ \A b \in Boxes : Insert("box", b) \in Seq(Quiet(c, mine))
         /\ Seq(Erases(mine) \cup Logs) \subseteq Seq(Quiet(c, mine))
  <1>1. \A op \in OpSymbol, p \in Nat, n \in Qty : Log(op, p, n) \in Seq(Logs)
    BY DEF Log, Insert, Logs, Entry
  <1>2. \A s \in Seq(Logs) : s \in Seq(Erases(mine) \cup Logs)
    OBVIOUS
  <1>3. \A s \in Seq(Erases(mine) \cup Logs) : s \in Seq(Quiet(c, mine))
    BY DEF Quiet
  <1>4. /\ \A row \in PackOf(c) : Insert("pack", row) \in Seq(Quiet(c, mine))
        /\ \A row \in PropOf(c) : Insert("prop", row) \in Seq(Quiet(c, mine))
    BY DEF Insert, Quiet, Inserts
  <1>5. /\ \A p \in mine : \A row \in PackOf(c) : Update("pack", p, row) \in Seq(Quiet(c, mine))
        /\ \A x \in Nat : \A row \in PropOf(c) : Update("prop", x, row) \in Seq(Quiet(c, mine))
    BY DEF Update, Quiet, Updates
  <1>6. /\ \A p \in mine : Erase("pack", p) \in Seq(Erases(mine) \cup Logs)
        /\ \A x \in Nat : Erase("prop", x) \in Seq(Erases(mine) \cup Logs)
    BY DEF Erase, Erases
  <1>7. /\ <<[table |-> "end", do |-> "read"]>> \in Seq(Quiet(c, mine))
        /\ \A b \in Boxes : Insert("box", b) \in Seq(Quiet(c, mine))
    BY DEF Insert, Quiet, Logs, Lists
  <1> QED BY <1>1, <1>2, <1>3, <1>4, <1>5, <1>6, <1>7

LEMMA FlatOf ==
  ASSUME NEW T, NEW X, NEW s \in Seq(X), NEW ss, ss = [i \in DOMAIN s |-> ss[i]],
         \A i \in DOMAIN s : ss[i] \in Seq(T)
  PROVE  FlattenSeq(ss) \in Seq(T)
  BY ListsOf, FlattenIs

LEMMA FirstIs ==
  ASSUME NEW S
  PROVE  FirstOf(S) \subseteq S
  BY DEF FirstOf

\* Ids of rows are numbers, and there are finitely many.
LEMMA IdsAre ==
  ASSUME Stores
  PROVE  /\ \A p \in DOMAIN pack : p \in Nat /\ p # 0
         /\ \A x \in DOMAIN prop : x \in Nat /\ x # 0
         /\ \A c : PacksOf(c) \in SUBSET Nat /\ IsFiniteSet(PacksOf(c))
         /\ \A c : PropsOf(c) \in SUBSET Nat /\ IsFiniteSet(PropsOf(c))
  <1>1. /\ lastPack \in Nat /\ DOMAIN pack \subseteq 1 .. lastPack
        /\ lastProp \in Nat /\ DOMAIN prop \subseteq 1 .. lastProp
    BY DEF Stores, ImageOK, Image, PropsOK
  <1>2. /\ \A c : PacksOf(c) \in SUBSET (1 .. lastPack)
        /\ \A c : PropsOf(c) \in SUBSET (1 .. lastProp)
    BY <1>1 DEF PacksOf, PropsOf
  <1>3. IsFiniteSet(1 .. lastPack) /\ IsFiniteSet(1 .. lastProp)
    BY <1>1, FS_Interval
  <1>4. \A c : IsFiniteSet(PacksOf(c)) /\ IsFiniteSet(PropsOf(c))
    BY <1>2, <1>3, FS_Subset
  <1> QED BY <1>1, <1>2, <1>4

----------------------------------------------------------------------------
(* What each request makes of the tables it reads.                          *)

LEMMA PlusTyped ==
  ASSUME NEW r \in PlusRequests
  PROVE  /\ r.op = "+" /\ r.name \in Name
         /\ r.props \in Seq(STRING \X STRING)
         /\ r.packs \in Seq([id : Nat, box : Boxes, qty : Qty])
         /\ \A i \in DOMAIN r.packs : r.packs[i].id = 0
  BY TablesAssumption, CardEditAssumption DEF PlusRequests

LEMMA ElementOf ==
  ASSUME NEW T, NEW s \in Seq(T), NEW i \in DOMAIN s
  PROVE  s[i] \in T
  OBVIOUS

\* A package of a request, and its row.
LEMMA AskedIs ==
  ASSUME NEW asked \in Seq([id : Nat, box : Boxes, qty : Qty]), NEW i \in DOMAIN asked, NEW c
  PROVE  /\ asked[i].id \in Nat /\ asked[i].box \in Boxes /\ asked[i].qty \in Qty
         /\ [card |-> c, box |-> asked[i].box, qty |-> asked[i].qty] \in PackOf(c)
  <1>1. asked[i] \in [id : Nat, box : Boxes, qty : Qty]
    BY ElementOf
  <1>2. asked[i].id \in Nat /\ asked[i].box \in Boxes /\ asked[i].qty \in Qty
    BY <1>1
  <1> QED BY <1>2 DEF PackOf

LEMMA Joined ==
  ASSUME NEW T, NEW a \in Seq(T), NEW b \in Seq(T)
  PROVE  a \o b \in Seq(T)
  OBVIOUS

LEMMA ListBoxesQuiet ==
  ASSUME NEW asked \in Seq([id : Nat, box : Boxes, qty : Qty]), NEW c, NEW mine
  PROVE  ListBoxes(asked) \in Seq(Quiet(c, mine))
  <1> DEFINE ss == [i \in DOMAIN asked |-> Insert("box", asked[i].box)]
  <1>1. \A i \in DOMAIN asked : asked[i].box \in Boxes
    BY AskedIs
  <1>3. \A i \in DOMAIN asked : ss[i] \in Seq(Quiet(c, mine))
    BY <1>1, CallsAre
  <1>2. ListBoxes(asked) = FlattenSeq(ss)
    BY DEF ListBoxes, ForEach
  <1> QED BY <1>2, <1>3, FlatOf

LEMMA NewCardSafe ==
  ASSUME Stores, NEW r \in PlusRequests, NEW mine
  PROVE  NewFirst(NewCard(r) \o ListBoxes(r.packs), mine)
  <1> DEFINE c == lastCard + 1
             T == Quiet(c, mine)
             row == [name |-> r.name, props |-> <<>>]
             A == ForEach(LAMBDA v : Insert("prop", [card |-> c, pair |-> v]), r.props)
             B == ForEach(LAMBDA p : Insert("pack", [card |-> c, box |-> p.box, qty |-> p.qty])
                                     \o Log("-", LastInserted, p.qty), r.packs)
             aa == [i \in DOMAIN r.props |-> Insert("prop", [card |-> c, pair |-> r.props[i]])]
             bb == [i \in DOMAIN r.packs |->
                      Insert("pack", [card |-> c, box |-> r.packs[i].box, qty |-> r.packs[i].qty])
                      \o Log("-", LastInserted, r.packs[i].qty)]
  <1>1. NewCard(r) = Insert("card", row) \o A \o B
    BY DEF NewCard
  <1>2. A = FlattenSeq(aa) /\ B = FlattenSeq(bb)
    BY DEF ForEach
  <1>3. A \in Seq(T)
    <2>1. \A i \in DOMAIN r.props : r.props[i] \in STRING \X STRING
      BY PlusTyped
    <2>2. \A i \in DOMAIN r.props : [card |-> c, pair |-> r.props[i]] \in PropOf(c)
      BY <2>1 DEF PropOf
    <2>3. \A i \in DOMAIN r.props : aa[i] \in Seq(T)
      BY <2>2, CallsAre
    <2> HIDE DEF T
    <2> QED BY <1>2, <2>3, PlusTyped, FlatOf
  <1>4. B \in Seq(T)
    <2>1. \A i \in DOMAIN r.packs : r.packs[i].box \in Boxes /\ r.packs[i].qty \in Qty
      BY PlusTyped, AskedIs
    <2>2. \A i \in DOMAIN r.packs :
            [card |-> c, box |-> r.packs[i].box, qty |-> r.packs[i].qty] \in PackOf(c)
      BY PlusTyped, AskedIs
    <2>3. \A i \in DOMAIN r.packs : Log("-", LastInserted, r.packs[i].qty) \in Seq(T)
      BY <2>1, CallsAre DEF LastInserted, OpSymbol
    <2>4. \A i \in DOMAIN r.packs :
            Insert("pack", [card |-> c, box |-> r.packs[i].box, qty |-> r.packs[i].qty]) \in Seq(T)
      BY <2>2, CallsAre
    <2>5. \A i \in DOMAIN r.packs : bb[i] \in Seq(T)
      BY <2>3, <2>4, Joined
    <2>6. bb = [i \in DOMAIN r.packs |-> bb[i]]
      OBVIOUS
    <2>7. r.packs \in Seq([id : Nat, box : Boxes, qty : Qty])
      BY PlusTyped
    <2> HIDE DEF T, bb
    <2>8. FlattenSeq(bb) \in Seq(T)
      BY <2>5, <2>6, <2>7, FlatOf
    <2> QED BY <1>2, <2>8
  <1>5. ListBoxes(r.packs) \in Seq(T)
    BY PlusTyped, ListBoxesQuiet
  <1>6. row \in CardRow
    BY PlusTyped DEF CardRow
  <1> HIDE DEF T, A, B, row
  <1> DEFINE L == ListBoxes(r.packs)
             first == Insert("card", row)
             Y == T \cup {[table |-> "card", do |-> "insert", id |-> 0, row |-> row]}
  <1>7. first \in Seq(Y) /\ A \in Seq(Y) /\ B \in Seq(Y) /\ L \in Seq(Y)
    <2>1. \A s \in Seq(T) : s \in Seq(Y)
      OBVIOUS
    <2>2. first \in Seq(Y)
      BY DEF Insert
    <2> QED BY <1>3, <1>4, <1>5, <2>1, <2>2
  <1>8. A \o B \o L \in Seq(T)
    BY <1>3, <1>4, <1>5
  <1> HIDE DEF L, Y, first
  <1>9. ((first \o A) \o B) \o L = first \o ((A \o B) \o L)
    <2>1. A \o B \in Seq(Y)
      BY <1>7
    <2>2. (first \o A) \o B = first \o (A \o B)
      BY <1>7, ConcatAssociative
    <2> DEFINE ab == A \o B
    <2>3. ab \in Seq(Y)
      BY <2>1
    <2> HIDE DEF ab
    <2>4. (first \o ab) \o L = first \o (ab \o L)
      BY <1>7, <2>3, ConcatAssociative
    <2> QED BY <2>2, <2>4 DEF ab
  <1> QED BY <1>1, <1>6, <1>8, <1>9 DEF NewFirst, T, first, L

\* A card that is there: its packages, and new ones.
LEMMA AddPackagesQuiet ==
  ASSUME Stores, Between, Idle, NEW r \in PlusRequests, NEW c \in DOMAIN card,
         card[c].name = r.name
  PROVE  AddPackages(c, r.packs) \in Seq(Quiet(c, MineFor(r)))
  <1> DEFINE asked == r.packs
             T == Quiet(c, MineFor(r))
             Asked(p) == FirstOf({i \in DOMAIN asked : asked[i].box = pack[p].box})
             hits == {p \in PacksOf(c) : Asked(p) # {}}
             seen == {asked[i].id : i \in UNION {Asked(p) : p \in hits}}
             Replace(p) == LET q == asked[CHOOSE i \in Asked(p) : TRUE]
                           IN  IF q.qty = 0 THEN Erase("pack", q.id)
                               ELSE Log("-", p, q.qty)
                                    \o Update("pack", p, [card |-> c, box |-> q.box, qty |-> q.qty])
             New(q) == IF ~Unseen(q.id, seen) \/ q.qty = 0 THEN <<>>
                       ELSE Insert("pack", [card |-> c, box |-> q.box, qty |-> q.qty])
                            \o Log("-", LastInserted, q.qty)
             h == InIdOrder(hits)
             aa == [i \in DOMAIN h |-> Replace(h[i])]
             bb == [i \in DOMAIN asked |-> New(asked[i])]
  <1>1. AddPackages(c, r.packs) = FlattenSeq(aa) \o FlattenSeq(bb)
    BY DEF AddPackages, ForEach
  <1>2. \A i \in DOMAIN asked : /\ asked[i].box \in Boxes /\ asked[i].qty \in Qty /\ asked[i].id = 0
                                /\ [card |-> c, box |-> asked[i].box, qty |-> asked[i].qty] \in PackOf(c)
    BY PlusTyped, AskedIs
  <1>3. 0 \in MineFor(r) /\ \A p \in PacksOf(c) : p \in MineFor(r) /\ p \in Nat
    <2>1. saved.pack = pack /\ saved.card = card
      BY DEF Between, Image
    <2>2. r.op = "+"
      BY PlusTyped
    <2> QED BY <2>1, <2>2, IdsAre DEF MineFor, PacksOf
  <1>4. h \in Seq(hits)
    <2>1. hits \in SUBSET Nat /\ IsFiniteSet(hits)
      <3> HIDE DEF Asked
      <3> QED BY IdsAre, FS_Subset
    <2> HIDE DEF hits
    <2> QED BY <2>1, InIdOrderIs
  <1>5. \A p \in hits : Replace(p) \in Seq(T)
    <2> SUFFICES ASSUME NEW p \in hits PROVE Replace(p) \in Seq(T)
      OBVIOUS
    <2> DEFINE i == CHOOSE i \in Asked(p) : TRUE
    <2>1. i \in DOMAIN asked
      BY FirstIs
    <2>2. p \in MineFor(r) /\ p \in Nat
      BY <1>3
    <2>3. Erase("pack", asked[i].id) \in Seq(T)
      BY <1>2, <1>3, <2>1, CallsAre
    <2>4. Log("-", p, asked[i].qty) \in Seq(T)
      BY <1>2, <2>1, <2>2, CallsAre DEF OpSymbol
    <2>5. Update("pack", p, [card |-> c, box |-> asked[i].box, qty |-> asked[i].qty]) \in Seq(T)
      BY <1>2, <2>1, <2>2, CallsAre
    <2>6. Log("-", p, asked[i].qty)
            \o Update("pack", p, [card |-> c, box |-> asked[i].box, qty |-> asked[i].qty]) \in Seq(T)
      BY <2>4, <2>5, Joined
    <2>7. Replace(p) = IF asked[i].qty = 0 THEN Erase("pack", asked[i].id)
                       ELSE Log("-", p, asked[i].qty)
                            \o Update("pack", p, [card |-> c, box |-> asked[i].box, qty |-> asked[i].qty])
      OBVIOUS
    <2> HIDE DEF T, Replace, i
    <2> QED BY <2>3, <2>6, <2>7
  <1>6. \A i \in DOMAIN asked : New(asked[i]) \in Seq(T)
    <2> SUFFICES ASSUME NEW i \in DOMAIN asked PROVE New(asked[i]) \in Seq(T)
      OBVIOUS
    <2>1. Insert("pack", [card |-> c, box |-> asked[i].box, qty |-> asked[i].qty]) \in Seq(T)
      BY <1>2, CallsAre
    <2>2. Log("-", LastInserted, asked[i].qty) \in Seq(T)
      BY <1>2, CallsAre DEF OpSymbol, LastInserted
    <2> HIDE DEF T, seen
    <2> QED BY <2>1, <2>2
  <1>7. FlattenSeq(aa) \in Seq(T)
    <2>1. \A i \in DOMAIN h : aa[i] \in Seq(T)
      <3> HIDE DEF h, hits, T, Replace
      <3> QED BY <1>4, <1>5
    <2> HIDE DEF h, hits, T, Replace
    <2> QED BY <1>4, <2>1, FlatOf
  <1>8. FlattenSeq(bb) \in Seq(T)
    <2>1. \A i \in DOMAIN asked : bb[i] \in Seq(T)
      BY <1>6
    <2> HIDE DEF T, New
    <2> QED BY <2>1, PlusTyped, FlatOf
  <1> HIDE DEF aa, bb, T
  <1>9. FlattenSeq(aa) \o FlattenSeq(bb) \in Seq(T)
    BY <1>7, <1>8
  <1> QED BY <1>1, <1>9 DEF T

LEMMA PlusSafe ==
  ASSUME Stores, Between, Idle, NEW r \in PlusRequests, NEW calls \in Plus(r)
  PROVE  Safe(calls, MineFor(r))
  <1> DEFINE like == CardsLike(r.name, r.props)
  <1>1. CASE like = {}
    <2>1. calls = NewCard(r) \o ListBoxes(r.packs)
      BY <1>1 DEF Plus
    <2> QED BY <2>1, NewCardSafe DEF Safe
  <1>2. CASE like # {}
    <2>1. PICK c \in like : calls = AddPackages(c, r.packs) \o ListBoxes(r.packs)
      BY <1>2 DEF Plus
    <2>2. c \in DOMAIN card /\ card[c].name = r.name
      BY DEF CardsLike
    <2> DEFINE T == Quiet(c, MineFor(r))
               A == AddPackages(c, r.packs)
               L == ListBoxes(r.packs)
    <2>3. A \in Seq(T) /\ L \in Seq(T)
      BY <2>2, PlusTyped, AddPackagesQuiet, ListBoxesQuiet
    <2>4. A \o L \in Seq(T)
      <3> HIDE DEF A, L, T
      <3> QED BY <2>3
    <2> QED BY <2>1, <2>2, <2>4 DEF Safe, Ready
  <1> QED BY <1>1, <1>2

LEMMA MinusTyped ==
  ASSUME NEW r \in MinusRequests, Stores
  PROVE  r.op = "-" /\ r.card \in Nat /\ r.pack \in Nat
  <1>1. lastCard \in Nat /\ lastPack \in Nat
    BY DEF Stores, ImageOK, Image
  <1> QED BY <1>1 DEF MinusRequests

\* The packages of the card a request names are its own.
LEMMA MineIs ==
  ASSUME Stores, Between, Idle, NEW r, r.op # "+"
  PROVE  PacksOf(r.card) \subseteq MineFor(r)
  <1>1. saved.pack = pack
    BY DEF Between, Image
  <1> QED BY <1>1, IdsAre DEF MineFor, PacksOf

\* Whatever packages of a card are to go, each is erased.
LEMMA PacksErased ==
  ASSUME Stores, NEW c, NEW S \in SUBSET PacksOf(c), NEW mine, S \subseteq mine
  PROVE  /\ ForEach(ErasePack, InIdOrder(S)) \in Seq(Erases(mine) \cup Logs)
         /\ \A p \in S : ErasedIn(ForEach(ErasePack, InIdOrder(S)), "pack", p)
  <1> DEFINE T == Erases(mine) \cup Logs
             h == InIdOrder(S)
             ss == [i \in DOMAIN h |-> ErasePack(h[i])]
             first(p) == [table |-> "pack", do |-> "erase", id |-> p, row |-> <<>>]
  <1>1. ForEach(ErasePack, h) = FlattenSeq(ss)
    BY DEF ForEach
  <1>2. S \in SUBSET Nat /\ IsFiniteSet(S)
    BY IdsAre, FS_Subset
  <1>3. h \in Seq(S) /\ \A p \in S : \E i \in DOMAIN h : h[i] = p
    BY <1>2, InIdOrderIs
  <1>4. ASSUME NEW p \in S
        PROVE  ErasePack(p) \in Seq(T) /\ 1 \in DOMAIN ErasePack(p) /\ ErasePack(p)[1] = first(p)
    <2> DEFINE a == Erase("pack", p)
               b == Log("-", p, pack[p].qty)
    <2>1. p \in Nat /\ p \in mine /\ pack[p].qty \in Qty
      <3>1. p \in DOMAIN pack
        BY DEF PacksOf
      <3>2. pack[p] \in PackRow
        BY <3>1 DEF Stores, ImageOK, Image
      <3> QED BY <1>2, <3>2 DEF PackRow
    <2>2. a \in Seq(T) /\ b \in Seq(T)
      BY <2>1, CallsAre DEF OpSymbol
    <2>3. a = <<first(p)>>
      BY DEF Erase
    <2> HIDE DEF b, T, first
    <2>4. a \o b \in Seq(T) /\ 1 \in DOMAIN (a \o b) /\ (a \o b)[1] = first(p)
      <3>1. Len(a) = 1 /\ a[1] = first(p) /\ Len(b) \in Nat
        BY <2>2, <2>3
      <3> HIDE DEF a
      <3>2. Len(a \o b) = Len(a) + Len(b) /\ a \o b \in Seq(T)
        BY <2>2
      <3>3. \A x \in 1 .. Len(a) : (a \o b)[x] = a[x]
        BY <2>2
      <3>4. DOMAIN (a \o b) = 1 .. Len(a \o b)
        BY <3>2
      <3> HIDE DEF first
      <3> QED BY <3>1, <3>2, <3>3, <3>4
    <2> QED BY <2>4 DEF ErasePack, b
  <1>5. ss \in Seq(Seq(T)) /\ DOMAIN ss = DOMAIN h
    <2>1. \A i \in DOMAIN h : ss[i] \in Seq(T)
      <3>1. \A i \in DOMAIN h : h[i] \in S
        BY <1>3, ElementOf
      <3> HIDE DEF h, T
      <3> QED BY <1>4, <3>1
    <2>2. ss = [i \in DOMAIN h |-> ss[i]]
      OBVIOUS
    <2> HIDE DEF h, T, ss
    <2> QED BY <1>3, <2>1, <2>2, ListsOf
  <1> HIDE DEF T, h
  <1>6. ASSUME NEW p \in S
        PROVE  ErasedIn(FlattenSeq(ss), "pack", p)
    <2>1. PICK i \in DOMAIN h : h[i] = p
      BY <1>3
    <2>2. i \in DOMAIN ss /\ 1 \in DOMAIN ss[i] /\ ss[i][1] = first(p)
      BY <1>4, <1>5, <2>1
    <2> HIDE DEF ss, first
    <2>3. \E k \in DOMAIN FlattenSeq(ss) : FlattenSeq(ss)[k] = first(p)
      BY <1>5, <2>2, FlattenIs
    <2> QED BY <2>3 DEF ErasedIn, first
  <1>7. FlattenSeq(ss) \in Seq(T)
    <2> HIDE DEF ss
    <2> QED BY <1>5, FlattenIs
  <1> QED BY <1>1, <1>6, <1>7 DEF T, h

\* So is every property.
LEMMA PropsErased ==
  ASSUME Stores, NEW c, NEW mine
  PROVE  /\ ForEach(LAMBDA x : Erase("prop", x), InIdOrder(PropsOf(c)))
              \in Seq(Erases(mine) \cup Logs)
         /\ \A x \in PropsOf(c) :
              ErasedIn(ForEach(LAMBDA y : Erase("prop", y), InIdOrder(PropsOf(c))), "prop", x)
  <1> DEFINE T == Erases(mine) \cup Logs
             S == PropsOf(c)
             h == InIdOrder(S)
             ss == [i \in DOMAIN h |-> Erase("prop", h[i])]
             gone(x) == [table |-> "prop", do |-> "erase", id |-> x, row |-> <<>>]
  <1>1. ForEach(LAMBDA x : Erase("prop", x), h) = FlattenSeq(ss)
    BY DEF ForEach
  <1>2. S \in SUBSET Nat /\ IsFiniteSet(S)
    BY IdsAre
  <1>3. h \in Seq(S) /\ \A x \in S : \E i \in DOMAIN h : h[i] = x
    <2> HIDE DEF S
    <2> QED BY <1>2, InIdOrderIs
  <1>4. \A i \in DOMAIN h : h[i] \in Nat
    <2> HIDE DEF h, S
    <2> QED BY <1>2, <1>3, ElementOf
  <1>5. \A i \in DOMAIN h : ss[i] \in Seq(T)
    BY <1>4, CallsAre
  <1>6. ss \in Seq(Seq(T)) /\ DOMAIN ss = DOMAIN h
    <2> HIDE DEF h, T, S
    <2> QED BY <1>3, <1>5, ListsOf
  <1>7. \A i \in DOMAIN h : ss[i] = <<gone(h[i])>>
    BY DEF Erase
  <1> HIDE DEF T, S, h, ss, gone
  <1>8. ASSUME NEW x \in S
        PROVE  ErasedIn(FlattenSeq(ss), "prop", x)
    <2>1. PICK i \in DOMAIN h : h[i] = x
      BY <1>3
    <2>2. i \in DOMAIN ss /\ 1 \in DOMAIN ss[i] /\ ss[i][1] = gone(x)
      BY <1>6, <1>7, <2>1
    <2>3. \E k \in DOMAIN FlattenSeq(ss) : FlattenSeq(ss)[k] = gone(x)
      BY <1>6, <2>2, FlattenIs
    <2> QED BY <2>3 DEF ErasedIn, gone
  <1>9. FlattenSeq(ss) \in Seq(T)
    BY <1>6, FlattenIs
  <1> QED BY <1>1, <1>8, <1>9 DEF T, S, h

LEMMA InJoined ==
  ASSUME NEW T, NEW a \in Seq(T), NEW b \in Seq(T), NEW table, NEW id,
         ErasedIn(a, table, id) \/ ErasedIn(b, table, id)
  PROVE  ErasedIn(a \o b, table, id)
  <1> DEFINE e == [table |-> table, do |-> "erase", id |-> id, row |-> <<>>]
  <1>1. /\ DOMAIN a = 1 .. Len(a) /\ DOMAIN b = 1 .. Len(b)
        /\ Len(a) \in Nat /\ Len(b) \in Nat /\ DOMAIN (a \o b) = 1 .. Len(a) + Len(b)
    OBVIOUS
  <1>2. ASSUME NEW k \in DOMAIN a
        PROVE  k \in DOMAIN (a \o b) /\ (a \o b)[k] = a[k]
    BY <1>1
  <1>3. ASSUME NEW k \in DOMAIN b
        PROVE  Len(a) + k \in DOMAIN (a \o b) /\ (a \o b)[Len(a) + k] = b[k]
    BY <1>1
  <1>4. CASE ErasedIn(a, table, id)
    BY <1>2, <1>4 DEF ErasedIn
  <1>5. CASE ErasedIn(b, table, id)
    <2>1. PICK k \in DOMAIN b : b[k] = e
      BY <1>5 DEF ErasedIn
    <2>2. Len(a) + k \in DOMAIN (a \o b) /\ (a \o b)[Len(a) + k] = e
      BY <1>3, <2>1
    <2> QED BY <2>2 DEF ErasedIn
  <1> QED BY <1>4, <1>5

\* With everything of a card erased before, the card may go.
LEMMA RemoveCardSafe ==
  ASSUME Stores, NEW c \in Nat, NEW mine, PacksOf(c) \subseteq mine
  PROVE  CardLast(RemoveCard(c, PacksOf(c)), mine)
  <1> DEFINE T == Erases(mine) \cup Logs
             A == ForEach(LAMBDA x : Erase("prop", x), InIdOrder(PropsOf(c)))
             B == ForEach(ErasePack, InIdOrder(PacksOf(c)))
  <1>1. RemoveCard(c, PacksOf(c)) = (A \o B) \o Erase("card", c)
    BY DEF RemoveCard
  <1>2. /\ A \in Seq(T)
        /\ \A x \in PropsOf(c) : ErasedIn(A, "prop", x)
    BY PropsErased
  <1>3. /\ B \in Seq(T)
        /\ \A p \in PacksOf(c) : ErasedIn(B, "pack", p)
    BY PacksErased
  <1> HIDE DEF A, B, T
  <1>4. A \o B \in Seq(T)
    BY <1>2, <1>3, Joined
  <1>5. \A x \in PropsOf(c) : ErasedIn(A \o B, "prop", x)
    BY <1>2, <1>3, InJoined
  <1>6. \A p \in PacksOf(c) : ErasedIn(A \o B, "pack", p)
    BY <1>2, <1>3, InJoined
  <1> DEFINE rest == A \o B
  <1> HIDE DEF rest
  <1>7. /\ rest \in Seq(Erases(mine) \cup Logs)
        /\ RemoveCard(c, PacksOf(c)) = rest \o Erase("card", c)
        /\ \A x \in PropsOf(c) : ErasedIn(rest, "prop", x)
        /\ \A p \in PacksOf(c) : ErasedIn(rest, "pack", p)
    BY <1>1, <1>4, <1>5, <1>6 DEF rest, T
  <1> QED BY <1>7, Zenon DEF CardLast

\* The same when the packages were erased before the rest of it.
LEMMA RemoveRestSafe ==
  ASSUME Stores, NEW c \in Nat, NEW mine, PacksOf(c) \subseteq mine
  PROVE  CardLast(ForEach(ErasePack, InIdOrder(PacksOf(c))) \o RemoveCard(c, {}), mine)
  <1> DEFINE T == Erases(mine) \cup Logs
             Y == T \cup {[table |-> "card", do |-> "erase", id |-> c, row |-> <<>>]}
             A == ForEach(LAMBDA x : Erase("prop", x), InIdOrder(PropsOf(c)))
             B == ForEach(ErasePack, InIdOrder(PacksOf(c)))
             N == ForEach(ErasePack, InIdOrder({}))
             last == Erase("card", c)
             rest == B \o (A \o N)
  <1>1. RemoveCard(c, {}) = (A \o N) \o last
    BY DEF RemoveCard
  <1>2. /\ A \in Seq(T)
        /\ \A x \in PropsOf(c) : ErasedIn(A, "prop", x)
    BY PropsErased
  <1>3. /\ B \in Seq(T)
        /\ \A p \in PacksOf(c) : ErasedIn(B, "pack", p)
    BY PacksErased
  <1>4. N \in Seq(T)
    BY PacksErased
  <1>5. last \in Seq(Y)
    BY DEF Erase
  <1>6. \A s \in Seq(T) : s \in Seq(Y)
    OBVIOUS
  <1> HIDE DEF A, B, N, T, Y, last
  <1>7. A \o N \in Seq(T)
    BY <1>2, <1>4, Joined
  <1>8. B \o ((A \o N) \o last) = (B \o (A \o N)) \o last
    <2> DEFINE an == A \o N
    <2>1. an \in Seq(Y) /\ B \in Seq(Y)
      BY <1>3, <1>6, <1>7
    <2> HIDE DEF an
    <2>2. B \o (an \o last) = (B \o an) \o last
      BY <1>5, <2>1, ConcatAssociative
    <2> QED BY <2>2 DEF an
  <1>9. B \o (A \o N) \in Seq(T)
    BY <1>3, <1>7, Joined
  <1>10. \A x \in PropsOf(c) : ErasedIn(A \o N, "prop", x)
    BY <1>2, <1>4, InJoined
  <1>11. \A x \in PropsOf(c) : ErasedIn(rest, "prop", x)
    BY <1>3, <1>7, <1>10, InJoined
  <1>12. \A p \in PacksOf(c) : ErasedIn(rest, "pack", p)
    BY <1>3, <1>7, InJoined
  <1>13. /\ rest \in Seq(Erases(mine) \cup Logs)
         /\ B \o RemoveCard(c, {}) = rest \o Erase("card", c)
    BY <1>1, <1>8, <1>9 DEF T, last
  <1> HIDE DEF rest
  <1> QED BY <1>11, <1>12, <1>13, Zenon DEF CardLast, B

LEMMA MinusSafe ==
  ASSUME Stores, Between, Idle, NEW r \in MinusRequests
  PROVE  Safe(Minus(r), MineFor(r))
  <1> DEFINE c == r.card
             mine == MineFor(r)
             T == Erases(mine) \cup Logs
             gone == PacksOf(c) \cap {r.pack}
             left == PacksOf(c) \ gone
             B == ForEach(ErasePack, InIdOrder(gone))
  <1>1. r.op = "-" /\ c \in Nat /\ PacksOf(c) \subseteq mine
    BY MinusTyped, MineIs
  <1>2. CASE r.pack = 0
    <2>1. left = PacksOf(c)
      BY <1>2, IdsAre DEF PacksOf
    <2>2. Minus(r) = RemoveCard(c, PacksOf(c))
      BY <1>2, <2>1 DEF Minus
    <2> QED BY <1>1, <2>2, RemoveCardSafe DEF Safe
  <1>3. CASE r.pack # 0 /\ left = {}
    <2>1. gone = PacksOf(c)
      BY <1>3
    <2>2. Minus(r) = B \o RemoveCard(c, {})
      BY <1>3 DEF Minus
    <2>3. B = ForEach(ErasePack, InIdOrder(PacksOf(c)))
      BY <2>1
    <2> QED BY <1>1, <2>2, <2>3, RemoveRestSafe DEF Safe
  <1>4. CASE r.pack # 0 /\ left # {}
    <2>1. Minus(r) = B \o <<>>
      BY <1>4 DEF Minus
    <2>2. B \in Seq(T)
      <3>1. gone \in SUBSET PacksOf(c) /\ gone \subseteq mine
        BY <1>1
      <3> HIDE DEF gone
      <3> QED BY <3>1, PacksErased
    <2>3. B \o <<>> \in Seq(T)
      <3>1. <<>> \in Seq(T)
        OBVIOUS
      <3> HIDE DEF B, T
      <3> QED BY <2>2, <3>1, Joined
    <2>4. \A d : Seq(T) \subseteq Seq(Quiet(d, mine))
      BY CallsAre
    <2>5. c \in DOMAIN card
      <3>1. PICK p \in PacksOf(c) : TRUE
        BY <1>4
      <3> QED BY <3>1 DEF Stores, Owned, Orphanless, Image, PacksOf
    <2>6. Ready(Minus(r), mine)
      <3> HIDE DEF T, B, mine
      <3> QED BY <2>1, <2>3, <2>4, <2>5 DEF Ready
    <2> QED BY <2>6 DEF Safe
  <1> QED BY <1>2, <1>3, <1>4

LEMMA EqualTyped ==
  ASSUME NEW r \in EqualRequests, Stores
  PROVE  /\ r.op = "=" /\ r.card \in Nat /\ r.name \in Name /\ r.pack \in Nat
         /\ r.props \in Seq([id : Nat, pair : STRING \X STRING])
         /\ r.packs \in Seq([id : Nat, box : Boxes, qty : Qty])
         /\ r.pack # 0 /\ r.packs # <<>> => r.packs[1].id = r.pack
  <1>1. lastCard \in Nat /\ lastPack \in Nat
    BY DEF Stores, ImageOK, Image
  <1>2. /\ r.op = "=" /\ r.card \in 1 .. lastCard + 1 /\ r.name \in Name
        /\ r.pack \in 0 .. lastPack /\ r.props \in PropEdits /\ r.packs \in PackLists
        /\ r.pack # 0 /\ r.packs # <<>> => r.packs[1].id = r.pack
    BY DEF EqualRequests
  <1>3. /\ r.props \in Seq([id : Nat, pair : STRING \X STRING])
        /\ r.packs \in Seq([id : Nat, box : Boxes, qty : Qty])
    BY <1>2, CardEditAssumption, Zenon
  <1>4. r.card \in Nat /\ r.pack \in Nat
    BY <1>1, <1>2
  <1> QED BY <1>2, <1>3, <1>4, Zenon

\* A property of a request, and its row.
LEMMA AskedPropIs ==
  ASSUME NEW asked \in Seq([id : Nat, pair : STRING \X STRING]), NEW i \in DOMAIN asked, NEW c
  PROVE  asked[i].id \in Nat /\ [card |-> c, pair |-> asked[i].pair] \in PropOf(c)
  <1>1. asked[i] \in [id : Nat, pair : STRING \X STRING]
    BY ElementOf
  <1> QED BY <1>1 DEF PropOf

\* The properties of a card, and new ones.
LEMMA UpdatePropertiesQuiet ==
  ASSUME Stores, NEW c, NEW mine, NEW asked \in Seq([id : Nat, pair : STRING \X STRING])
  PROVE  UpdateProperties(c, asked) \in Seq(Quiet(c, mine))
  <1> DEFINE T == Quiet(c, mine)
             Asked(x) == FirstOf({i \in DOMAIN asked : asked[i].id = x})
             seen == {c : x \in {y \in PropsOf(c) : Asked(y) # {}}}
             Keep(x) == LET v == asked[CHOOSE i \in Asked(x) : TRUE]
                        IN  IF Asked(x) = {} THEN Erase("prop", x)
                            ELSE IF v.pair = prop[x].pair THEN <<>>
                            ELSE Update("prop", x, [card |-> c, pair |-> v.pair])
             New(v) == IF ~Unseen(v.id, seen) THEN <<>>
                       ELSE Insert("prop", [card |-> c, pair |-> v.pair])
             h == InIdOrder(PropsOf(c))
             aa == [i \in DOMAIN h |-> Keep(h[i])]
             bb == [i \in DOMAIN asked |-> New(asked[i])]
  <1>1. UpdateProperties(c, asked) = FlattenSeq(aa) \o FlattenSeq(bb)
    BY DEF UpdateProperties, ForEach
  <1>2. \A i \in DOMAIN asked : [card |-> c, pair |-> asked[i].pair] \in PropOf(c)
    BY AskedPropIs
  <1>3. h \in Seq(PropsOf(c))
    BY IdsAre, InIdOrderIs
  <1>4. <<>> \in Seq(T)
    OBVIOUS
  <1>5. ASSUME NEW x \in PropsOf(c)
        PROVE  Keep(x) \in Seq(T)
    <2>1. x \in Nat
      BY IdsAre
    <2>2. Erase("prop", x) \in Seq(T)
      BY <2>1, CallsAre
    <2>3. CASE Asked(x) = {}
      <3> HIDE DEF T
      <3> QED BY <2>2, <2>3
    <2>4. CASE Asked(x) # {}
      <3> DEFINE i == CHOOSE i \in Asked(x) : TRUE
      <3>1. i \in DOMAIN asked
        BY <2>4, FirstIs
      <3>2. Update("prop", x, [card |-> c, pair |-> asked[i].pair]) \in Seq(T)
        BY <1>2, <2>1, <3>1, CallsAre
      <3> HIDE DEF T
      <3> QED BY <1>4, <2>4, <3>2
    <2> QED BY <2>3, <2>4
  <1>6. ASSUME NEW i \in DOMAIN asked
        PROVE  New(asked[i]) \in Seq(T)
    <2>1. Insert("prop", [card |-> c, pair |-> asked[i].pair]) \in Seq(T)
      BY <1>2, CallsAre
    <2> HIDE DEF T, seen
    <2> QED BY <1>4, <2>1
  <1>7. FlattenSeq(aa) \in Seq(T)
    <2>1. \A i \in DOMAIN h : h[i] \in PropsOf(c)
      <3> HIDE DEF h
      <3> QED BY <1>3, ElementOf
    <2>2. \A i \in DOMAIN h : aa[i] \in Seq(T)
      <3> HIDE DEF h, T, Keep
      <3> QED BY <1>5, <2>1
    <2> HIDE DEF h, T, Keep
    <2> QED BY <1>3, <2>2, FlatOf
  <1>8. FlattenSeq(bb) \in Seq(T)
    <2>1. \A i \in DOMAIN asked : bb[i] \in Seq(T)
      BY <1>6
    <2> HIDE DEF T, New
    <2> QED BY <2>1, FlatOf
  <1> HIDE DEF aa, bb, T
  <1>9. FlattenSeq(aa) \o FlattenSeq(bb) \in Seq(T)
    BY <1>7, <1>8, Joined
  <1> QED BY <1>1, <1>9 DEF T

\* The packages of a card, and new ones.
LEMMA UpdateCardPackagesQuiet ==
  ASSUME Stores, NEW c, NEW mine, PacksOf(c) \subseteq mine,
         NEW asked \in Seq([id : Nat, box : Boxes, qty : Qty]), NEW named
  PROVE  UpdateCardPackages(c, asked, named) \in Seq(Quiet(c, mine))
  <1> DEFINE T == Quiet(c, mine)
             Asked(p) == FirstOf({i \in DOMAIN asked : asked[i].id = p})
             seen == {p \in PacksOf(c) : Asked(p) # {}}
             Row(q) == [card |-> c, box |-> q.box, qty |-> q.qty]
             Keep(p) == LET q == asked[CHOOSE i \in Asked(p) : TRUE]
                        IN  IF Asked(p) = {}
                            THEN Erase("pack", p) \o <<[table |-> "end", do |-> "read"]>>
                            ELSE IF q.qty = 0 THEN Erase("pack", p) \o Log("-", p, 0)
                            ELSE IF Row(q) = pack[p] /\ ~named THEN <<>>
                            ELSE Update("pack", p, Row(q)) \o Log("=", p, q.qty)
             New(q) == IF ~Unseen(q.id, seen) \/ q.qty = 0 THEN <<>>
                       ELSE Insert("pack", Row(q)) \o Log("=", LastInserted, q.qty)
             h == InIdOrder(PacksOf(c))
             aa == [i \in DOMAIN h |-> Keep(h[i])]
             bb == [i \in DOMAIN asked |-> New(asked[i])]
  <1>1. UpdateCardPackages(c, asked, named) = FlattenSeq(aa) \o FlattenSeq(bb)
    BY DEF UpdateCardPackages, ForEach
  <1>2. \A i \in DOMAIN asked : asked[i].qty \in Qty /\ Row(asked[i]) \in PackOf(c)
    BY AskedIs
  <1>3. h \in Seq(PacksOf(c))
    BY IdsAre, InIdOrderIs
  <1>4. <<>> \in Seq(T)
    OBVIOUS
  <1>5. ASSUME NEW p \in PacksOf(c)
        PROVE  Keep(p) \in Seq(T)
    <2>1. p \in Nat /\ p \in mine
      BY IdsAre
    <2>2. Erase("pack", p) \in Seq(T) /\ <<[table |-> "end", do |-> "read"]>> \in Seq(T)
      BY <2>1, CallsAre
    <2>3. CASE Asked(p) = {}
      <3>1. Erase("pack", p) \o <<[table |-> "end", do |-> "read"]>> \in Seq(T)
        BY <2>2, Joined
      <3> HIDE DEF T
      <3> QED BY <2>3, <3>1
    <2>4. CASE Asked(p) # {}
      <3> DEFINE i == CHOOSE i \in Asked(p) : TRUE
      <3>1. i \in DOMAIN asked
        BY <2>4, FirstIs
      <3>2. Update("pack", p, Row(asked[i])) \in Seq(T)
        BY <1>2, <2>1, <3>1, CallsAre
      <3>3. Log("=", p, asked[i].qty) \in Seq(T) /\ (asked[i].qty = 0 => Log("-", p, 0) \in Seq(T))
        BY <1>2, <2>1, <3>1, CallsAre DEF OpSymbol
      <3>4. /\ Update("pack", p, Row(asked[i])) \o Log("=", p, asked[i].qty) \in Seq(T)
            /\ asked[i].qty = 0 => Erase("pack", p) \o Log("-", p, 0) \in Seq(T)
        BY <2>2, <3>2, <3>3, Joined
      <3> HIDE DEF T, Row
      <3> QED BY <1>4, <2>4, <3>4
    <2> QED BY <2>3, <2>4
  <1>6. ASSUME NEW i \in DOMAIN asked
        PROVE  New(asked[i]) \in Seq(T)
    <2>1. Insert("pack", Row(asked[i])) \in Seq(T)
      BY <1>2, CallsAre
    <2>2. Log("=", LastInserted, asked[i].qty) \in Seq(T)
      BY <1>2, CallsAre DEF OpSymbol, LastInserted
    <2>3. Insert("pack", Row(asked[i])) \o Log("=", LastInserted, asked[i].qty) \in Seq(T)
      BY <2>1, <2>2, Joined
    <2> HIDE DEF T, seen, Row
    <2> QED BY <1>4, <2>3
  <1>7. FlattenSeq(aa) \in Seq(T)
    <2>1. \A i \in DOMAIN h : h[i] \in PacksOf(c)
      <3> HIDE DEF h
      <3> QED BY <1>3, ElementOf
    <2>2. \A i \in DOMAIN h : aa[i] \in Seq(T)
      <3> HIDE DEF h, T, Keep
      <3> QED BY <1>5, <2>1
    <2> HIDE DEF h, T, Keep
    <2> QED BY <1>3, <2>2, FlatOf
  <1>8. FlattenSeq(bb) \in Seq(T)
    <2>1. \A i \in DOMAIN asked : bb[i] \in Seq(T)
      BY <1>6
    <2> HIDE DEF T, New
    <2> QED BY <2>1, FlatOf
  <1> HIDE DEF aa, bb, T
  <1>9. FlattenSeq(aa) \o FlattenSeq(bb) \in Seq(T)
    BY <1>7, <1>8, Joined
  <1> QED BY <1>1, <1>9 DEF T

\* One package, when the request is about that one.
LEMMA UpdateCardPackageQuiet ==
  ASSUME Stores, NEW c, NEW mine, PacksOf(c) \subseteq mine,
         NEW asked \in Seq([id : Nat, box : Boxes, qty : Qty]), NEW p,
         asked # <<>> => asked[1].id = p
  PROVE  UpdateCardPackage(c, p, asked) \in Seq(Quiet(c, mine))
  <1> DEFINE T == Quiet(c, mine)
             q == Head(asked)
             row == [card |-> c, box |-> q.box, qty |-> q.qty]
  <1>1. CASE asked = <<>>
    <2>1. <<>> \in Seq(T)
      OBVIOUS
    <2> QED BY <1>1, <2>1 DEF UpdateCardPackage
  <1>2. CASE asked # <<>>
    <2>1. 1 \in DOMAIN asked /\ q = asked[1]
      BY <1>2
    <2>2. q.id = p /\ q.qty \in Qty /\ row \in PackOf(c)
      BY <1>2, <2>1, AskedIs
    <2> HIDE DEF q, row
    <2>3. Insert("pack", row) \o Log("=", LastInserted, q.qty) \in Seq(T)
      <3>1. Insert("pack", row) \in Seq(T)
        BY <2>2, CallsAre
      <3>2. Log("=", LastInserted, q.qty) \in Seq(T)
        BY <2>2, CallsAre DEF OpSymbol, LastInserted
      <3> QED BY <3>1, <3>2, Joined
    <2>4. ASSUME p \in PacksOf(c)
          PROVE  Update("pack", q.id, row) \o Log("=", q.id, q.qty) \in Seq(T)
      <3>1. p \in Nat /\ p \in mine
        BY <2>4, IdsAre
      <3>2. Update("pack", q.id, row) \in Seq(T)
        BY <2>2, <3>1, CallsAre
      <3>3. Log("=", q.id, q.qty) \in Seq(T)
        BY <2>2, <3>1, CallsAre DEF OpSymbol
      <3> QED BY <3>2, <3>3, Joined
    <2> HIDE DEF T
    <2>5. UpdateCardPackage(c, p, asked) \in Seq(T)
      BY <1>2, <2>3, <2>4 DEF UpdateCardPackage, q, row
    <2> QED BY <2>5 DEF T
  <1> QED BY <1>1, <1>2

LEMMA EditSafe ==
  ASSUME Stores, Between, Idle, NEW r \in EqualRequests, NEW named \in BOOLEAN
  PROVE  Safe(Edit(r, named), MineFor(r))
  <1> DEFINE c == r.card
             mine == MineFor(r)
             T == Quiet(c, mine)
             row == [name |-> r.name, props |-> <<>>]
             first == Update("card", c, row)
             A == UpdateProperties(c, r.props)
             B == IF r.pack # 0 THEN UpdateCardPackage(c, r.pack, r.packs)
                  ELSE UpdateCardPackages(c, r.packs, named)
             Y == T \cup {[table |-> "card", do |-> "update", id |-> c, row |-> row]}
  <1>1. /\ r.op = "=" /\ c \in Nat /\ r.name \in Name
        /\ r.props \in Seq([id : Nat, pair : STRING \X STRING])
        /\ r.packs \in Seq([id : Nat, box : Boxes, qty : Qty])
        /\ r.pack # 0 /\ r.packs # <<>> => r.packs[1].id = r.pack
    BY EqualTyped
  <1>2. PacksOf(c) \subseteq mine
    BY <1>1, MineIs
  <1>3. A \in Seq(T)
    BY <1>1, UpdatePropertiesQuiet
  <1>4. B \in Seq(T)
    <2>1. CASE r.pack # 0
      <3>1. UpdateCardPackage(c, r.pack, r.packs) \in Seq(T)
        <4> HIDE DEF c, mine
        <4> QED BY <1>1, <1>2, <2>1, UpdateCardPackageQuiet
      <3> HIDE DEF T
      <3> QED BY <2>1, <3>1
    <2>2. CASE r.pack = 0
      <3>1. UpdateCardPackages(c, r.packs, named) \in Seq(T)
        <4> HIDE DEF c, mine
        <4> QED BY <1>1, <1>2, UpdateCardPackagesQuiet
      <3> HIDE DEF T
      <3> QED BY <2>2, <3>1
    <2> QED BY <2>1, <2>2
  <1>5. row \in CardRow
    BY <1>1 DEF CardRow
  <1>6. first \in Seq(Y)
    BY DEF Update
  <1>7. Edit(r, named) = (first \o A) \o B
    BY DEF Edit
  <1>8. \A s \in Seq(T) : s \in Seq(Y)
    OBVIOUS
  <1> HIDE DEF A, B, T, Y, first, row, c, mine
  <1>9. (first \o A) \o B = first \o (A \o B)
    BY <1>3, <1>4, <1>6, <1>8, ConcatAssociative
  <1>10. A \o B \in Seq(T)
    BY <1>3, <1>4, Joined
  <1> DEFINE rest == A \o B
  <1> HIDE DEF rest
  <1>11. rest \in Seq(Quiet(c, mine)) /\ Edit(r, named) = Update("card", c, row) \o rest
    BY <1>7, <1>9, <1>10 DEF rest, T, first
  <1>12. CardFirst(Edit(r, named), mine)
    BY <1>1, <1>5, <1>11, Zenon DEF CardFirst
  <1> QED BY <1>12 DEF Safe, mine

----------------------------------------------------------------------------
(* The next call, and those after it.                                       *)

OneCall(table, do, id, row) == [table |-> table, do |-> do, id |-> id, row |-> row]

\* A call about one card that is there; a card to write; a card that has
\* nothing left; or a call before that card goes.
OnCard(w, left, mine) ==
  \E c \in DOMAIN card : w \in Quiet(c, mine) /\ left \in Seq(Quiet(c, mine))
NewCardNow(w, left, mine) ==
  \E row \in CardRow :
    w = OneCall("card", "insert", 0, row) /\ left \in Seq(Quiet(lastCard + 1, mine))
CardNow(w, left, mine) ==
  \E c \in Nat, row \in CardRow :
    w = OneCall("card", "update", c, row) /\ left \in Seq(Quiet(c, mine))
LastNow(w, left) ==
  \E c \in Nat : /\ w = OneCall("card", "erase", c, <<>>) /\ left = <<>>
                 /\ PropsOf(c) = {} /\ PacksOf(c) = {}
BeforeLast(w, left, mine) ==
  \E c \in Nat : \E rest \in Seq(Erases(mine) \cup Logs) :
    /\ w \in Erases(mine) \cup Logs
    /\ left = rest \o Erase("card", c)
    /\ \A x \in PropsOf(c) :
         w = OneCall("prop", "erase", x, <<>>) \/ ErasedIn(rest, "prop", x)
    /\ \A p \in PacksOf(c) :
         w = OneCall("pack", "erase", p, <<>>) \/ ErasedIn(rest, "pack", p)

Ahead(w, left, mine) ==
  \/ OnCard(w, left, mine) \/ NewCardNow(w, left, mine) \/ CardNow(w, left, mine)
  \/ LastNow(w, left) \/ BeforeLast(w, left, mine)

\* Head and tail of a list with one element after it.
LEMMA BeforeOne ==
  ASSUME NEW T, NEW rest \in Seq(T), rest # <<>>, NEW a
  PROVE  /\ Head(rest \o <<a>>) = Head(rest) /\ Head(rest) \in T
         /\ Tail(rest \o <<a>>) = Tail(rest) \o <<a>> /\ Tail(rest) \in Seq(T)
         /\ \A i \in DOMAIN rest :
              rest[i] = Head(rest) \/ \E j \in DOMAIN Tail(rest) : Tail(rest)[j] = rest[i]
  <1> DEFINE Y == T \cup {a}
             s == rest \o <<a>>
             t == Tail(rest)
             n == Len(rest)
  <1>1. /\ n \in Nat /\ n # 0 /\ DOMAIN rest = 1 .. n /\ Head(rest) = rest[1]
        /\ Head(rest) \in T /\ t \in Seq(T) /\ Len(t) = n - 1
        /\ \A i \in 1 .. n - 1 : t[i] = rest[i + 1]
    OBVIOUS
  <1>2. <<a>> \in Seq(Y) /\ rest \in Seq(Y) /\ t \in Seq(Y) /\ Len(<<a>>) = 1 /\ <<a>>[1] = a
    BY <1>1
  <1> DEFINE e == <<a>>
  <1> HIDE DEF Y, e, t
  <1>3. /\ s \in Seq(Y) /\ Len(s) = n + 1 /\ s[n + 1] = a
        /\ \A i \in 1 .. n : s[i] = rest[i]
    <2>1. rest \o e \in Seq(Y) /\ Len(rest \o e) = n + 1 /\ (rest \o e)[n + 1] = e[1]
          /\ \A i \in 1 .. n : (rest \o e)[i] = rest[i]
      BY <1>1, <1>2 DEF e
    <2> QED BY <1>2, <2>1 DEF e
  <1>4. /\ t \o e \in Seq(Y) /\ Len(t \o e) = n /\ (t \o e)[n] = a
        /\ \A i \in 1 .. n - 1 : (t \o e)[i] = t[i]
    <2>1. e \in Seq(Y) /\ Len(e) = 1 /\ e[1] = a
      BY <1>2 DEF e
    <2> HIDE DEF e, s
    <2>2. /\ t \o e \in Seq(Y) /\ Len(t \o e) = Len(t) + 1 /\ (t \o e)[Len(t) + 1] = e[1]
          /\ \A i \in 1 .. Len(t) : (t \o e)[i] = t[i]
      <3>1. t \in Seq(Y) /\ Len(t) \in Nat
        BY <1>2
      <3>2. t \o e \in Seq(Y) /\ Len(t \o e) = Len(t) + 1
            /\ \A i \in 1 .. Len(t) + 1 :
                 (t \o e)[i] = IF i <= Len(t) THEN t[i] ELSE e[i - Len(t)]
        BY <2>1, <3>1, ConcatProperties
      <3>3. Len(t) + 1 - Len(t) = 1 /\ Len(t) + 1 \in 1 .. Len(t) + 1 /\ ~(Len(t) + 1 <= Len(t))
        BY <3>1
      <3>4. (t \o e)[Len(t) + 1] = e[1]
        BY <3>2, <3>3
      <3>5. \A i \in 1 .. Len(t) : i \in 1 .. Len(t) + 1 /\ i <= Len(t)
        BY <3>1
      <3> QED BY <3>2, <3>4, <3>5
    <2>3. Len(t) + 1 = n
      <3> HIDE DEF n
      <3> QED BY <1>1
    <2> QED BY <1>1, <2>1, <2>2, <2>3
  <1> HIDE DEF s, n
  <1>5. Head(s) = rest[1] /\ Tail(s) \in Seq(Y) /\ Len(Tail(s)) = n
        /\ \A i \in 1 .. n : Tail(s)[i] = s[i + 1]
    <2>1. s # <<>> /\ Head(s) = s[1]
      BY <1>1, <1>3
    <2>2. Tail(s) \in Seq(Y) /\ Len(Tail(s)) = n /\ \A i \in 1 .. n : Tail(s)[i] = s[i + 1]
      BY <1>1, <1>3, <2>1
    <2> QED BY <1>1, <1>3, <2>1, <2>2
  <1>6. \A i \in 1 .. n : Tail(s)[i] = (t \o e)[i]
    <2> SUFFICES ASSUME NEW i \in 1 .. n PROVE Tail(s)[i] = (t \o e)[i]
      OBVIOUS
    <2>1. CASE i = n
      BY <1>1, <1>3, <1>4, <1>5, <2>1
    <2>2. CASE i # n
      <3>1. i \in 1 .. n - 1 /\ i + 1 \in 1 .. n
        BY <1>1, <2>2
      <3> QED BY <1>1, <1>3, <1>4, <1>5, <3>1
    <2> QED BY <2>1, <2>2
  <1>7. Tail(s) = t \o e
    BY <1>1, <1>4, <1>5, <1>6
  <1>8. ASSUME NEW i \in 1 .. n
        PROVE  rest[i] = Head(rest) \/ \E j \in DOMAIN t : t[j] = rest[i]
    <2>1. CASE i = 1
      BY <1>1, <2>1
    <2>2. CASE i # 1
      <3>1. i - 1 \in 1 .. n - 1 /\ i - 1 + 1 = i
        BY <1>1, <2>2
      <3>2. t[i - 1] = rest[i] /\ i - 1 \in DOMAIN t
        BY <1>1, <3>1
      <3> QED BY <3>2
    <2> QED BY <2>1, <2>2
  <1> QED BY <1>1, <1>5, <1>7, <1>8 DEF s, t, e

LEMMA FirstCall ==
  ASSUME NEW mine, NEW s, Safe(s, mine), s # <<>>
  PROVE  Ahead(Head(s), Tail(s), mine)
  <1>1. CASE Ready(s, mine)
    <2>1. PICK c \in DOMAIN card : s \in Seq(Quiet(c, mine))
      BY <1>1 DEF Ready
    <2>2. Head(s) \in Quiet(c, mine) /\ Tail(s) \in Seq(Quiet(c, mine))
      <3> DEFINE T == Quiet(c, mine)
      <3> HIDE DEF T
      <3>1. s \in Seq(T)
        BY <2>1 DEF T
      <3>2. Head(s) \in T /\ Tail(s) \in Seq(T)
        BY <3>1
      <3> QED BY <3>2 DEF T
    <2> QED BY <2>2 DEF Ahead, OnCard
  <1>2. CASE NewFirst(s, mine)
    <2>1. PICK row \in CardRow, rest \in Seq(Quiet(lastCard + 1, mine)) :
            s = Insert("card", row) \o rest
      BY <1>2 DEF NewFirst
    <2>2. Head(s) = OneCall("card", "insert", 0, row) /\ Tail(s) = rest
      BY <2>1, InFront DEF Insert, OneCall
    <2> QED BY <2>2 DEF Ahead, NewCardNow
  <1>3. CASE CardFirst(s, mine)
    <2>1. PICK c \in Nat, row \in CardRow : \E rest \in Seq(Quiet(c, mine)) :
            s = Update("card", c, row) \o rest
      BY <1>3 DEF CardFirst
    <2>2. PICK rest \in Seq(Quiet(c, mine)) : s = Update("card", c, row) \o rest
      BY <2>1
    <2>3. Head(s) = OneCall("card", "update", c, row) /\ Tail(s) = rest
      BY <2>2, InFront DEF Update, OneCall
    <2> QED BY <2>3 DEF Ahead, CardNow
  <1>4. CASE CardLast(s, mine)
    <2> DEFINE T == Erases(mine) \cup Logs
    <2>1. PICK c \in Nat : \E rest \in Seq(T) :
            /\ s = rest \o Erase("card", c)
            /\ \A x \in PropsOf(c) : ErasedIn(rest, "prop", x)
            /\ \A p \in PacksOf(c) : ErasedIn(rest, "pack", p)
      BY <1>4 DEF CardLast
    <2>2. PICK rest \in Seq(T) :
            /\ s = rest \o Erase("card", c)
            /\ \A x \in PropsOf(c) : ErasedIn(rest, "prop", x)
            /\ \A p \in PacksOf(c) : ErasedIn(rest, "pack", p)
      BY <2>1
    <2> DEFINE a == OneCall("card", "erase", c, <<>>)
    <2>3. s = rest \o <<a>>
      BY <2>2 DEF Erase, OneCall
    <2>4. CASE rest = <<>>
      <3>1. s = <<a>>
        BY <2>3, <2>4
      <3>2. Head(s) = a /\ Tail(s) = <<>>
        BY <3>1
      <3>3. PropsOf(c) = {} /\ PacksOf(c) = {}
        BY <2>2, <2>4 DEF ErasedIn
      <3> QED BY <3>2, <3>3 DEF Ahead, LastNow
    <2>5. CASE rest # <<>>
      <3> HIDE DEF a
      <3>1. /\ Head(s) = Head(rest) /\ Head(rest) \in T
            /\ Tail(s) = Tail(rest) \o <<a>> /\ Tail(rest) \in Seq(T)
            /\ \A i \in DOMAIN rest :
                 rest[i] = Head(rest) \/ \E j \in DOMAIN Tail(rest) : Tail(rest)[j] = rest[i]
        <4> HIDE DEF T
        <4> QED BY <2>3, <2>5, BeforeOne
      <3>2. ASSUME NEW table, NEW x, ErasedIn(rest, table, x)
            PROVE  Head(s) = OneCall(table, "erase", x, <<>>) \/ ErasedIn(Tail(rest), table, x)
        <4>1. PICK i \in DOMAIN rest : rest[i] = OneCall(table, "erase", x, <<>>)
          BY <3>2 DEF ErasedIn, OneCall
        <4>2. CASE rest[i] = Head(rest)
          BY <3>1, <4>1, <4>2
        <4>3. CASE \E j \in DOMAIN Tail(rest) : Tail(rest)[j] = rest[i]
          BY <4>1, <4>3 DEF ErasedIn, OneCall
        <4> QED BY <3>1, <4>2, <4>3
      <3>3. Tail(s) = Tail(rest) \o Erase("card", c)
        BY <3>1 DEF Erase, OneCall, a
      <3>4. /\ \A x \in PropsOf(c) :
                 Head(s) = OneCall("prop", "erase", x, <<>>) \/ ErasedIn(Tail(rest), "prop", x)
            /\ \A p \in PacksOf(c) :
                 Head(s) = OneCall("pack", "erase", p, <<>>) \/ ErasedIn(Tail(rest), "pack", p)
        BY <2>2, <3>2
      <3>5. Head(s) \in T /\ Tail(rest) \in Seq(T)
        BY <3>1
      <3> DEFINE left == Tail(rest)
                 w == Head(s)
      <3> HIDE DEF left, w
      <3>6. BeforeLast(w, Tail(s), mine)
        BY <3>3, <3>4, <3>5, Zenon DEF BeforeLast, left, w
      <3> QED BY <3>6 DEF Ahead, w
    <2> QED BY <2>4, <2>5
  <1> QED BY <1>1, <1>2, <1>3, <1>4 DEF Safe

\* What a call may be, by its table.
LEMMA QuietIs ==
  ASSUME NEW c, NEW mine, NEW w \in Quiet(c, mine)
  PROVE  /\ w.table \in {"pack", "prop", "log", "box", "end"}
         /\ w.table = "pack" =>
              \/ w.do = "insert" /\ w.row \in PackOf(c)
              \/ w.do = "update" /\ w.id \in mine /\ w.row \in PackOf(c)
              \/ w.do = "erase" /\ w.id \in mine
         /\ w.table = "prop" =>
              \/ w.do = "insert" /\ w.row \in PropOf(c)
              \/ w.do = "update" /\ w.id \in Nat /\ w.row \in PropOf(c)
              \/ w.do = "erase" /\ w.id \in Nat
         /\ w.table = "log" => w.row \in Entry
         /\ w.table = "box" => w.row \in Boxes
  <1>1. CASE w \in Inserts(c)
    BY <1>1 DEF Inserts
  <1>2. CASE w \in Updates(c, mine)
    BY <1>2 DEF Updates
  <1>3. CASE w \in Erases(mine)
    BY <1>3 DEF Erases
  <1>4. CASE w \in Logs
    BY <1>4 DEF Logs
  <1>5. CASE w \in Lists
    BY <1>5 DEF Lists
  <1> QED BY <1>1, <1>2, <1>3, <1>4, <1>5 DEF Quiet

LEMMA ErasesAre ==
  ASSUME NEW mine, NEW w \in Erases(mine) \cup Logs
  PROVE  /\ w.table \in {"pack", "prop", "log", "end"}
         /\ w.table = "pack" => w.do = "erase" /\ w.id \in mine
         /\ w.table = "prop" => w.do = "erase" /\ w.id \in Nat
         /\ w.table = "log" => w.row \in Entry
         /\ w.table = "pack" => w = OneCall("pack", "erase", w.id, <<>>)
         /\ w.table = "prop" => w = OneCall("prop", "erase", w.id, <<>>)
  <1>1. CASE w \in Erases(mine)
    BY <1>1 DEF Erases, OneCall
  <1>2. CASE w \in Logs
    BY <1>2 DEF Logs
  <1> QED BY <1>1, <1>2

\* The calls after one that is not about the card, when it takes away what it
\* erases and adds nothing before a card goes.
LEMMA RestSafe ==
  ASSUME NEW w, NEW left, NEW mine, Ahead(w, left, mine), w.table # "card",
         card' = card,
         w \in Erases(mine) \cup Logs =>
           \A c \in Nat :
             /\ \A x \in PropsOf(c)' :
                  x \in PropsOf(c) /\ w # OneCall("prop", "erase", x, <<>>)
             /\ \A p \in PacksOf(c)' :
                  p \in PacksOf(c) /\ w # OneCall("pack", "erase", p, <<>>)
  PROVE  Safe(left, mine)'
  <1>1. CASE OnCard(w, left, mine)
    <2>1. Ready(left, mine)'
      BY <1>1 DEF OnCard, Ready
    <2> QED BY <2>1 DEF Safe
  <1>2. CASE BeforeLast(w, left, mine)
    <2>1. PICK c \in Nat : \E rest \in Seq(Erases(mine) \cup Logs) :
            /\ w \in Erases(mine) \cup Logs
            /\ left = rest \o Erase("card", c)
            /\ \A x \in PropsOf(c) :
                 w = OneCall("prop", "erase", x, <<>>) \/ ErasedIn(rest, "prop", x)
            /\ \A p \in PacksOf(c) :
                 w = OneCall("pack", "erase", p, <<>>) \/ ErasedIn(rest, "pack", p)
      BY <1>2 DEF BeforeLast
    <2>2. PICK rest \in Seq(Erases(mine) \cup Logs) :
            /\ w \in Erases(mine) \cup Logs
            /\ left = rest \o Erase("card", c)
            /\ \A x \in PropsOf(c) :
                 w = OneCall("prop", "erase", x, <<>>) \/ ErasedIn(rest, "prop", x)
            /\ \A p \in PacksOf(c) :
                 w = OneCall("pack", "erase", p, <<>>) \/ ErasedIn(rest, "pack", p)
      BY <2>1
    <2>3. /\ \A x \in PropsOf(c)' : ErasedIn(rest, "prop", x)
          /\ \A p \in PacksOf(c)' : ErasedIn(rest, "pack", p)
      BY <2>2
    <2>4. CardLast(left, mine)'
      BY <2>2, <2>3, Zenon DEF CardLast
    <2> QED BY <2>4 DEF Safe
  <1>3. w.table = "card" \/ OnCard(w, left, mine) \/ BeforeLast(w, left, mine)
    BY DEF Ahead, NewCardNow, CardNow, LastNow, OneCall
  <1> QED BY <1>1, <1>2, <1>3

----------------------------------------------------------------------------
(* The invariant, action by action.                                         *)

LEMMA InitKeeps ==
  ASSUME Init
  PROVE  IInv
  <1>1. PICK l \in Layouts :
          /\ card = [c \in DOMAIN l.cards |-> [name |-> l.cards[c], props |-> <<>>]]
          /\ prop = l.props /\ pack = l.packs
          /\ boxes = {l.packs[p].box : p \in DOMAIN l.packs}
          /\ lastCard = Cardinality(DOMAIN l.cards)
          /\ lastProp = Cardinality(DOMAIN l.props)
          /\ lastPack = Cardinality(DOMAIN l.packs)
    BY DEF Init
  <1> DEFINE Ids == DOMAIN l.cards
             PropRow == [card : Ids, pair : STRING \X STRING]
             PackAt == [card : Ids, box : Boxes, qty : Qty]
  <1>2. l.cards \in Seq(Name) /\ l.props \in Seq(PropRow) /\ l.packs \in Seq(PackAt)
    BY CardEditAssumption
  <1>3. \A T : \A s \in Seq(T) :
          DOMAIN s = 1 .. Cardinality(DOMAIN s) /\ Cardinality(DOMAIN s) \in Nat
    <2> SUFFICES ASSUME NEW T, NEW s \in Seq(T)
                 PROVE  DOMAIN s = 1 .. Cardinality(DOMAIN s) /\ Cardinality(DOMAIN s) \in Nat
      OBVIOUS
    <2>1. Len(s) \in Nat /\ DOMAIN s = 1 .. Len(s)
      OBVIOUS
    <2>2. Cardinality(1 .. Len(s)) = Len(s)
      BY <2>1, FS_Interval
    <2> QED BY <2>1, <2>2
  <1> HIDE DEF PropRow, PackAt
  <1>4. /\ DOMAIN card = 1 .. lastCard /\ lastCard \in Nat /\ DOMAIN card = Ids
        /\ DOMAIN prop = 1 .. lastProp /\ lastProp \in Nat
        /\ DOMAIN pack = 1 .. lastPack /\ lastPack \in Nat
    BY <1>1, <1>2, <1>3
  <1>5. \A c \in Ids : Ids \subseteq Nat /\ card[c] \in CardRow
    <2>1. \A c \in Ids : l.cards[c] \in Name
      BY <1>2, ElementOf
    <2> QED BY <1>1, <1>4, <2>1 DEF CardRow
  <1>6. \A x \in DOMAIN prop : prop[x] \in PropRow
    BY <1>1, <1>2, ElementOf
  <1>7. \A p \in DOMAIN pack : pack[p] \in PackAt
    BY <1>1, <1>2, ElementOf
  <1>8. Ids \subseteq Nat
    BY <1>4
  <1>9. \A x \in DOMAIN prop : prop[x] \in [card : Nat, pair : STRING \X STRING] /\ prop[x].card \in Ids
    BY <1>6, <1>8 DEF PropRow
  <1>10. \A p \in DOMAIN pack : /\ pack[p] \in PackRow /\ pack[p].card \in Ids
                                /\ pack[p].box \in Boxes
    BY <1>7, <1>8 DEF PackAt, PackRow
  <1>11. boxes \subseteq Boxes
    BY <1>1, <1>10
  <1>12. journal = <<>> /\ saved = Image /\ savedProp = <<prop, lastProp>>
         /\ req = NoReq /\ todo = <<>> /\ requests = 0 /\ faults = 0
    BY DEF Init
  <1>13. ImageOK(Image) /\ Orphanless(Image)
    <2>1. journal \in Seq(Entry)
      BY <1>12
    <2> HIDE DEF Ids
    <2> QED BY <1>4, <1>5, <1>10, <1>11, <2>1 DEF ImageOK, Image, Orphanless
  <1>14. PropsOK(prop, lastProp) /\ \A x \in DOMAIN prop : prop[x].card \in DOMAIN card
    BY <1>4, <1>9 DEF PropsOK
  <1>15. Stores
    <2>1. requests \in 0 .. MaxRequests /\ faults \in 0 .. MaxFaults
      BY <1>12, CardEditAssumption
    <2>2. ImageOK(saved) /\ Orphanless(saved)
      BY <1>12, <1>13
    <2>3. savedProp[1] = prop /\ savedProp[2] = lastProp /\ saved.card = card /\ saved.lastPack = lastPack
      BY <1>12 DEF Image
    <2> QED BY <1>4, <1>13, <1>14, <2>1, <2>2, <2>3 DEF Stores, Owned, NoOrphans
  <1>16. Between /\ OthersUntouched /\ Safe(todo, MineFor(req))
    BY <1>12 DEF Between, OthersUntouched, Idle, Image, Safe
  <1> QED BY <1>15, <1>16 DEF IInv

\* What is safe of a list of calls is about the tables alone.
LEMMA SafeKept ==
  ASSUME NEW s, NEW mine, UNCHANGED <<card, prop, pack, lastCard>>, Safe(s, mine)
  PROVE  Safe(s, mine)'
  <1>1. Ready(s, mine) => Ready(s, mine)'
    BY DEF Ready
  <1>2. NewFirst(s, mine) => NewFirst(s, mine)'
    BY DEF NewFirst
  <1>3. CardFirst(s, mine) => CardFirst(s, mine)'
    BY DEF CardFirst
  <1>4. CardLast(s, mine) => CardLast(s, mine)'
    BY DEF CardLast, PropsOf, PacksOf
  <1> QED BY <1>1, <1>2, <1>3, <1>4 DEF Safe

LEMMA Opened ==
  ASSUME IInv, NEW r, NEW calls, Open(r, calls), r.op \in {"+", "-", "="},
         Safe(calls, MineFor(r)), faults' \in 0 .. MaxFaults
  PROVE  IInv'
  <1>1. /\ Idle /\ requests' = requests + 1 /\ requests < MaxRequests
        /\ req' = r /\ todo' = calls
        /\ UNCHANGED <<tables, saved, prop, lastProp, savedProp>>
    BY DEF Open
  <1>2. card = saved.card /\ pack = saved.pack
    BY <1>1 DEF IInv, Between
  <1>3. ~Idle'
    BY <1>1 DEF Idle, NoReq
  <1>4. Stores'
    <2>1. requests' \in 0 .. MaxRequests
      BY <1>1, CardEditAssumption DEF IInv, Stores
    <2> QED BY <1>1, <2>1 DEF IInv, Stores, Owned, NoOrphans, Orphanless, Image, ImageOK, PropsOK, tables
  <1>5. OthersUntouched'
    BY <1>1, <1>2 DEF OthersUntouched, tables
  <1>6. Safe(todo, MineFor(req))'
    <2>1. PICK mine : mine = MineFor(r)
      OBVIOUS
    <2>2. MineFor(req)' = mine
      BY <1>1, <2>1 DEF MineFor
    <2>3. Safe(calls, mine)'
      BY <1>1, <2>1, SafeKept DEF tables
    <2> QED BY <1>1, <2>2, <2>3
  <1> QED BY <1>3, <1>4, <1>5, <1>6 DEF IInv, Between

LEMMA AddCardKeeps ==
  ASSUME IInv, AddCard
  PROVE  IInv'
  <1>1. Stores /\ Between
    BY DEF IInv
  <1>2. faults \in 0 .. MaxFaults /\ MaxFaults \in Nat
    BY CardEditAssumption DEF IInv, Stores
  <1>3. ASSUME NEW r \in PlusRequests, NEW calls \in Plus(r), Open(r, calls), UNCHANGED faults
        PROVE  IInv'
    <2>1. r.op = "+" /\ Idle
      BY <1>3, PlusTyped DEF Open
    <2>2. Safe(calls, MineFor(r))
      BY <1>1, <2>1, PlusSafe
    <2> QED BY <1>2, <1>3, <2>1, <2>2, Opened
  <1>4. ASSUME NEW r \in PlusRequests, Open(r, NewCard(r) \o ListBoxes(r.packs)), Fault
        PROVE  IInv'
    <2>1. r.op = "+"
      BY PlusTyped
    <2>2. Safe(NewCard(r) \o ListBoxes(r.packs), MineFor(r))
      BY <1>1, NewCardSafe DEF Safe
    <2>3. faults' \in 0 .. MaxFaults
      BY <1>2, <1>4 DEF Fault
    <2>4. PICK calls : calls = NewCard(r) \o ListBoxes(r.packs)
      OBVIOUS
    <2> QED BY <1>4, <2>1, <2>2, <2>3, <2>4, Opened
  <1> QED BY <1>3, <1>4 DEF AddCard

LEMMA RemoveOneKeeps ==
  ASSUME IInv, RemoveOne
  PROVE  IInv'
  <1>1. PICK r \in MinusRequests : Open(r, Minus(r)) /\ UNCHANGED faults
    BY DEF RemoveOne
  <1>2. Stores /\ Between /\ Idle /\ faults' \in 0 .. MaxFaults
    BY <1>1 DEF IInv, Stores, Open
  <1>3. r.op = "-" /\ Safe(Minus(r), MineFor(r))
    BY <1>2, MinusTyped, MinusSafe
  <1>4. PICK calls : calls = Minus(r)
    OBVIOUS
  <1> QED BY <1>1, <1>2, <1>3, <1>4, Opened

LEMMA EditCardKeeps ==
  ASSUME IInv, EditCard
  PROVE  IInv'
  <1>1. PICK r \in EqualRequests, named \in BOOLEAN : Open(r, Edit(r, named)) /\ UNCHANGED faults
    BY DEF EditCard
  <1>2. Stores /\ Between /\ Idle /\ faults' \in 0 .. MaxFaults
    BY <1>1 DEF IInv, Stores, Open
  <1>3. r.op = "=" /\ Safe(Edit(r, named), MineFor(r))
    BY <1>2, EqualTyped, EditSafe
  <1>4. PICK calls : calls = Edit(r, named)
    OBVIOUS
  <1> QED BY <1>1, <1>2, <1>3, <1>4, Opened

\* What every call leaves alone.
LEMMA CallIs ==
  ASSUME IInv, todo # <<>>, todo' = Tail(todo),
         UNCHANGED <<saved, savedProp, req, requests>>, NEW mine, mine = MineFor(req)
  PROVE  /\ ~Idle /\ ~Idle' /\ MineFor(req)' = mine
         /\ Ahead(Head(todo), todo', mine)
  <1>1. ~Idle
    BY DEF IInv, Between
  <1>2. Ahead(Head(todo), Tail(todo), mine)
    BY FirstCall DEF IInv
  <1> QED BY <1>1, <1>2 DEF Idle, MineFor

\* A package the request may not write stays as it was found when the call
\* leaves it.
LEMMA MineIsTouchable ==
  ASSUME IInv, ~Idle, UNCHANGED <<saved, req>>,
         \A p \in DOMAIN saved.pack : p \in DOMAIN pack /\ p \notin MineFor(req) =>
           p \in DOMAIN pack' /\ pack'[p] = pack[p]
  PROVE  OthersUntouched'
  <1>1. \A p \in DOMAIN saved.pack : p \in Nat
    BY DEF IInv, Stores, ImageOK
  <1>2. \A p \in DOMAIN saved.pack : ~Touchable(saved.pack[p].card) => p \notin MineFor(req)
    BY DEF Touchable, MineFor
  <1>3. \A p \in DOMAIN saved.pack : ~Touchable(saved.pack[p].card) =>
          p \in DOMAIN pack /\ pack[p] = saved.pack[p]
    BY DEF IInv, OthersUntouched
  <1>4. \A c : Touchable(c)' <=> Touchable(c)
    BY DEF Touchable
  <1> QED BY <1>2, <1>3, <1>4 DEF OthersUntouched

\* A call that leaves cards, properties and packages alone.
LEMMA QuietCallKeeps ==
  ASSUME IInv, todo # <<>>, todo' = Tail(todo),
         UNCHANGED <<saved, savedProp, req, requests, card, pack, prop,
                     lastCard, lastPack, lastProp>>,
         Head(todo).table \notin Stored,
         boxes' \subseteq Boxes, journal' \in Seq(Entry), faults' \in 0 .. MaxFaults
  PROVE  IInv'
  <1>1. PICK mine : mine = MineFor(req)
    OBVIOUS
  <1>2. ~Idle /\ ~Idle' /\ MineFor(req)' = mine /\ Ahead(Head(todo), todo', mine)
    BY <1>1, CallIs
  <1>3. Safe(todo, MineFor(req))'
    <2>1. PICK w, left : w = Head(todo) /\ left = todo'
      OBVIOUS
    <2>2. w.table \notin Stored /\ Ahead(w, left, mine)
      BY <1>2, <2>1
    <2>3. /\ \A c : PropsOf(c)' = PropsOf(c) /\ PacksOf(c)' = PacksOf(c)
          /\ \A x : w # OneCall("prop", "erase", x, <<>>) /\ w # OneCall("pack", "erase", x, <<>>)
      BY <2>2 DEF PropsOf, PacksOf, Stored, OneCall
    <2>4. Safe(left, mine)'
      BY <2>2, <2>3, RestSafe DEF Stored
    <2> QED BY <1>2, <2>1, <2>4
  <1>4. Stores'
    BY DEF IInv, Stores, Owned, NoOrphans, Orphanless, Image, ImageOK, PropsOK
  <1>5. OthersUntouched'
    BY <1>2, MineIsTouchable
  <1> QED BY <1>2, <1>3, <1>4, <1>5 DEF IInv, Between

LEMMA WriteLogKeeps ==
  ASSUME IInv, WriteLog
  PROVE  IInv'
  <1> DEFINE w == Head(todo)
  <1>1. /\ todo # <<>> /\ todo' = Tail(todo) /\ w.table = "log"
        /\ UNCHANGED <<saved, savedProp, req, requests, card, pack, boxes,
                       lastCard, lastPack, prop, lastProp, faults>>
        /\ Add2Log(w.row.op, IF w.row.pack = LastInserted THEN lastPack ELSE w.row.pack,
                   w.row.value)
    BY DEF WriteLog, Call, Turn
  <1>2. PICK mine : mine = MineFor(req)
    OBVIOUS
  <1>3. w.row \in Entry
    <2>1. Ahead(w, todo', mine)
      BY <1>1, <1>2, CallIs
    <2>2. PICK v, left : v = w /\ left = todo'
      OBVIOUS
    <2> HIDE DEF w
    <2>3. OnCard(v, left, mine) \/ BeforeLast(v, left, mine)
      BY <1>1, <2>1, <2>2 DEF Ahead, NewCardNow, CardNow, LastNow, OneCall
    <2>4. OnCard(v, left, mine) => v.row \in Entry
      BY <1>1, <2>2, QuietIs DEF OnCard
    <2>5. BeforeLast(v, left, mine) => v.row \in Entry
      BY <1>1, <2>2, ErasesAre DEF BeforeLast
    <2> QED BY <2>2, <2>3, <2>4, <2>5
  <1>4. journal' \in Seq(Entry)
    <2> DEFINE id == IF w.row.pack = LastInserted THEN lastPack ELSE w.row.pack
               entry == [op |-> w.row.op, pack |-> id, value |-> w.row.value]
    <2>1. lastPack \in Nat /\ journal \in Seq(Entry)
      BY DEF IInv, Stores, ImageOK, Image
    <2>2. entry \in Entry
      BY <1>3, <2>1 DEF Entry
    <2>3. journal' = Append(journal, entry)
      BY <1>1 DEF Add2Log
    <2> HIDE DEF entry
    <2> QED BY <2>1, <2>2, <2>3
  <1>5. boxes' \subseteq Boxes /\ faults' \in 0 .. MaxFaults
    BY <1>1 DEF IInv, Stores, ImageOK, Image
  <1> QED BY <1>1, <1>4, <1>5, QuietCallKeeps DEF Stored

LEMMA LogPastEndKeeps ==
  ASSUME IInv, LogPastEnd
  PROVE  IInv'
  <1>1. /\ todo # <<>> /\ todo' = Tail(todo) /\ Head(todo).table = "end"
        /\ UNCHANGED <<saved, savedProp, req, requests, card, pack, boxes,
                       lastCard, lastPack, prop, lastProp, faults>>
        /\ \E p \in 0 .. lastPack : \E n \in Qty : Add2Log("-", p, n)
    BY DEF LogPastEnd, Call, Turn
  <1>2. PICK p \in 0 .. lastPack, n \in Qty : Add2Log("-", p, n)
    BY <1>1
  <1>3. journal' \in Seq(Entry)
    <2> DEFINE entry == [op |-> "-", pack |-> p, value |-> n]
    <2>1. lastPack \in Nat /\ journal \in Seq(Entry)
      BY DEF IInv, Stores, ImageOK, Image
    <2>2. entry \in Entry
      BY <2>1 DEF Entry, OpSymbol
    <2>3. journal' = Append(journal, entry)
      BY <1>2 DEF Add2Log
    <2> HIDE DEF entry
    <2> QED BY <2>1, <2>2, <2>3
  <1>4. boxes' \subseteq Boxes /\ faults' \in 0 .. MaxFaults
    BY <1>1 DEF IInv, Stores, ImageOK, Image
  <1> QED BY <1>1, <1>3, <1>4, QuietCallKeeps DEF Stored

LEMMA ListBoxKeeps ==
  ASSUME IInv, ListBox
  PROVE  IInv'
  <1> DEFINE w == Head(todo)
  <1>1. /\ todo # <<>> /\ todo' = Tail(todo) /\ w.table = "box"
        /\ UNCHANGED <<saved, savedProp, req, requests, card, pack, journal,
                       lastCard, lastPack, prop, lastProp, faults>>
        /\ boxes' = boxes \cup {w.row}
    BY DEF ListBox, Call, Turn, UpdateBoxOnInsert
  <1>2. PICK mine : mine = MineFor(req)
    OBVIOUS
  <1>3. w.row \in Boxes
    <2>1. Ahead(w, todo', mine)
      BY <1>1, <1>2, CallIs
    <2>2. PICK v, left : v = w /\ left = todo'
      OBVIOUS
    <2> HIDE DEF w
    <2>3. OnCard(v, left, mine) \/ BeforeLast(v, left, mine)
      BY <1>1, <2>1, <2>2 DEF Ahead, NewCardNow, CardNow, LastNow, OneCall
    <2>4. OnCard(v, left, mine) => v.row \in Boxes
      BY <1>1, <2>2, QuietIs DEF OnCard
    <2>5. ~BeforeLast(v, left, mine)
      BY <1>1, <2>2, ErasesAre DEF BeforeLast
    <2> QED BY <2>2, <2>3, <2>4, <2>5
  <1>4. /\ boxes \subseteq Boxes /\ journal \in Seq(Entry) /\ faults \in 0 .. MaxFaults
    BY DEF IInv, Stores, ImageOK, Image
  <1> QED BY <1>1, <1>3, <1>4, QuietCallKeeps DEF Stored

LEMMA SwallowKeeps ==
  ASSUME IInv, Swallow
  PROVE  IInv'
  <1>1. /\ todo # <<>> /\ todo' = Tail(todo) /\ Head(todo).table \notin Stored
        /\ UNCHANGED <<saved, savedProp, req, requests, tables, prop, lastProp>>
        /\ faults < MaxFaults /\ faults' = faults + 1
    BY DEF Swallow, Call, Fault
  <1>2. /\ boxes \subseteq Boxes /\ journal \in Seq(Entry) /\ faults \in 0 .. MaxFaults
    BY DEF IInv, Stores, ImageOK, Image
  <1>3. faults' \in 0 .. MaxFaults
    BY <1>1, <1>2, CardEditAssumption
  <1> QED BY <1>1, <1>2, <1>3, QuietCallKeeps DEF tables

LEMMA ThrowKeeps ==
  ASSUME IInv, Throw
  PROVE  IInv'
  <1>1. /\ todo # <<>> /\ todo' = <<>>
        /\ UNCHANGED <<tables, saved, prop, lastProp, savedProp, req, requests>>
        /\ faults' = faults \/ (faults < MaxFaults /\ faults' = faults + 1)
    BY DEF Throw, Fault
  <1>2. ~Idle /\ ~Idle'
    BY <1>1 DEF IInv, Between, Idle
  <1>3. faults' \in 0 .. MaxFaults
    BY <1>1, CardEditAssumption DEF IInv, Stores
  <1>4. Stores'
    BY <1>1, <1>3 DEF IInv, Stores, Owned, NoOrphans, Orphanless, Image, ImageOK, PropsOK, tables
  <1>5. OthersUntouched'
    BY <1>1, <1>2, MineIsTouchable DEF tables
  <1>6. Safe(todo, MineFor(req))'
    BY <1>1 DEF Safe
  <1> QED BY <1>2, <1>4, <1>5, <1>6 DEF IInv, Between

LEMMA AnswerKeeps ==
  ASSUME IInv, Answer
  PROVE  IInv'
  <1>1. /\ todo = <<>> /\ saved' = Image /\ savedProp' = <<prop, lastProp>> /\ req' = NoReq
        /\ UNCHANGED <<tables, prop, lastProp, todo, requests, faults>>
    BY DEF Answer, Commit
  <1>2. /\ saved'.card = card' /\ saved'.pack = pack' /\ saved'.lastPack = lastPack
        /\ savedProp'[1] = prop /\ savedProp'[2] = lastProp
    BY <1>1 DEF Image, tables
  <1>3. ImageOK(saved') /\ Orphanless(saved')
    BY <1>1 DEF IInv, Stores, Owned
  <1>4. Stores'
    <2>1. lastPack \in Nat
      BY DEF IInv, Stores, ImageOK, Image
    <2>2. (\A x \in DOMAIN prop : prop[x].card \in DOMAIN card) /\ PropsOK(prop, lastProp)
          /\ Orphanless(Image) /\ ImageOK(Image)
          /\ requests \in 0 .. MaxRequests /\ faults \in 0 .. MaxFaults
      BY DEF IInv, Stores, Owned
    <2>3. Image' = Image
      BY <1>1 DEF Image, tables
    <2>4. NoOrphans'
      BY <1>1, <1>2, <1>3, <2>2 DEF NoOrphans, tables, Orphanless
    <2>5. Owned'
      BY <1>1, <2>2, <2>3 DEF Owned, tables, Orphanless
    <2>6. ImageOK(Image)' /\ ImageOK(saved)'
      BY <1>3, <2>2, <2>3 DEF ImageOK
    <2>7. PropsOK(prop, lastProp)' /\ PropsOK(savedProp[1], savedProp[2])'
      BY <1>1, <1>2, <2>2 DEF PropsOK
    <2>8. (saved.lastPack <= lastPack)'
      BY <1>1, <1>2, <2>1 DEF tables
    <2>9. (requests \in 0 .. MaxRequests)' /\ (faults \in 0 .. MaxFaults)'
      BY <1>1, <2>2
    <2> QED BY <2>4, <2>5, <2>6, <2>7, <2>8, <2>9 DEF Stores
  <1> QED BY <1>1, <1>2, <1>4 DEF IInv, Between, OthersUntouched, Idle, Safe, tables

LEMMA AbortKeeps ==
  ASSUME IInv, Abort
  PROVE  IInv'
  <1>1. /\ card' = saved.card /\ pack' = saved.pack /\ boxes' = saved.boxes
        /\ journal' = saved.journal /\ lastCard' = saved.lastCard /\ lastPack' = saved.lastPack
        /\ prop' = savedProp[1] /\ lastProp' = savedProp[2]
        /\ req' = NoReq /\ todo' = <<>>
        /\ UNCHANGED <<saved, savedProp, requests>>
        /\ faults' = faults \/ (faults < MaxFaults /\ faults' = faults + 1)
    BY DEF Abort, Restore, Fault
  <1>2. faults' \in 0 .. MaxFaults /\ requests' \in 0 .. MaxRequests
    BY <1>1, CardEditAssumption DEF IInv, Stores
  <1>3. /\ ImageOK(saved) /\ Orphanless(saved)
        /\ PropsOK(savedProp[1], savedProp[2])
        /\ \A x \in DOMAIN savedProp[1] : savedProp[1][x].card \in DOMAIN saved.card
    BY DEF IInv, Stores, NoOrphans
  <1>4. Stores'
    <2>1. ImageOK(saved)' /\ NoOrphans' /\ PropsOK(savedProp[1], savedProp[2])'
      BY <1>1, <1>3 DEF ImageOK, NoOrphans, Orphanless, PropsOK
    <2>2. ImageOK(Image)'
      BY <1>1, <1>3 DEF ImageOK, Image
    <2>3. PropsOK(prop, lastProp)'
      BY <1>1, <1>3 DEF PropsOK
    <2>4. Owned'
      BY <1>1, <1>3 DEF Owned, Orphanless, Image
    <2>5. (saved.lastPack <= lastPack)'
      BY <1>1, <1>3 DEF ImageOK
    <2> QED BY <1>2, <2>1, <2>2, <2>3, <2>4, <2>5 DEF Stores
  <1> QED BY <1>1, <1>4 DEF IInv, Between, OthersUntouched, Idle, Safe

LEMMA WriteCardKeeps ==
  ASSUME IInv, WriteCard
  PROVE  IInv'
  <1>1. /\ todo # <<>> /\ todo' = Tail(todo) /\ Head(todo).table = "card"
        /\ (Head(todo).do # "insert" => Head(todo).id \in DOMAIN card)
        /\ card' = After(card, lastCard, Head(todo)) /\ lastCard' = Counter(lastCard, Head(todo))
        /\ UNCHANGED <<saved, savedProp, req, requests, pack, boxes, journal, lastPack,
                       prop, lastProp, faults>>
    BY DEF WriteCard, Call, Turn, Throws, Rows, Stored
  <1>2. PICK mine, w, left : mine = MineFor(req) /\ w = Head(todo) /\ left = todo'
    OBVIOUS
  <1>3. ~Idle /\ ~Idle' /\ MineFor(req)' = mine /\ Ahead(w, left, mine)
    BY <1>1, <1>2, CallIs
  <1>4. /\ w.table = "card" /\ (w.do # "insert" => w.id \in DOMAIN card)
        /\ card' = After(card, lastCard, w) /\ lastCard' = Counter(lastCard, w)
    BY <1>1, <1>2
  <1>5. /\ lastCard \in Nat /\ DOMAIN card \subseteq 1 .. lastCard
        /\ \A c \in DOMAIN card : card[c] \in CardRow
    BY DEF IInv, Stores, ImageOK, Image
  <1>6. /\ \A p \in DOMAIN pack : pack[p].card \in DOMAIN card
        /\ \A x \in DOMAIN prop : prop[x].card \in DOMAIN card
    BY DEF IInv, Stores, Owned, Orphanless, Image
  <1> DEFINE Column == /\ lastCard' \in Nat /\ DOMAIN card' \subseteq 1 .. lastCard'
                       /\ \A c \in DOMAIN card' : card'[c] \in CardRow
                       /\ \A p \in DOMAIN pack : pack[p].card \in DOMAIN card'
                       /\ \A x \in DOMAIN prop : prop[x].card \in DOMAIN card'
  <1>7. ASSUME NewCardNow(w, left, mine)
        PROVE  Column /\ Safe(left, mine)'
    <2>1. PICK row \in CardRow :
            w = OneCall("card", "insert", 0, row) /\ left \in Seq(Quiet(lastCard + 1, mine))
      BY <1>7 DEF NewCardNow
    <2>2. card' = Put(card, lastCard + 1, row) /\ lastCard' = lastCard + 1
      BY <1>4, <2>1 DEF After, Counter, OneCall
    <2>3. /\ DOMAIN card' = DOMAIN card \cup {lastCard + 1}
          /\ \A c \in DOMAIN card' : card'[c] = IF c = lastCard + 1 THEN row ELSE card[c]
      BY <2>2 DEF Put
    <2>4. Column
      <3>1. lastCard' \in Nat /\ DOMAIN card' \subseteq 1 .. lastCard'
        BY <1>5, <2>2, <2>3
      <3> QED BY <1>5, <1>6, <2>3, <3>1
    <2>5. Ready(left, mine)'
      BY <2>1, <2>3 DEF Ready
    <2> QED BY <2>4, <2>5 DEF Safe
  <1>8. ASSUME CardNow(w, left, mine)
        PROVE  Column /\ Safe(left, mine)'
    <2>1. PICK c \in Nat, row \in CardRow :
            w = OneCall("card", "update", c, row) /\ left \in Seq(Quiet(c, mine))
      BY <1>8 DEF CardNow
    <2>2. card' = Put(card, c, row) /\ lastCard' = lastCard /\ c \in DOMAIN card
      BY <1>4, <2>1 DEF After, Counter, OneCall
    <2>3. /\ DOMAIN card' = DOMAIN card
          /\ \A d \in DOMAIN card' : card'[d] = IF d = c THEN row ELSE card[d]
      BY <2>2 DEF Put
    <2>4. Column
      BY <1>5, <1>6, <2>2, <2>3
    <2>5. Ready(left, mine)'
      BY <2>1, <2>2, <2>3 DEF Ready
    <2> QED BY <2>4, <2>5 DEF Safe
  <1>9. ASSUME LastNow(w, left)
        PROVE  Column /\ Safe(left, mine)'
    <2>1. PICK c \in Nat : /\ w = OneCall("card", "erase", c, <<>>) /\ left = <<>>
                           /\ PropsOf(c) = {} /\ PacksOf(c) = {}
      BY <1>9 DEF LastNow
    <2>2. card' = [d \in DOMAIN card \ {c} |-> card[d]] /\ lastCard' = lastCard
      BY <1>4, <2>1 DEF After, Counter, OneCall
    <2>3. (\A p \in DOMAIN pack : pack[p].card # c) /\ (\A x \in DOMAIN prop : prop[x].card # c)
      BY <2>1 DEF PropsOf, PacksOf
    <2>4. Column
      BY <1>5, <1>6, <2>2, <2>3
    <2> QED BY <2>1, <2>4 DEF Safe
  <1>10. ASSUME OnCard(w, left, mine)
        PROVE  Column /\ Safe(left, mine)'
    BY <1>4, <1>10, QuietIs DEF OnCard
  <1>11. ASSUME BeforeLast(w, left, mine)
        PROVE  Column /\ Safe(left, mine)'
    BY <1>4, <1>11, ErasesAre DEF BeforeLast
  <1>12. Column /\ Safe(left, mine)'
    <2> HIDE DEF Column
    <2> QED BY <1>3, <1>7, <1>8, <1>9, <1>10, <1>11 DEF Ahead
  <1>13. Safe(todo, MineFor(req))'
    BY <1>2, <1>3, <1>12
  <1>14. Stores'
    <2>1. ImageOK(Image)'
      BY <1>1, <1>12 DEF IInv, Stores, ImageOK, Image
    <2>2. Owned'
      BY <1>1, <1>12 DEF Owned, Orphanless, Image
    <2> QED BY <1>1, <2>1, <2>2 DEF IInv, Stores, NoOrphans, Orphanless, ImageOK, PropsOK
  <1>15. OthersUntouched'
    BY <1>1, <1>3, MineIsTouchable
  <1> QED BY <1>3, <1>13, <1>14, <1>15 DEF IInv, Between

LEMMA WritePropKeeps ==
  ASSUME IInv, WriteProp
  PROVE  IInv'
  <1>1. /\ todo # <<>> /\ todo' = Tail(todo) /\ Head(todo).table = "prop"
        /\ (Head(todo).do # "insert" => Head(todo).id \in DOMAIN prop)
        /\ prop' = After(prop, lastProp, Head(todo)) /\ lastProp' = Counter(lastProp, Head(todo))
        /\ UNCHANGED <<saved, savedProp, req, requests, tables, faults>>
    BY DEF WriteProp, Call, Turn, Throws, Rows, Stored
  <1>2. PICK mine, w, left : mine = MineFor(req) /\ w = Head(todo) /\ left = todo'
    OBVIOUS
  <1>3. ~Idle /\ ~Idle' /\ MineFor(req)' = mine /\ Ahead(w, left, mine)
    BY <1>1, <1>2, CallIs
  <1>4. /\ w.table = "prop" /\ (w.do # "insert" => w.id \in DOMAIN prop)
        /\ prop' = After(prop, lastProp, w) /\ lastProp' = Counter(lastProp, w)
    BY <1>1, <1>2
  <1>5. /\ lastProp \in Nat /\ DOMAIN prop \subseteq 1 .. lastProp
        /\ \A x \in DOMAIN prop : /\ prop[x] \in [card : Nat, pair : STRING \X STRING]
                                  /\ prop[x].card \in DOMAIN card
    BY DEF IInv, Stores, PropsOK, Owned
  <1>6. \/ w.do = "erase"
        \/ \E c \in DOMAIN card : w.do \in {"insert", "update"} /\ w.row \in PropOf(c)
    <2>1. CASE OnCard(w, left, mine)
      BY <1>4, <2>1, QuietIs DEF OnCard
    <2>2. CASE BeforeLast(w, left, mine)
      BY <1>4, <2>2, ErasesAre DEF BeforeLast
    <2> QED BY <1>3, <1>4, <2>1, <2>2 DEF Ahead, NewCardNow, CardNow, LastNow, OneCall
  <1>7. PropsOK(prop', lastProp') /\ \A x \in DOMAIN prop' : prop'[x].card \in DOMAIN card
    <2>1. CASE w.do = "erase"
      <3>1. prop' = [x \in DOMAIN prop \ {w.id} |-> prop[x]] /\ lastProp' = lastProp
        BY <1>4, <2>1 DEF After, Counter
      <3> QED BY <1>5, <3>1 DEF PropsOK
    <2>2. CASE w.do # "erase"
      <3>1. PICK c \in DOMAIN card : w.do \in {"insert", "update"} /\ w.row \in PropOf(c)
        BY <1>6, <2>2
      <3>2. c \in Nat
        BY DEF IInv, Stores, ImageOK, Image
      <3>3. w.row \in [card : Nat, pair : STRING \X STRING] /\ w.row.card = c
        BY <3>1, <3>2 DEF PropOf
      <3>4. PICK id : /\ prop' = Put(prop, id, w.row)
                      /\ id \in 1 .. lastProp' /\ lastProp' \in Nat /\ lastProp <= lastProp'
        <4>1. CASE w.do = "insert"
          <5>1. prop' = Put(prop, lastProp + 1, w.row) /\ lastProp' = lastProp + 1
            BY <1>4, <4>1 DEF After, Counter
          <5>2. lastProp + 1 \in 1 .. lastProp'
            BY <1>5, <5>1
          <5> QED BY <1>5, <5>1, <5>2
        <4>2. CASE w.do = "update"
          <5>1. prop' = Put(prop, w.id, w.row) /\ lastProp' = lastProp /\ w.id \in 1 .. lastProp
            BY <1>4, <1>5, <4>2 DEF After, Counter
          <5> QED BY <1>5, <5>1
        <4> QED BY <3>1, <4>1, <4>2
      <3>5. /\ DOMAIN prop' = DOMAIN prop \cup {id}
            /\ \A x \in DOMAIN prop' : prop'[x] = IF x = id THEN w.row ELSE prop[x]
        BY <3>4 DEF Put
      <3>6. DOMAIN prop' \subseteq 1 .. lastProp'
        BY <1>5, <3>4, <3>5
      <3> QED BY <1>5, <3>3, <3>4, <3>5, <3>6 DEF PropsOK
    <2> QED BY <2>1, <2>2
  <1>8. Safe(left, mine)'
    <2>1. ASSUME w \in Erases(mine) \cup Logs, NEW c \in Nat
          PROVE  /\ \A x \in PropsOf(c)' :
                      x \in PropsOf(c) /\ w # OneCall("prop", "erase", x, <<>>)
                 /\ \A p \in PacksOf(c)' :
                      p \in PacksOf(c) /\ w # OneCall("pack", "erase", p, <<>>)
      <3>1. w.do = "erase"
        BY <1>4, <2>1, ErasesAre
      <3>2. prop' = [x \in DOMAIN prop \ {w.id} |-> prop[x]] /\ pack' = pack
        BY <1>1, <1>4, <3>1 DEF After, tables
      <3>3. \A x \in PropsOf(c)' : x \in PropsOf(c) /\ x # w.id
        BY <3>2 DEF PropsOf
      <3>4. PacksOf(c)' = PacksOf(c)
        BY <3>2 DEF PacksOf
      <3> QED BY <1>4, <3>3, <3>4 DEF OneCall
    <2> QED BY <1>1, <1>3, <1>4, <2>1, RestSafe DEF tables
  <1>9. Safe(todo, MineFor(req))'
    BY <1>2, <1>3, <1>8
  <1>10. Stores'
    <2>1. ImageOK(Image)' /\ Orphanless(Image)'
      BY <1>1 DEF IInv, Stores, Owned, Orphanless, ImageOK, Image, tables
    <2>2. Owned' /\ PropsOK(prop, lastProp)'
      BY <1>1, <1>7, <2>1 DEF Owned, PropsOK, tables
    <2> QED BY <1>1, <2>1, <2>2 DEF IInv, Stores, NoOrphans, Orphanless, ImageOK, PropsOK, tables
  <1>11. OthersUntouched'
    BY <1>1, <1>3, MineIsTouchable DEF tables
  <1> QED BY <1>3, <1>9, <1>10, <1>11 DEF IInv, Between

LEMMA WritePackKeeps ==
  ASSUME IInv, WritePack
  PROVE  IInv'
  <1>1. /\ todo # <<>> /\ todo' = Tail(todo) /\ Head(todo).table = "pack"
        /\ (Head(todo).do # "insert" => Head(todo).id \in DOMAIN pack)
        /\ pack' = After(pack, lastPack, Head(todo)) /\ lastPack' = Counter(lastPack, Head(todo))
        /\ UNCHANGED <<saved, savedProp, req, requests, card, boxes, journal, lastCard,
                       prop, lastProp, faults>>
    BY DEF WritePack, Call, Turn, Throws, Rows, Stored
  <1>2. PICK mine, w, left : mine = MineFor(req) /\ w = Head(todo) /\ left = todo'
    OBVIOUS
  <1>3. ~Idle /\ ~Idle' /\ MineFor(req)' = mine /\ Ahead(w, left, mine)
    BY <1>1, <1>2, CallIs
  <1>4. /\ w.table = "pack" /\ (w.do # "insert" => w.id \in DOMAIN pack)
        /\ pack' = After(pack, lastPack, w) /\ lastPack' = Counter(lastPack, w)
    BY <1>1, <1>2
  <1>5. /\ lastPack \in Nat /\ DOMAIN pack \subseteq 1 .. lastPack
        /\ \A p \in DOMAIN pack : pack[p] \in PackRow /\ pack[p].card \in DOMAIN card
    BY DEF IInv, Stores, ImageOK, Image, Owned, Orphanless
  <1>6. \/ w.do = "erase" /\ w.id \in mine
        \/ \E c \in DOMAIN card : /\ w.do = "insert" \/ (w.do = "update" /\ w.id \in mine)
                                  /\ w.row \in PackOf(c)
    <2>1. CASE OnCard(w, left, mine)
      BY <1>4, <2>1, QuietIs DEF OnCard
    <2>2. CASE BeforeLast(w, left, mine)
      BY <1>4, <2>2, ErasesAre DEF BeforeLast
    <2> QED BY <1>3, <1>4, <2>1, <2>2 DEF Ahead, NewCardNow, CardNow, LastNow, OneCall
  <1> DEFINE Column == /\ lastPack' \in Nat /\ lastPack <= lastPack'
                       /\ DOMAIN pack' \subseteq 1 .. lastPack'
                       /\ \A p \in DOMAIN pack' :
                            pack'[p] \in PackRow /\ pack'[p].card \in DOMAIN card
                       /\ \A p \in DOMAIN pack :
                            p \notin mine => p \in DOMAIN pack' /\ pack'[p] = pack[p]
  <1>7. Column
    <2>1. CASE w.do = "erase"
      <3>1. pack' = [p \in DOMAIN pack \ {w.id} |-> pack[p]] /\ lastPack' = lastPack
        BY <1>4, <2>1 DEF After, Counter
      <3>2. w.id \in mine
        BY <1>6, <2>1
      <3> QED BY <1>5, <3>1, <3>2
    <2>2. CASE w.do # "erase"
      <3>1. PICK c \in DOMAIN card : /\ w.do = "insert" \/ (w.do = "update" /\ w.id \in mine)
                                     /\ w.row \in PackOf(c)
        BY <1>6, <2>2
      <3>2. c \in Nat
        BY DEF IInv, Stores, ImageOK, Image
      <3>3. w.row \in PackRow /\ w.row.card = c
        BY <3>1, <3>2 DEF PackOf, PackRow
      <3>4. PICK id : /\ pack' = Put(pack, id, w.row) /\ (id \in DOMAIN pack => id \in mine)
                      /\ id \in 1 .. lastPack' /\ lastPack' \in Nat /\ lastPack <= lastPack'
        <4>1. CASE w.do = "insert"
          <5>1. pack' = Put(pack, lastPack + 1, w.row) /\ lastPack' = lastPack + 1
            BY <1>4, <4>1 DEF After, Counter
          <5>2. lastPack + 1 \in 1 .. lastPack' /\ lastPack + 1 \notin DOMAIN pack
            BY <1>5, <5>1
          <5> QED BY <1>5, <5>1, <5>2
        <4>2. CASE w.do = "update" /\ w.id \in mine
          <5>1. pack' = Put(pack, w.id, w.row) /\ lastPack' = lastPack /\ w.id \in 1 .. lastPack
            BY <1>4, <1>5, <4>2 DEF After, Counter
          <5> QED BY <1>5, <4>2, <5>1
        <4> QED BY <3>1, <4>1, <4>2
      <3>5. /\ DOMAIN pack' = DOMAIN pack \cup {id}
            /\ \A p \in DOMAIN pack' : pack'[p] = IF p = id THEN w.row ELSE pack[p]
        BY <3>4 DEF Put
      <3>6. DOMAIN pack' \subseteq 1 .. lastPack'
        BY <1>5, <3>4, <3>5
      <3> QED BY <1>5, <3>3, <3>4, <3>5, <3>6
    <2> QED BY <2>1, <2>2
  <1> HIDE DEF Column
  <1>8. Safe(left, mine)'
    <2>1. ASSUME w \in Erases(mine) \cup Logs, NEW c \in Nat
          PROVE  /\ \A x \in PropsOf(c)' :
                      x \in PropsOf(c) /\ w # OneCall("prop", "erase", x, <<>>)
                 /\ \A p \in PacksOf(c)' :
                      p \in PacksOf(c) /\ w # OneCall("pack", "erase", p, <<>>)
      <3>1. w.do = "erase"
        BY <1>4, <2>1, ErasesAre
      <3>2. pack' = [p \in DOMAIN pack \ {w.id} |-> pack[p]] /\ prop' = prop
        BY <1>1, <1>4, <3>1 DEF After
      <3>3. \A p \in PacksOf(c)' : p \in PacksOf(c) /\ p # w.id
        BY <3>2 DEF PacksOf
      <3>4. PropsOf(c)' = PropsOf(c)
        BY <3>2 DEF PropsOf
      <3> QED BY <1>4, <3>3, <3>4 DEF OneCall
    <2> QED BY <1>1, <1>3, <1>4, <2>1, RestSafe
  <1>9. Safe(todo, MineFor(req))'
    BY <1>2, <1>3, <1>8
  <1>10. Stores'
    <2>1. ImageOK(Image)'
      BY <1>1, <1>7 DEF IInv, Stores, ImageOK, Image, Column
    <2>2. Owned'
      BY <1>1, <1>7 DEF IInv, Stores, Owned, Orphanless, Image, Column
    <2>3. (saved.lastPack <= lastPack)'
      BY <1>1, <1>5, <1>7 DEF IInv, Stores, ImageOK, Column
    <2> QED BY <1>1, <2>1, <2>2, <2>3 DEF IInv, Stores, NoOrphans, Orphanless, ImageOK, PropsOK
  <1>11. OthersUntouched'
    BY <1>1, <1>2, <1>3, <1>7, MineIsTouchable DEF Column
  <1> QED BY <1>3, <1>9, <1>10, <1>11 DEF IInv, Between

LEMMA StutterKeeps ==
  ASSUME IInv, UNCHANGED vars
  PROVE  IInv'
  <1>1. UNCHANGED <<card, pack, boxes, journal, lastCard, lastPack, saved, prop, lastProp,
                    savedProp, req, todo, requests, faults>>
    BY DEF vars, tables
  <1>2. Stores'
    BY <1>1 DEF IInv, Stores, Owned, NoOrphans, Orphanless, Image, ImageOK, PropsOK
  <1>3. Between' /\ OthersUntouched'
    BY <1>1 DEF IInv, Between, Idle, OthersUntouched, Touchable
  <1>4. Safe(todo, MineFor(req))'
    <2>1. PICK mine, s : mine = MineFor(req) /\ s = todo
      OBVIOUS
    <2>2. MineFor(req)' = mine
      BY <1>1, <2>1 DEF MineFor
    <2>3. Safe(s, mine)'
      BY <1>1, <2>1, SafeKept DEF IInv
    <2> QED BY <1>1, <2>1, <2>2, <2>3
  <1> QED BY <1>2, <1>3, <1>4 DEF IInv

LEMMA NextKeeps ==
  ASSUME IInv, [Next]_vars
  PROVE  IInv'
  <1>1. CASE Next
    BY <1>1, AddCardKeeps, RemoveOneKeeps, EditCardKeeps, WriteCardKeeps, WritePropKeeps,
       WritePackKeeps, WriteLogKeeps, LogPastEndKeeps, ListBoxKeeps, SwallowKeeps,
       ThrowKeeps, AnswerKeeps, AbortKeeps DEF Next
  <1>2. CASE UNCHANGED vars
    BY <1>2, StutterKeeps
  <1> QED BY <1>1, <1>2

\* At every moment the rows have their types and came from the counters, and no
\* package and no property is left in the file without its card, whatever call
\* of chCard throws and wherever the process dies.
THEOREM CardsKeepTheirRows == Spec => []CardInvariant
  <1>1. IInv => CardInvariant
    BY DEF IInv, Stores, Between, CardInvariant, TypeOK, PropsOK
  <1>2. Init => IInv
    BY InitKeeps
  <1>3. IInv /\ [Next]_vars => IInv'
    BY NextKeeps
  <1> QED BY <1>1, <1>2, <1>3, PTL DEF Spec

\* No request changes a package of a card it is not about: every call it has
\* yet to make on a package is about one of its own.
THEOREM OthersAreKept == Spec => []OthersUntouched
  <1>1. IInv => OthersUntouched
    BY DEF IInv
  <1>2. Init => IInv
    BY InitKeeps
  <1>3. IInv /\ [Next]_vars => IInv'
    BY NextKeeps
  <1> QED BY <1>1, <1>2, <1>3, PTL DEF Spec

----------------------------------------------------------------------------
(* Adding lists the boxes, when no call fails.  Only one call of a request  *)
(* throws of itself: the erasing of package 0, for a package of quantity 0  *)
(* that falls on a box the card is in.  It comes, if at all, among calls    *)
(* that put nothing in a box that is not listed.                            *)

LogCalls == [table : {"log"}, do : {"insert"}, id : {0}, row : Entry]
FrontCalls ==
  {OneCall("pack", "erase", 0, <<>>)}
  \cup [table : {"pack"}, do : {"update"}, id : DOMAIN pack,
        row : [card : Nat, box : boxes, qty : Qty]]
  \cup LogCalls
BackCalls(A) ==
  [table : {"card"}, do : {"insert"}, id : {0}, row : CardRow]
  \cup [table : {"prop"}, do : {"insert"}, id : {0}, row : [card : Nat, pair : STRING \X STRING]]
  \cup [table : {"pack"}, do : {"insert"}, id : {0}, row : [card : Nat, box : A, qty : Qty]]
  \cup LogCalls
  \cup Lists

ListedIn(s, b) == \E i \in DOMAIN s : s[i] = OneCall("box", "insert", 0, b)
AllListed == \A p \in DOMAIN pack : pack[p].box \in boxes

\* A is the boxes yet to be filled or listed.
Fills(front, back, A) ==
  /\ front \in Seq(FrontCalls) /\ back \in Seq(BackCalls(A))
  /\ front # <<>> => AllListed
  /\ \A p \in DOMAIN pack : pack[p].box \in boxes \cup A
  /\ \A b \in A : b \in boxes \/ ListedIn(back, b)
Clear(s) == \E A \in SUBSET Boxes : \E front, back : s = front \o back /\ Fills(front, back, A)

CleanAddition == ~Idle /\ faults = 0 /\ req.op = "+" /\ Listed(saved)

AInv == (Idle => boxes = saved.boxes) /\ (CleanAddition => Clear(todo))

\* Head and tail of two lists in one.
LEMMA HeadOfJoined ==
  ASSUME NEW T, NEW a \in Seq(T), NEW b \in Seq(T), a # <<>>
  PROVE  /\ a \o b # <<>> /\ Head(a \o b) = Head(a)
         /\ Tail(a \o b) = Tail(a) \o b
  <1> DEFINE s == a \o b
             t == Tail(a)
             n == Len(a)
             m == Len(b)
  <1>1. /\ n \in Nat /\ n # 0 /\ m \in Nat /\ Head(a) = a[1]
        /\ t \in Seq(T) /\ Len(t) = n - 1 /\ \A i \in 1 .. n - 1 : t[i] = a[i + 1]
    OBVIOUS
  <1>2. /\ s \in Seq(T) /\ Len(s) = n + m
        /\ \A i \in 1 .. n + m : s[i] = IF i <= n THEN a[i] ELSE b[i - n]
    BY ConcatProperties
  <1> HIDE DEF t
  <1>3. /\ t \o b \in Seq(T) /\ Len(t \o b) = n - 1 + m
        /\ \A i \in 1 .. n - 1 + m : (t \o b)[i] = IF i <= n - 1 THEN t[i] ELSE b[i - (n - 1)]
    <2>1. Len(t) + Len(b) = n - 1 + m
      BY <1>1
    <2> QED BY <1>1, <2>1, ConcatProperties
  <1> HIDE DEF s, n, m
  <1>4. s # <<>> /\ Head(s) = a[1]
    BY <1>1, <1>2
  <1>5. /\ Tail(s) \in Seq(T) /\ Len(Tail(s)) = n - 1 + m
        /\ \A i \in 1 .. n - 1 + m : Tail(s)[i] = s[i + 1]
    BY <1>1, <1>2, <1>4
  <1>6. ASSUME NEW i \in 1 .. n - 1 + m
        PROVE  Tail(s)[i] = (t \o b)[i]
    <2>1. Tail(s)[i] = s[i + 1] /\ i + 1 \in 1 .. n + m
      BY <1>1, <1>5
    <2>2. CASE i <= n - 1
      <3>1. i \in 1 .. n - 1 /\ i + 1 <= n
        BY <1>1, <2>2
      <3> QED BY <1>1, <1>2, <1>3, <2>1, <2>2, <3>1
    <2>3. CASE ~(i <= n - 1)
      <3>1. ~(i + 1 <= n) /\ i + 1 - n = i - (n - 1)
        BY <1>1, <2>3
      <3>2. s[i + 1] = b[i - (n - 1)]
        <4>1. PICK k \in 1 .. n + m : k = i + 1
          BY <2>1
        <4>2. s[k] = b[k - n]
          BY <1>2, <3>1, <4>1
        <4>3. k - n = i - (n - 1) /\ s[i + 1] = s[k]
          BY <1>1, <4>1
        <4> QED BY <4>2, <4>3, Zenon
      <3>3. (t \o b)[i] = b[i - (n - 1)]
        BY <1>3, <2>3
      <3> QED BY <2>1, <3>2, <3>3
    <2> QED BY <2>2, <2>3
  <1>7. Tail(s) = t \o b
    <2>1. Len(Tail(s)) = Len(t \o b) /\ \A i \in 1 .. Len(Tail(s)) : Tail(s)[i] = (t \o b)[i]
      BY <1>3, <1>5, <1>6
    <2> QED BY <1>3, <1>5, <2>1, SeqEqual
  <1> QED BY <1>1, <1>4, <1>7 DEF s, t

\* What is in a list is its head or in its tail.
LEMMA InTail ==
  ASSUME NEW T, NEW s \in Seq(T), s # <<>>, NEW i \in DOMAIN s
  PROVE  s[i] = Head(s) \/ \E j \in DOMAIN Tail(s) : Tail(s)[j] = s[i]
  BY BeforeOne

\* The next call of an addition, and what is left.
LEMMA NextOfClear ==
  ASSUME NEW s, Clear(s), s # <<>>
  PROVE  \/ /\ Head(s) \in FrontCalls /\ AllListed
            /\ \E A \in SUBSET Boxes : \E front, back :
                 Tail(s) = front \o back /\ Fills(front, back, A)
         \/ \E A \in SUBSET Boxes :
              /\ Head(s) \in BackCalls(A) /\ Tail(s) \in Seq(BackCalls(A))
              /\ \A p \in DOMAIN pack : pack[p].box \in boxes \cup A
              /\ \A b \in A : \/ b \in boxes \/ Head(s) = OneCall("box", "insert", 0, b)
                              \/ ListedIn(Tail(s), b)
  <1>0. PICK A \in SUBSET Boxes : \E front, back : s = front \o back /\ Fills(front, back, A)
    BY DEF Clear
  <1>1. PICK front, back : s = front \o back /\ Fills(front, back, A)
    BY <1>0
  <1> DEFINE F == FrontCalls
             B == BackCalls(A)
             T == F \cup B
  <1>2. front \in Seq(F) /\ back \in Seq(B)
    BY <1>1 DEF Fills
  <1>3. front \in Seq(T) /\ back \in Seq(T)
    <2> HIDE DEF F, B
    <2> QED BY <1>2
  <1>4. CASE front # <<>>
    <2>1. Head(s) = Head(front) /\ Tail(s) = Tail(front) \o back
      <3> HIDE DEF T
      <3> QED BY <1>1, <1>3, <1>4, HeadOfJoined
    <2>2. Head(front) \in F /\ Tail(front) \in Seq(F)
      <3> HIDE DEF F
      <3> QED BY <1>2, <1>4
    <2>3. Fills(Tail(front), back, A) /\ AllListed
      BY <1>1, <1>4, <2>2 DEF Fills
    <2> QED BY <2>1, <2>2, <2>3
  <1>5. CASE front = <<>>
    <2>1. s = back
      <3> HIDE DEF B
      <3> QED BY <1>1, <1>2, <1>5
    <2>2. Head(s) \in B /\ Tail(s) \in Seq(B)
      <3> HIDE DEF B
      <3> QED BY <1>2, <2>1
    <2>3. ASSUME NEW b \in A
          PROVE  \/ b \in boxes \/ Head(s) = OneCall("box", "insert", 0, b)
                 \/ ListedIn(Tail(s), b)
      <3>1. CASE b \in boxes
        BY <3>1
      <3>2. CASE ListedIn(s, b)
        <4>1. PICK i \in DOMAIN s : s[i] = OneCall("box", "insert", 0, b)
          BY <3>2 DEF ListedIn
        <4>2. s \in Seq(B)
          BY <1>2, <2>1
        <4> HIDE DEF B
        <4>3. s[i] = Head(s) \/ \E j \in DOMAIN Tail(s) : Tail(s)[j] = s[i]
          BY <4>2, InTail
        <4> QED BY <4>1, <4>3 DEF ListedIn
      <3> QED BY <1>1, <2>1, <3>1, <3>2 DEF Fills
    <2>4. \A p \in DOMAIN pack : pack[p].box \in boxes \cup A
      BY <1>1 DEF Fills
    <2> QED BY <2>2, <2>3, <2>4
  <1> QED BY <1>4, <1>5

\* Every box asked for is listed by one of the calls.
LEMMA ListBoxesLists ==
  ASSUME NEW asked \in Seq([id : Nat, box : Boxes, qty : Qty]), NEW T,
         \A b \in Boxes : Insert("box", b) \in Seq(T)
  PROVE  /\ ListBoxes(asked) \in Seq(T)
         /\ \A i \in DOMAIN asked : ListedIn(ListBoxes(asked), asked[i].box)
  <1> DEFINE ss == [i \in DOMAIN asked |-> Insert("box", asked[i].box)]
  <1>1. ListBoxes(asked) = FlattenSeq(ss)
    BY DEF ListBoxes, ForEach
  <1>2. \A i \in DOMAIN asked : asked[i].box \in Boxes
    BY AskedIs
  <1>3. \A i \in DOMAIN asked : ss[i] \in Seq(T) /\ ss[i] = <<OneCall("box", "insert", 0, asked[i].box)>>
    BY <1>2 DEF Insert, OneCall
  <1>4. ss = [i \in DOMAIN asked |-> ss[i]]
    OBVIOUS
  <1> HIDE DEF ss
  <1>5. ss \in Seq(Seq(T)) /\ DOMAIN ss = DOMAIN asked
    <2> DEFINE X == [id : Nat, box : Boxes, qty : Qty]
    <2>1. asked \in Seq(X) /\ \A i \in DOMAIN asked : ss[i] \in Seq(T)
      BY <1>3
    <2> HIDE DEF X
    <2> QED BY <1>4, <2>1, ListsOf
  <1>6. ASSUME NEW i \in DOMAIN asked
        PROVE  ListedIn(FlattenSeq(ss), asked[i].box)
    <2>1. i \in DOMAIN ss /\ 1 \in DOMAIN ss[i]
          /\ ss[i][1] = OneCall("box", "insert", 0, asked[i].box)
      BY <1>3, <1>5
    <2>2. \E k \in DOMAIN FlattenSeq(ss) : FlattenSeq(ss)[k] = ss[i][1]
      BY <1>5, <2>1, FlattenIs
    <2> QED BY <2>1, <2>2 DEF ListedIn
  <1> QED BY <1>1, <1>5, <1>6, FlattenIs

\* What a later list has, both have.
LEMMA ListedInJoined ==
  ASSUME NEW T, NEW a \in Seq(T), NEW b \in Seq(T), NEW x, ListedIn(b, x)
  PROVE  ListedIn(a \o b, x)
  <1>1. /\ DOMAIN a = 1 .. Len(a) /\ DOMAIN b = 1 .. Len(b)
        /\ Len(a) \in Nat /\ Len(b) \in Nat /\ DOMAIN (a \o b) = 1 .. Len(a) + Len(b)
    OBVIOUS
  <1>2. ASSUME NEW k \in DOMAIN b
        PROVE  Len(a) + k \in DOMAIN (a \o b) /\ (a \o b)[Len(a) + k] = b[k]
    BY <1>1
  <1>3. PICK k \in DOMAIN b : b[k] = OneCall("box", "insert", 0, x)
    BY DEF ListedIn
  <1>4. Len(a) + k \in DOMAIN (a \o b) /\ (a \o b)[Len(a) + k] = OneCall("box", "insert", 0, x)
    BY <1>2, <1>3
  <1> QED BY <1>4 DEF ListedIn

\* The calls of an addition by name.
LEMMA AddCallsAre ==
  ASSUME NEW A
  PROVE  /\ \A row \in CardRow : Insert("card", row) \in Seq(BackCalls(A))
         /\ \A c \in Nat : \A v \in STRING \X STRING :
              Insert("prop", [card |-> c, pair |-> v]) \in Seq(BackCalls(A))
         /\ \A c \in Nat : \A b \in A : \A n \in Qty :
              Insert("pack", [card |-> c, box |-> b, qty |-> n]) \in Seq(BackCalls(A))
         /\ \A b \in Boxes : Insert("box", b) \in Seq(BackCalls(A))
         /\ \A p \in Nat : \A n \in Qty :
              /\ Log("-", p, n) \in Seq(BackCalls(A))
              /\ Log("-", p, n) \in Seq(FrontCalls)
         /\ \A p \in DOMAIN pack : \A c \in Nat : \A b \in boxes : \A n \in Qty :
              Update("pack", p, [card |-> c, box |-> b, qty |-> n]) \in Seq(FrontCalls)
         /\ Erase("pack", 0) \in Seq(FrontCalls)
  <1>1. \A p \in Nat : \A n \in Qty : Log("-", p, n) \in Seq(LogCalls)
    BY DEF Log, Insert, LogCalls, Entry, OpSymbol
  <1>2. \A s \in Seq(LogCalls) : s \in Seq(BackCalls(A)) /\ s \in Seq(FrontCalls)
    BY DEF BackCalls, FrontCalls
  <1>3. /\ \A row \in CardRow : Insert("card", row) \in Seq(BackCalls(A))
        /\ \A b \in Boxes : Insert("box", b) \in Seq(BackCalls(A))
    BY DEF Insert, BackCalls, Lists
  <1>4. \A c \in Nat : \A v \in STRING \X STRING :
          Insert("prop", [card |-> c, pair |-> v]) \in Seq(BackCalls(A))
    BY DEF Insert, BackCalls
  <1>5. \A c \in Nat : \A b \in A : \A n \in Qty :
          Insert("pack", [card |-> c, box |-> b, qty |-> n]) \in Seq(BackCalls(A))
    BY DEF Insert, BackCalls
  <1>6. \A p \in DOMAIN pack : \A c \in Nat : \A b \in boxes : \A n \in Qty :
          Update("pack", p, [card |-> c, box |-> b, qty |-> n]) \in Seq(FrontCalls)
    BY DEF Update, FrontCalls
  <1>7. Erase("pack", 0) \in Seq(FrontCalls)
    BY DEF Erase, FrontCalls, OneCall
  <1> QED BY <1>1, <1>2, <1>3, <1>4, <1>5, <1>6, <1>7

\* A new card, with all the boxes asked for listed after its packages.
LEMMA NewCardClear ==
  ASSUME Stores, AllListed, NEW r \in PlusRequests
  PROVE  Clear(NewCard(r) \o ListBoxes(r.packs))
  <1> DEFINE c == lastCard + 1
             Fill == {r.packs[i].box : i \in DOMAIN r.packs}
             T == BackCalls(Fill)
             row == [name |-> r.name, props |-> <<>>]
             P == ForEach(LAMBDA v : Insert("prop", [card |-> c, pair |-> v]), r.props)
             B == ForEach(LAMBDA p : Insert("pack", [card |-> c, box |-> p.box, qty |-> p.qty])
                                     \o Log("-", LastInserted, p.qty), r.packs)
             pp == [i \in DOMAIN r.props |-> Insert("prop", [card |-> c, pair |-> r.props[i]])]
             bb == [i \in DOMAIN r.packs |->
                      Insert("pack", [card |-> c, box |-> r.packs[i].box, qty |-> r.packs[i].qty])
                      \o Log("-", LastInserted, r.packs[i].qty)]
  <1>1. /\ r.name \in Name /\ r.props \in Seq(STRING \X STRING)
        /\ r.packs \in Seq([id : Nat, box : Boxes, qty : Qty])
    BY PlusTyped
  <1>2. c \in Nat
    BY DEF Stores, ImageOK, Image
  <1>3. NewCard(r) = (Insert("card", row) \o P) \o B /\ P = FlattenSeq(pp) /\ B = FlattenSeq(bb)
    BY DEF NewCard, ForEach
  <1> HIDE DEF c
  <1>4. P \in Seq(T)
    <2>1. \A i \in DOMAIN r.props : r.props[i] \in STRING \X STRING
      BY <1>1, ElementOf
    <2>2. \A i \in DOMAIN r.props : pp[i] \in Seq(T)
      BY <1>2, <2>1, AddCallsAre
    <2>3. pp = [i \in DOMAIN r.props |-> pp[i]]
      OBVIOUS
    <2>4. r.props \in Seq(STRING \X STRING)
      BY <1>1
    <2> HIDE DEF T, pp, P, row
    <2>5. FlattenSeq(pp) \in Seq(T)
      BY <2>2, <2>3, <2>4, FlatOf
    <2> QED BY <1>3, <2>5
  <1>5. B \in Seq(T)
    <2>1. \A i \in DOMAIN r.packs : r.packs[i].box \in Fill /\ r.packs[i].qty \in Qty
      BY <1>1, AskedIs
    <2>2. \A i \in DOMAIN r.packs :
            /\ Insert("pack", [card |-> c, box |-> r.packs[i].box, qty |-> r.packs[i].qty]) \in Seq(T)
            /\ Log("-", LastInserted, r.packs[i].qty) \in Seq(T)
      <3> HIDE DEF Fill
      <3> QED BY <1>2, <2>1, AddCallsAre DEF LastInserted
    <2>3. \A i \in DOMAIN r.packs : bb[i] \in Seq(T)
      <3> HIDE DEF T
      <3> QED BY <2>2, Joined
    <2>4. bb = [i \in DOMAIN r.packs |-> bb[i]]
      OBVIOUS
    <2>5. r.packs \in Seq([id : Nat, box : Boxes, qty : Qty])
      BY <1>1
    <2> HIDE DEF T, bb, B, row
    <2>6. FlattenSeq(bb) \in Seq(T)
      BY <2>3, <2>4, <2>5, FlatOf
    <2> QED BY <1>3, <2>6
  <1>6. Insert("card", row) \in Seq(T)
    <2>1. row \in CardRow
      BY <1>1 DEF CardRow
    <2> HIDE DEF row, Fill
    <2> QED BY <2>1, AddCallsAre
  <1>7. /\ ListBoxes(r.packs) \in Seq(T)
        /\ \A b \in Fill : ListedIn(ListBoxes(r.packs), b)
    <2>1. \A b \in Boxes : Insert("box", b) \in Seq(T)
      BY AddCallsAre
    <2> HIDE DEF T
    <2> QED BY <1>1, <2>1, ListBoxesLists
  <1>8. Fill \in SUBSET Boxes
    BY <1>1, AskedIs
  <1> HIDE DEF T, P, B, row, Fill
  <1> DEFINE N == NewCard(r)
             L == ListBoxes(r.packs)
  <1>9. N \in Seq(T)
    BY <1>3, <1>4, <1>5, <1>6, Joined
  <1>10. L \in Seq(T) /\ \A b \in Fill : ListedIn(L, b)
    BY <1>7
  <1> HIDE DEF N, L
  <1>11. N \o L \in Seq(T) /\ \A b \in Fill : ListedIn(N \o L, b)
    BY <1>9, <1>10, Joined, ListedInJoined
  <1>12. Fills(<<>>, N \o L, Fill)
    BY <1>11 DEF Fills, T, AllListed
  <1>13. N \o L = <<>> \o (N \o L)
    <2> DEFINE s == N \o L
    <2> HIDE DEF s
    <2>1. s \in Seq(T)
      BY <1>11 DEF s
    <2>2. s = <<>> \o s
      BY <2>1
    <2> QED BY <2>2 DEF s
  <1> QED BY <1>8, <1>12, <1>13 DEF Clear, N, L

\* A card that is there: first what falls on its packages, in boxes listed
\* already, then what is new.
LEMMA AddPackagesClear ==
  ASSUME Stores, AllListed, NEW r \in PlusRequests, NEW c \in DOMAIN card
  PROVE  Clear(AddPackages(c, r.packs) \o ListBoxes(r.packs))
  <1> DEFINE asked == r.packs
             Fill == {asked[i].box : i \in DOMAIN asked}
             F == FrontCalls
             T == BackCalls(Fill)
             Asked(p) == FirstOf({i \in DOMAIN asked : asked[i].box = pack[p].box})
             hits == {p \in PacksOf(c) : Asked(p) # {}}
             seen == {asked[i].id : i \in UNION {Asked(p) : p \in hits}}
             Replace(p) == LET q == asked[CHOOSE i \in Asked(p) : TRUE]
                           IN  IF q.qty = 0 THEN Erase("pack", q.id)
                               ELSE Log("-", p, q.qty)
                                    \o Update("pack", p, [card |-> c, box |-> q.box, qty |-> q.qty])
             New(q) == IF ~Unseen(q.id, seen) \/ q.qty = 0 THEN <<>>
                       ELSE Insert("pack", [card |-> c, box |-> q.box, qty |-> q.qty])
                            \o Log("-", LastInserted, q.qty)
             h == InIdOrder(hits)
             aa == [i \in DOMAIN h |-> Replace(h[i])]
             bb == [i \in DOMAIN asked |-> New(asked[i])]
  <1>1. AddPackages(c, r.packs) = FlattenSeq(aa) \o FlattenSeq(bb)
    BY DEF AddPackages, ForEach
  <1>2. /\ asked \in Seq([id : Nat, box : Boxes, qty : Qty])
        /\ \A i \in DOMAIN asked : /\ asked[i].box \in Boxes /\ asked[i].qty \in Qty
                                   /\ asked[i].id = 0 /\ asked[i].box \in Fill
    BY PlusTyped, AskedIs
  <1>3. c \in Nat
    BY DEF Stores, ImageOK, Image
  <1>4. h \in Seq(hits)
    <2>1. hits \in SUBSET Nat /\ IsFiniteSet(hits)
      <3> HIDE DEF Asked
      <3> QED BY IdsAre, FS_Subset
    <2> HIDE DEF hits
    <2> QED BY <2>1, InIdOrderIs
  <1>5. ASSUME NEW p \in hits
        PROVE  Replace(p) \in Seq(F)
    <2> DEFINE i == CHOOSE i \in Asked(p) : TRUE
    <2>1. i \in DOMAIN asked /\ asked[i].box = pack[p].box
      BY FirstIs
    <2>2. p \in DOMAIN pack /\ p \in Nat
      BY IdsAre DEF PacksOf
    <2> HIDE DEF i, hits
    <2>3. asked[i].box \in boxes /\ asked[i].qty \in Qty /\ asked[i].id = 0
      BY <1>2, <2>1, <2>2 DEF AllListed
    <2>4. Erase("pack", asked[i].id) \in Seq(F)
      BY <2>3, AddCallsAre
    <2>5. Log("-", p, asked[i].qty) \in Seq(F)
      BY <2>2, <2>3, AddCallsAre
    <2>6. Update("pack", p, [card |-> c, box |-> asked[i].box, qty |-> asked[i].qty]) \in Seq(F)
      BY <1>3, <2>2, <2>3, AddCallsAre
    <2>7. Log("-", p, asked[i].qty)
            \o Update("pack", p, [card |-> c, box |-> asked[i].box, qty |-> asked[i].qty]) \in Seq(F)
      BY <2>5, <2>6, Joined
    <2>8. Replace(p) = IF asked[i].qty = 0 THEN Erase("pack", asked[i].id)
                       ELSE Log("-", p, asked[i].qty)
                            \o Update("pack", p, [card |-> c, box |-> asked[i].box, qty |-> asked[i].qty])
      BY DEF i
    <2> HIDE DEF F, Replace
    <2> QED BY <2>4, <2>7, <2>8
  <1>6. ASSUME NEW i \in DOMAIN asked
        PROVE  New(asked[i]) \in Seq(T)
    <2>1. asked[i].box \in Fill /\ asked[i].qty \in Qty
      BY <1>2
    <2>2. /\ Insert("pack", [card |-> c, box |-> asked[i].box, qty |-> asked[i].qty]) \in Seq(T)
          /\ Log("-", LastInserted, asked[i].qty) \in Seq(T)
      <3> HIDE DEF Fill
      <3> QED BY <1>3, <2>1, AddCallsAre DEF LastInserted
    <2> HIDE DEF T, seen
    <2>3. Insert("pack", [card |-> c, box |-> asked[i].box, qty |-> asked[i].qty])
            \o Log("-", LastInserted, asked[i].qty) \in Seq(T)
      BY <2>2, Joined
    <2>4. <<>> \in Seq(T)
      OBVIOUS
    <2> QED BY <2>3, <2>4
  <1>7. FlattenSeq(aa) \in Seq(F)
    <2>1. \A i \in DOMAIN h : h[i] \in hits
      <3> HIDE DEF h, hits
      <3> QED BY <1>4, ElementOf
    <2>2. \A i \in DOMAIN h : aa[i] \in Seq(F)
      <3> HIDE DEF h, hits, F, Replace
      <3> QED BY <1>5, <2>1
    <2>3. aa = [i \in DOMAIN h |-> aa[i]]
      <3> HIDE DEF h, Replace
      <3> QED OBVIOUS
    <2> HIDE DEF h, hits, F, aa
    <2> QED BY <1>4, <2>2, <2>3, FlatOf
  <1>8. FlattenSeq(bb) \in Seq(T)
    <2>1. \A i \in DOMAIN asked : bb[i] \in Seq(T)
      BY <1>6
    <2>2. bb = [i \in DOMAIN asked |-> bb[i]]
      OBVIOUS
    <2> HIDE DEF T, bb
    <2> QED BY <1>2, <2>1, <2>2, FlatOf
  <1>9. /\ ListBoxes(asked) \in Seq(T)
        /\ \A b \in Fill : ListedIn(ListBoxes(asked), b)
    <2>1. \A b \in Boxes : Insert("box", b) \in Seq(T)
      BY AddCallsAre
    <2> HIDE DEF T
    <2> QED BY <1>2, <2>1, ListBoxesLists
  <1>10. Fill \in SUBSET Boxes
    BY <1>2
  <1> HIDE DEF aa, bb, T, F, Fill
  <1> DEFINE a == FlattenSeq(aa)
             b == FlattenSeq(bb)
             L == ListBoxes(asked)
  <1>11. a \in Seq(F) /\ b \in Seq(T) /\ L \in Seq(T) /\ \A x \in Fill : ListedIn(L, x)
    BY <1>7, <1>8, <1>9
  <1>12. AddPackages(c, r.packs) = a \o b
    BY <1>1
  <1> HIDE DEF a, b, L
  <1>13. b \o L \in Seq(T) /\ \A x \in Fill : ListedIn(b \o L, x)
    BY <1>11, Joined, ListedInJoined
  <1>14. Fills(a, b \o L, Fill)
    BY <1>11, <1>13 DEF Fills, F, T, AllListed
  <1>15. (a \o b) \o L = a \o (b \o L)
    <2> DEFINE Y == F \cup T
    <2>1. a \in Seq(Y) /\ b \in Seq(Y) /\ L \in Seq(Y)
      BY <1>11
    <2> HIDE DEF Y
    <2> QED BY <2>1, ConcatAssociative
  <1> QED BY <1>10, <1>12, <1>14, <1>15 DEF Clear, L

LEMMA PlusClear ==
  ASSUME Stores, AllListed, NEW r \in PlusRequests, NEW calls \in Plus(r)
  PROVE  Clear(calls)
  <1> DEFINE like == CardsLike(r.name, r.props)
  <1>1. CASE like = {}
    <2>1. calls = NewCard(r) \o ListBoxes(r.packs)
      BY <1>1 DEF Plus
    <2> QED BY <2>1, NewCardClear
  <1>2. CASE like # {}
    <2>1. PICK c \in like : calls = AddPackages(c, r.packs) \o ListBoxes(r.packs)
      BY <1>2 DEF Plus
    <2>2. c \in DOMAIN card
      BY DEF CardsLike
    <2> QED BY <2>1, <2>2, AddPackagesClear
  <1> QED BY <1>1, <1>2

----------------------------------------------------------------------------
(* Additions, action by action.                                             *)

\* Nothing but insertions left.
LEMMA BackClear ==
  ASSUME NEW left, NEW A \in SUBSET Boxes, left \in Seq(BackCalls(A)),
         \A p \in DOMAIN pack' : pack'[p].box \in boxes' \cup A,
         \A b \in A : b \in boxes' \/ ListedIn(left, b)
  PROVE  Clear(left)'
  <1>1. BackCalls(A)' = BackCalls(A)
    BY DEF BackCalls, LogCalls, Lists
  <1>2. Fills(<<>>, left, A)'
    BY <1>1 DEF Fills, ListedIn
  <1>3. left = <<>> \o left
    <2> DEFINE B == BackCalls(A)
    <2> HIDE DEF B
    <2>1. left \in Seq(B)
      BY DEF B
    <2> QED BY <2>1
  <1> QED BY <1>2, <1>3 DEF Clear

\* A call before them, that leaves the list of boxes and their use alone.
LEMMA FrontClear ==
  ASSUME NEW left, NEW A \in SUBSET Boxes, NEW front, NEW back,
         left = front \o back, Fills(front, back, A), AllListed',
         DOMAIN pack' = DOMAIN pack, boxes' = boxes
  PROVE  Clear(left)'
  <1>1. FrontCalls' = FrontCalls /\ BackCalls(A)' = BackCalls(A)
    BY DEF FrontCalls, BackCalls, LogCalls, Lists
  <1>2. Fills(front, back, A)'
    BY <1>1 DEF Fills, ListedIn, AllListed
  <1> QED BY <1>2 DEF Clear

LEMMA NothingLeftClear ==
  ASSUME AllListed'
  PROVE  Clear(<<>>)'
  <1>1. Fills(<<>>, <<>>, {})'
    BY DEF Fills, AllListed
  <1>2. <<>> = <<>> \o <<>>
    OBVIOUS
  <1> QED BY <1>1, <1>2 DEF Clear

\* An addition that goes on without a failing call was one before.
LEMMA StillClean ==
  ASSUME IInv, AInv, todo # <<>>, UNCHANGED <<saved, req>>, CleanAddition',
         faults' = faults \/ faults' = faults + 1
  PROVE  CleanAddition /\ faults' = faults /\ Clear(todo)
  <1>1. ~Idle /\ faults \in Nat
    BY DEF IInv, Between, Stores
  <1>2. faults = 0 /\ faults' = 0
    BY <1>1 DEF CleanAddition
  <1>3. CleanAddition
    BY <1>1, <1>2 DEF CleanAddition, Listed
  <1> QED BY <1>2, <1>3 DEF AInv

\* What a call of an addition may be, by its table.
LEMMA FrontIs ==
  ASSUME NEW w \in FrontCalls
  PROVE  /\ w.table \in {"pack", "log"}
         /\ w.table = "pack" =>
              \/ w.do = "erase" /\ w.id = 0
              \/ /\ w.do = "update" /\ w.id \in DOMAIN pack
                 /\ w.row.box \in boxes
  <1>1. CASE w = OneCall("pack", "erase", 0, <<>>)
    BY <1>1 DEF OneCall
  <1>2. CASE w \in LogCalls
    BY <1>2 DEF LogCalls
  <1> QED BY <1>1, <1>2 DEF FrontCalls

LEMMA BackIs ==
  ASSUME NEW A, NEW w \in BackCalls(A)
  PROVE  /\ w.table \in {"card", "prop", "pack", "log", "box"} /\ w.do = "insert"
         /\ w.table = "pack" => w.row.box \in A
  <1>1. CASE w \in LogCalls
    BY <1>1 DEF LogCalls
  <1>2. CASE w \in Lists
    BY <1>2 DEF Lists
  <1> QED BY <1>1, <1>2 DEF BackCalls

\* A call that writes no package and lists no box.
LEMMA OtherCallClear ==
  ASSUME NEW w, NEW left, todo # <<>>, w = Head(todo), left = Tail(todo), Clear(todo),
         w.table \in {"card", "prop", "log", "end"}, UNCHANGED <<pack, boxes>>
  PROVE  Clear(left)'
  <1>1. CASE AllListed /\ \E A \in SUBSET Boxes : \E front, back :
               left = front \o back /\ Fills(front, back, A)
    <2>0. PICK A \in SUBSET Boxes : \E front, back : left = front \o back /\ Fills(front, back, A)
      BY <1>1
    <2>1. PICK front, back : left = front \o back /\ Fills(front, back, A)
      BY <2>0
    <2>2. AllListed'
      BY <1>1 DEF AllListed
    <2> QED BY <2>1, <2>2, FrontClear
  <1>2. CASE \E A \in SUBSET Boxes :
               /\ left \in Seq(BackCalls(A))
               /\ \A p \in DOMAIN pack : pack[p].box \in boxes \cup A
               /\ \A b \in A : \/ b \in boxes \/ w = OneCall("box", "insert", 0, b)
                               \/ ListedIn(left, b)
    <2>1. PICK A \in SUBSET Boxes :
               /\ left \in Seq(BackCalls(A))
               /\ \A p \in DOMAIN pack : pack[p].box \in boxes \cup A
               /\ \A b \in A : \/ b \in boxes \/ w = OneCall("box", "insert", 0, b)
                               \/ ListedIn(left, b)
      BY <1>2
    <2>2. \A b : w # OneCall("box", "insert", 0, b)
      BY DEF OneCall
    <2> QED BY <2>1, <2>2, BackClear
  <1> QED BY <1>1, <1>2, NextOfClear

LEMMA AddOpens ==
  ASSUME IInv, AInv, AddCard
  PROVE  AInv'
  <1>1. Idle /\ ~Idle' /\ UNCHANGED <<tables, saved>>
    BY PlusTyped DEF AddCard, Open, Idle, NoReq
  <1>2. boxes = saved.boxes /\ pack = saved.pack /\ Stores
    BY <1>1 DEF AInv, IInv, Between
  <1>3. ASSUME CleanAddition'
        PROVE  Clear(todo)'
    <2>1. AllListed
      BY <1>1, <1>2, <1>3 DEF CleanAddition, AllListed, Listed
    <2>2. faults' = 0 /\ faults \in Nat
      BY <1>3 DEF CleanAddition, IInv, Stores
    <2>3. ~Fault
      BY <2>2 DEF Fault
    <2>4. PICK r \in PlusRequests : \E calls \in Plus(r) : Open(r, calls)
      BY <2>3 DEF AddCard
    <2>5. PICK calls \in Plus(r) : Open(r, calls)
      BY <2>4
    <2>6. Clear(calls)
      BY <1>2, <2>1, PlusClear
    <2>7. todo' = calls
      BY <2>5 DEF Open
    <2>8. Clear(calls)'
      <3>1. FrontCalls' = FrontCalls /\ \A A : BackCalls(A)' = BackCalls(A)
        BY <1>1 DEF FrontCalls, BackCalls, LogCalls, Lists, tables
      <3>2. \A front, back, A : Fills(front, back, A) => Fills(front, back, A)'
        BY <1>1, <3>1 DEF Fills, ListedIn, AllListed, tables
      <3> QED BY <2>6, <3>2 DEF Clear
    <2> QED BY <2>7, <2>8
  <1> QED BY <1>1, <1>3 DEF AInv

LEMMA OthersOpen ==
  ASSUME AInv, RemoveOne \/ EditCard
  PROVE  AInv'
  <1>1. /\ req'.op \in {"-", "="}
        /\ req' # NoReq
    BY DEF RemoveOne, EditCard, Open, MinusRequests, EqualRequests, NoReq
  <1> QED BY <1>1 DEF AInv, CleanAddition, Idle

\* The calls: one by one.
LEMMA AddCalls ==
  ASSUME IInv, AInv, NEW w, NEW left, w = Head(todo), left = Tail(todo),
         todo # <<>>, todo' = left, UNCHANGED <<saved, req>>, CleanAddition',
         WriteCard \/ WriteProp \/ WritePack \/ WriteLog \/ LogPastEnd \/ ListBox \/ Swallow
  PROVE  Clear(todo)'
  <1>1. faults' = faults \/ faults' = faults + 1
    BY DEF WriteCard, WriteProp, WritePack, WriteLog, LogPastEnd, ListBox, Swallow, Fault, tables
  <1>2. CleanAddition /\ faults' = faults /\ Clear(todo) /\ faults \in Nat
    BY <1>1, StillClean DEF IInv, Stores
  <1>3. ASSUME WriteCard \/ WriteProp \/ WriteLog \/ LogPastEnd
        PROVE  Clear(left)'
    <2>1. w.table \in {"card", "prop", "log", "end"} /\ UNCHANGED <<pack, boxes>>
      BY <1>3 DEF WriteCard, WriteProp, WriteLog, LogPastEnd, Call, Turn, tables
    <2> QED BY <1>2, <2>1, OtherCallClear
  <1>4. ASSUME WritePack
        PROVE  Clear(left)'
    <2>1. /\ w.table = "pack" /\ (w.do # "insert" => w.id \in DOMAIN pack)
          /\ pack' = After(pack, lastPack, w) /\ boxes' = boxes
      BY <1>4 DEF WritePack, Call, Turn, Throws, Rows, Stored
    <2>2. CASE /\ w \in FrontCalls /\ AllListed
               /\ \E A \in SUBSET Boxes : \E front, back :
                    left = front \o back /\ Fills(front, back, A)
      <3>0. PICK A \in SUBSET Boxes : \E front, back : left = front \o back /\ Fills(front, back, A)
        BY <2>2
      <3>1. PICK front, back : left = front \o back /\ Fills(front, back, A)
        BY <3>0
      <3>2. 0 \notin DOMAIN pack
        BY IdsAre DEF IInv
      <3>3. w.do = "update" /\ w.id \in DOMAIN pack /\ w.row.box \in boxes
        BY <2>1, <2>2, <3>2, FrontIs
      <3>4. pack' = Put(pack, w.id, w.row)
        BY <2>1, <3>3 DEF After
      <3>5. DOMAIN pack' = DOMAIN pack /\ AllListed'
        BY <2>1, <2>2, <3>3, <3>4 DEF Put, AllListed
      <3> QED BY <2>1, <3>1, <3>5, FrontClear
    <2>3. CASE \E A \in SUBSET Boxes :
                 /\ w \in BackCalls(A) /\ left \in Seq(BackCalls(A))
                 /\ \A p \in DOMAIN pack : pack[p].box \in boxes \cup A
                 /\ \A b \in A : \/ b \in boxes \/ w = OneCall("box", "insert", 0, b)
                                 \/ ListedIn(left, b)
      <3>1. PICK A \in SUBSET Boxes :
                 /\ w \in BackCalls(A) /\ left \in Seq(BackCalls(A))
                 /\ \A p \in DOMAIN pack : pack[p].box \in boxes \cup A
                 /\ \A b \in A : \/ b \in boxes \/ w = OneCall("box", "insert", 0, b)
                                 \/ ListedIn(left, b)
        BY <2>3
      <3>2. w.do = "insert" /\ w.row.box \in A
        BY <2>1, <3>1, BackIs
      <3>3. pack' = Put(pack, lastPack + 1, w.row)
        BY <2>1, <3>2 DEF After
      <3>4. \A p \in DOMAIN pack' : pack'[p].box \in boxes' \cup A
        BY <2>1, <3>1, <3>2, <3>3 DEF Put
      <3>5. \A b : w # OneCall("box", "insert", 0, b)
        BY <2>1 DEF OneCall
      <3> QED BY <2>1, <3>1, <3>4, <3>5, BackClear
    <2> QED BY <1>2, <2>2, <2>3, NextOfClear
  <1>5. ASSUME ListBox
        PROVE  Clear(left)'
    <2>1. w.table = "box" /\ boxes' = boxes \cup {w.row} /\ pack' = pack
      BY <1>5 DEF ListBox, Call, Turn, UpdateBoxOnInsert
    <2>2. w \notin FrontCalls
      BY <2>1, FrontIs
    <2>3. PICK A \in SUBSET Boxes :
                 /\ w \in BackCalls(A) /\ left \in Seq(BackCalls(A))
                 /\ \A p \in DOMAIN pack : pack[p].box \in boxes \cup A
                 /\ \A b \in A : \/ b \in boxes \/ w = OneCall("box", "insert", 0, b)
                                 \/ ListedIn(left, b)
      BY <1>2, <2>2, NextOfClear
    <2>4. \A b : w = OneCall("box", "insert", 0, b) => b \in boxes'
      BY <2>1 DEF OneCall
    <2>5. /\ \A p \in DOMAIN pack' : pack'[p].box \in boxes' \cup A
          /\ \A b \in A : b \in boxes' \/ ListedIn(left, b)
      BY <2>1, <2>3, <2>4
    <2> QED BY <2>3, <2>5, BackClear
  <1>6. ~Swallow
    BY <1>2 DEF Swallow, Fault
  <1>7. Clear(left)'
    BY <1>3, <1>4, <1>5, <1>6
  <1> QED BY <1>7

LEMMA AddThrows ==
  ASSUME IInv, AInv, Throw
  PROVE  AInv'
  <1>1. /\ todo # <<>> /\ todo' = <<>> /\ UNCHANGED <<tables, saved, req>>
        /\ Head(todo).table \in Stored
        /\ (IF Throws(Head(todo)) THEN UNCHANGED faults ELSE Fault)
    BY DEF Throw
  <1>2. ~Idle /\ ~Idle'
    BY <1>1 DEF IInv, Between, Idle
  <1>3. ASSUME CleanAddition'
        PROVE  Clear(todo)'
    <2>1. faults' = faults \/ faults' = faults + 1
      BY <1>1 DEF Fault
    <2>2. CleanAddition /\ faults' = faults /\ Clear(todo) /\ faults \in Nat
      BY <1>1, <1>3, <2>1, StillClean DEF IInv, Stores
    <2>3. Throws(Head(todo))
      BY <1>1, <2>2 DEF Fault
    <2>4. Head(todo).do # "insert"
      BY <2>3 DEF Throws
    <2>5. AllListed
      BY <1>1, <2>2, <2>4, NextOfClear, BackIs
    <2>6. AllListed'
      BY <1>1, <2>5 DEF AllListed, tables
    <2>7. Clear(<<>>)'
      BY <2>6, NothingLeftClear
    <2> QED BY <1>1, <2>7
  <1> QED BY <1>2, <1>3 DEF AInv

LEMMA AddStep ==
  ASSUME IInv, AInv, [Next]_vars
  PROVE  AInv'
  <1>1. ASSUME WriteCard \/ WriteProp \/ WritePack \/ WriteLog \/ LogPastEnd \/ ListBox \/ Swallow
        PROVE  AInv'
    <2>1. todo # <<>> /\ todo' = Tail(todo) /\ UNCHANGED <<saved, req>>
      BY <1>1 DEF WriteCard, WriteProp, WritePack, WriteLog, LogPastEnd, ListBox, Swallow, Call
    <2>2. ~Idle'
      BY <2>1 DEF IInv, Between, Idle
    <2>3. PICK w, left : w = Head(todo) /\ left = Tail(todo)
      OBVIOUS
    <2>4. CleanAddition' => Clear(todo)'
      BY <1>1, <2>1, <2>3, AddCalls
    <2> QED BY <2>2, <2>4 DEF AInv
  <1>2. ASSUME Answer
        PROVE  AInv'
    <2>1. req' = NoReq /\ saved' = Image /\ boxes' = boxes
      BY <1>2 DEF Answer, Commit, tables
    <2> QED BY <2>1 DEF AInv, Idle, CleanAddition, Image
  <1>3. ASSUME Abort
        PROVE  AInv'
    <2>1. req' = NoReq /\ saved' = saved /\ boxes' = saved.boxes
      BY <1>3 DEF Abort, Restore
    <2> QED BY <2>1 DEF AInv, Idle, CleanAddition
  <1>4. ASSUME UNCHANGED vars
        PROVE  AInv'
    <2>1. UNCHANGED <<pack, boxes, saved, req, todo, faults>>
      BY <1>4 DEF vars, tables
    <2>2. CleanAddition' => CleanAddition
      BY <2>1 DEF CleanAddition, Idle, Listed
    <2>3. FrontCalls' = FrontCalls /\ \A A : BackCalls(A)' = BackCalls(A)
      BY <2>1 DEF FrontCalls, BackCalls, LogCalls, Lists
    <2>4. \A front, back, A : Fills(front, back, A) => Fills(front, back, A)'
      BY <2>1, <2>3 DEF Fills, ListedIn, AllListed
    <2>5. Clear(todo) => Clear(todo)'
      BY <2>1, <2>4 DEF Clear
    <2> QED BY <2>1, <2>2, <2>5 DEF AInv, Idle
  <1> QED BY <1>1, <1>2, <1>3, <1>4, AddOpens, OthersOpen, AddThrows DEF Next

\* With nothing left to call, every box in use is listed.
LEMMA ClearAtEnd ==
  ASSUME Clear(<<>>)
  PROVE  AllListed
  <1>0. PICK A \in SUBSET Boxes : \E front, back : <<>> = front \o back /\ Fills(front, back, A)
    BY DEF Clear
  <1>1. PICK front, back : <<>> = front \o back /\ Fills(front, back, A)
    BY <1>0
  <1>2. back = <<>>
    <2> DEFINE T == FrontCalls \cup BackCalls(A)
    <2>1. front \in Seq(T) /\ back \in Seq(T)
      BY <1>1 DEF Fills
    <2> HIDE DEF T
    <2>2. Len(front) \in Nat /\ Len(back) \in Nat /\ Len(front) + Len(back) = 0
      BY <1>1, <2>1, ConcatProperties
    <2> QED BY <2>1, <2>2
  <1> QED BY <1>1, <1>2 DEF Fills, ListedIn, AllListed

\* An addition that meets no failing call leaves every box listed that has a
\* package in it, if that was so before: also when the erasing of package 0
\* ends it half way.
THEOREM AdditionsAreListed == Spec => AddedListed
  <1>1. IInv /\ AInv /\ [Next]_vars =>
          (Clean /\ req.op = "+" /\ Listed(saved) => Listed(saved'))
    <2> SUFFICES ASSUME IInv, AInv, Clean, req.op = "+", Listed(saved)
                 PROVE  Listed(saved')
      OBVIOUS
    <2>1. faults = 0 /\ ~Idle /\ todo = <<>> /\ saved' = Image
      BY DEF Clean, Answer, Commit
    <2>2. Clear(<<>>)
      BY <2>1 DEF AInv, CleanAddition
    <2>3. AllListed
      BY <2>2, ClearAtEnd
    <2> QED BY <2>1, <2>3 DEF Listed, AllListed, Image
  <1>2. Init => IInv /\ AInv
    BY InitKeeps DEF Init, AInv, CleanAddition, Idle, Image
  <1>3. IInv /\ AInv /\ [Next]_vars => IInv' /\ AInv'
    BY NextKeeps, AddStep
  <1> QED BY <1>1, <1>2, <1>3, PTL DEF Spec, AddedListed

----------------------------------------------------------------------------
(* Removals, when no call fails: each erasing of a package is followed by   *)
(* its entry, no row is erased twice, and the card goes last.               *)

EntryOf(p) == [op |-> "-", pack |-> p, value |-> saved.pack[p].qty]
LogCall(p) == OneCall("log", "insert", 0, EntryOf(p))
Erased(table, x) == OneCall(table, "erase", x, <<>>)
RemovalCalls(r) ==
  {Erased("pack", p) : p \in Nat} \cup {LogCall(p) : p \in Nat}
  \cup {Erased("prop", x) : x \in Nat} \cup {Erased("card", r.card)}

\* D has the package that was erased last, if its entry is still to come.
Shape(s, D, r) ==
  /\ s \in Seq(RemovalCalls(r))
  /\ \A i \in DOMAIN s :
       /\ s[i].table = "pack" =>
            /\ i + 1 \in DOMAIN s /\ s[i + 1] = LogCall(s[i].id)
            /\ r.pack # 0 => s[i].id = r.pack
       /\ s[i].table = "log" => i = 1 \/ s[i - 1].table = "pack"
       /\ s[i].table = "card" => i = Len(s)
  /\ \A i, j \in DOMAIN s : i < j /\ s[i].do = "erase" => s[i] # s[j]
  /\ s # <<>> /\ s[1].table = "log" => D # {}
  /\ \A p \in D : s # <<>> /\ s[1] = LogCall(p)

Present(s) == \A i \in DOMAIN s : /\ s[i].table = "pack" => s[i].id \in DOMAIN pack
                                  /\ s[i].table = "prop" => s[i].id \in DOMAIN prop

Gone == DOMAIN saved.pack \ DOMAIN pack
Logged(D) ==
  /\ Len(journal) = Len(saved.journal) + Cardinality(Gone \ D)
  /\ \A p \in Gone \ D : \E i \in NewEntries : journal[i] = EntryOf(p)

\* The card is to go, or a package of it is to stay.
Remains(s, r) ==
  r.card \in DOMAIN card =>
    \/ ErasedIn(s, "card", r.card)
    \/ \E p \in PacksOf(r.card) : ~ErasedIn(s, "pack", p)

CleanRemoval == ~Idle /\ faults = 0 /\ req.op = "-"

Removing ==
  /\ \A p \in DOMAIN pack : p \in DOMAIN saved.pack /\ pack[p] = saved.pack[p]
  /\ req.pack # 0 => Gone \subseteq {req.pack}
  /\ Present(todo) /\ Remains(todo, req)
  /\ \E D \in SUBSET Gone : /\ \A p, q \in D : p = q
                            /\ Shape(todo, D, req) /\ Logged(D)

RInv == (Idle => journal = saved.journal) /\ (CleanRemoval => Removing)

\* The calls by name.
LEMMA RemovalCallIs ==
  ASSUME NEW r, NEW w \in RemovalCalls(r)
  PROVE  \/ w.table = "pack" /\ w.do = "erase" /\ w.id \in Nat /\ w = Erased("pack", w.id)
         \/ w.table = "prop" /\ w.do = "erase" /\ w.id \in Nat /\ w = Erased("prop", w.id)
         \/ w.table = "card" /\ w.do = "erase" /\ w.id = r.card /\ w = Erased("card", r.card)
         \/ w.table = "log" /\ w.do = "insert" /\ \E p \in Nat : w = LogCall(p)
  <1>1. CASE w \in {Erased("pack", p) : p \in Nat}
    BY <1>1 DEF Erased, OneCall
  <1>2. CASE w \in {Erased("prop", x) : x \in Nat}
    BY <1>2 DEF Erased, OneCall
  <1>3. CASE w = Erased("card", r.card)
    BY <1>3 DEF Erased, OneCall
  <1>4. CASE w \in {LogCall(p) : p \in Nat}
    <2>1. PICK p \in Nat : w = LogCall(p)
      BY <1>4
    <2>2. w.table = "log" /\ w.do = "insert"
      BY <2>1 DEF LogCall, OneCall
    <2> QED BY <2>1, <2>2
  <1> QED BY <1>1, <1>2, <1>3, <1>4 DEF RemovalCalls

\* What is left after the first call.
Begins(s, w, t) == s # <<>> /\ w = Head(s) /\ t = Tail(s)
Awaited(w) == IF w.table = "pack" THEN {w.id} ELSE {}

LEMMA ShapeTail ==
  ASSUME NEW r, NEW s, NEW D, Shape(s, D, r), NEW w, NEW t, Begins(s, w, t)
  PROVE  /\ w \in RemovalCalls(r)
         /\ Shape(t, Awaited(w), r)
         /\ w.do = "erase" => \A i \in DOMAIN t : t[i] # w
         /\ \A i \in DOMAIN t : i + 1 \in DOMAIN s /\ t[i] = s[i + 1]
         /\ w = s[1] /\ 1 \in DOMAIN s
         /\ \A i \in DOMAIN s : i = 1 \/ i - 1 \in DOMAIN t
         /\ w.table = "card" => t = <<>>
         /\ w.table = "pack" /\ r.pack # 0 => w.id = r.pack
  <1> DEFINE n == Len(s)
             R == RemovalCalls(r)
  <1>0. s # <<>> /\ w = Head(s) /\ t = Tail(s)
    BY DEF Begins
  <1>1. s \in Seq(R)
    BY DEF Shape
  <1>2. \A i \in DOMAIN s :
          /\ s[i].table = "pack" =>
               /\ i + 1 \in DOMAIN s /\ s[i + 1] = LogCall(s[i].id)
               /\ r.pack # 0 => s[i].id = r.pack
          /\ s[i].table = "log" => i = 1 \/ s[i - 1].table = "pack"
          /\ s[i].table = "card" => i = n
    BY DEF Shape
  <1>3. \A i, j \in DOMAIN s : i < j /\ s[i].do = "erase" => s[i] # s[j]
    BY DEF Shape
  <1> HIDE DEF R
  <1>4. /\ n \in Nat /\ n # 0 /\ DOMAIN s = 1 .. n /\ w = s[1] /\ w \in R
        /\ t \in Seq(R) /\ Len(t) = n - 1 /\ DOMAIN t = 1 .. n - 1
        /\ \A i \in 1 .. n - 1 : t[i] = s[i + 1]
    BY <1>0, <1>1
  <1> HIDE DEF n
  <1>5. \A i \in 1 .. n - 1 : i + 1 \in 1 .. n /\ i + 1 # 1 /\ i + 1 - 1 = i /\ i \in Nat
    BY <1>4
  <1>6. ASSUME NEW i \in DOMAIN t, t[i].table = "pack"
        PROVE  /\ i + 1 \in DOMAIN t /\ t[i + 1] = LogCall(t[i].id)
               /\ r.pack # 0 => t[i].id = r.pack
    <2>1. i \in 1 .. n - 1 /\ i + 1 \in DOMAIN s /\ t[i] = s[i + 1]
      BY <1>4, <1>5
    <2>2. /\ (i + 1) + 1 \in DOMAIN s /\ s[(i + 1) + 1] = LogCall(t[i].id)
          /\ r.pack # 0 => t[i].id = r.pack
      BY <1>2, <1>6, <2>1
    <2>3. i + 1 \in 1 .. n - 1
      BY <1>4, <2>1, <2>2
    <2> QED BY <1>4, <2>2, <2>3
  <1>7. ASSUME NEW i \in DOMAIN t, t[i].table = "log"
        PROVE  /\ i = 1 => w.table = "pack"
               /\ i # 1 => t[i - 1].table = "pack"
    <2>1. i \in 1 .. n - 1 /\ i + 1 \in DOMAIN s /\ t[i] = s[i + 1] /\ i + 1 # 1 /\ i + 1 - 1 = i
      BY <1>4, <1>5
    <2>2. s[i].table = "pack"
      BY <1>2, <1>7, <2>1
    <2>3. i # 1 => i - 1 \in 1 .. n - 1 /\ (i - 1) + 1 = i
      BY <1>4, <2>1
    <2> QED BY <1>4, <2>2, <2>3
  <1>8. ASSUME NEW i \in DOMAIN t, t[i].table = "card"
        PROVE  i = Len(t)
    <2>1. i \in 1 .. n - 1 /\ i + 1 \in DOMAIN s /\ t[i] = s[i + 1]
      BY <1>4, <1>5
    <2>2. i + 1 = n
      BY <1>2, <1>8, <2>1
    <2> QED BY <1>4, <2>1, <2>2
  <1>9. ASSUME NEW i \in DOMAIN t, NEW j \in DOMAIN t, i < j, t[i].do = "erase"
        PROVE  t[i] # t[j]
    <2>1. i + 1 \in DOMAIN s /\ j + 1 \in DOMAIN s /\ i + 1 < j + 1
      BY <1>4, <1>9
    <2>2. t[i] = s[i + 1] /\ t[j] = s[j + 1]
      BY <1>4
    <2> QED BY <1>3, <1>9, <2>1, <2>2
  <1>10. ASSUME w.table = "pack"
         PROVE  t # <<>> /\ t[1] = LogCall(w.id)
    <2>1. 1 + 1 \in DOMAIN s /\ s[1 + 1] = LogCall(w.id)
      BY <1>2, <1>4, <1>10
    <2>2. 1 \in 1 .. n - 1 /\ 1 \in DOMAIN t /\ Len(t) # 0
      BY <1>4, <2>1
    <2>3. t[1] = LogCall(w.id)
      BY <1>4, <2>1, <2>2
    <2> QED BY <2>2, <2>3
  <1>11. ASSUME t # <<>>
         PROVE  1 \in DOMAIN t
    BY <1>4, <1>11
  <1>12. Shape(t, Awaited(w), r)
    BY <1>4, <1>6, <1>7, <1>8, <1>9, <1>10, <1>11 DEF Shape, R, Awaited
  <1>13. w.do = "erase" => \A i \in DOMAIN t : t[i] # w
    <2> SUFFICES ASSUME w.do = "erase", NEW i \in DOMAIN t
                 PROVE  t[i] # w
      OBVIOUS
    <2>1. 1 \in DOMAIN s /\ i + 1 \in DOMAIN s /\ 1 < i + 1 /\ t[i] = s[i + 1]
      BY <1>4
    <2> QED BY <1>3, <1>4, <2>1
  <1>14. w.table = "card" => t = <<>>
    BY <1>2, <1>4
  <1>15. \A i \in DOMAIN s : i = 1 \/ i - 1 \in DOMAIN t
    BY <1>4
  <1>16. w.table = "pack" /\ r.pack # 0 => w.id = r.pack
    BY <1>2, <1>4
  <1> QED BY <1>4, <1>5, <1>12, <1>13, <1>14, <1>15, <1>16 DEF R

\* The rows a list names.
Names(s, P, X, C) ==
  \A i \in DOMAIN s : /\ s[i].table = "pack" => s[i].id \in P
                      /\ s[i].table = "prop" => s[i].id \in X
                      /\ s[i].table = "card" => s[i].id \in C

\* Two lists that name different rows.
LEMMA ShapeJoined ==
  ASSUME NEW r, NEW a, NEW b, Shape(a, {}, r), Shape(b, {}, r),
         NEW P, NEW X, NEW Q, NEW Y, NEW C, Names(a, P, X, {}), Names(b, Q, Y, C),
         P \cap Q = {}, X \cap Y = {}
  PROVE  Shape(a \o b, {}, r) /\ Names(a \o b, P \cup Q, X \cup Y, C)
  <1> DEFINE R == RemovalCalls(r)
             s == a \o b
             n == Len(a)
             m == Len(b)
  <1>1. a \in Seq(R) /\ b \in Seq(R)
    BY DEF Shape
  <1> HIDE DEF R
  <1>2. /\ n \in Nat /\ m \in Nat /\ DOMAIN a = 1 .. n /\ DOMAIN b = 1 .. m
        /\ s \in Seq(R) /\ Len(s) = n + m /\ DOMAIN s = 1 .. n + m
        /\ \A i \in 1 .. n : s[i] = a[i]
        /\ \A i \in 1 .. m : s[n + i] = b[i]
    BY <1>1, ConcatProperties
  <1> HIDE DEF s, n, m
  <1>3. ASSUME NEW i \in DOMAIN s
        PROVE  \/ i \in DOMAIN a /\ s[i] = a[i]
               \/ i - n \in DOMAIN b /\ s[i] = b[i - n] /\ i > n
    <2>1. CASE i \in 1 .. n
      BY <1>2, <2>1
    <2>2. CASE i \notin 1 .. n
      <3>1. i - n \in 1 .. m /\ n + (i - n) = i /\ i > n
        BY <1>2, <2>2
      <3> QED BY <1>2, <3>1
    <2> QED BY <2>1, <2>2
  <1>4. \A i \in DOMAIN a : a[i] \in R /\ a[i].table # "card"
    BY <1>1, ElementOf DEF Names
  <1>5. \A i \in DOMAIN b : b[i] \in R
    BY <1>1, ElementOf
  <1>6. ASSUME NEW i \in DOMAIN a, NEW j \in DOMAIN b, a[i].do = "erase"
        PROVE  a[i] # b[j]
    <2>1. CASE a[i].table = "pack"
      BY <2>1 DEF Names
    <2>2. CASE a[i].table = "prop"
      BY <2>2 DEF Names
    <2>3. a[i].table \in {"pack", "prop"}
      BY <1>4, <1>6, RemovalCallIs DEF R
    <2> QED BY <2>1, <2>2, <2>3
  <1>7. ASSUME NEW i \in DOMAIN s, s[i].table = "pack"
        PROVE  /\ i + 1 \in DOMAIN s /\ s[i + 1] = LogCall(s[i].id)
               /\ r.pack # 0 => s[i].id = r.pack
    <2>1. CASE i \in DOMAIN a /\ s[i] = a[i]
      <3>1. /\ i + 1 \in DOMAIN a /\ a[i + 1] = LogCall(a[i].id)
            /\ r.pack # 0 => a[i].id = r.pack
        BY <1>7, <2>1 DEF Shape
      <3> QED BY <1>2, <2>1, <3>1
    <2>2. CASE i - n \in DOMAIN b /\ s[i] = b[i - n] /\ i > n
      <3>1. /\ (i - n) + 1 \in DOMAIN b /\ b[(i - n) + 1] = LogCall(b[i - n].id)
            /\ r.pack # 0 => b[i - n].id = r.pack
        BY <1>7, <2>2 DEF Shape
      <3>2. n + ((i - n) + 1) = i + 1 /\ i + 1 \in 1 .. n + m
        BY <1>2, <2>2, <3>1
      <3> QED BY <1>2, <2>2, <3>1, <3>2
    <2> QED BY <1>3, <2>1, <2>2
  <1>8. ASSUME NEW i \in DOMAIN s, s[i].table = "log"
        PROVE  i # 1 /\ s[i - 1].table = "pack"
    <2>1. CASE i \in DOMAIN a /\ s[i] = a[i]
      <3>1. i # 1
        BY <1>8, <2>1, <1>2 DEF Shape
      <3>2. a[i - 1].table = "pack"
        BY <1>8, <2>1, <3>1 DEF Shape
      <3>3. i - 1 \in 1 .. n
        BY <1>2, <2>1, <3>1
      <3> QED BY <1>2, <3>1, <3>2, <3>3
    <2>2. CASE i - n \in DOMAIN b /\ s[i] = b[i - n] /\ i > n
      <3>1. i - n # 1
        BY <1>8, <2>2, <1>2 DEF Shape
      <3>2. b[(i - n) - 1].table = "pack"
        BY <1>8, <2>2, <3>1 DEF Shape
      <3>3. (i - n) - 1 \in 1 .. m /\ n + ((i - n) - 1) = i - 1 /\ i # 1
        BY <1>2, <2>2, <3>1
      <3> QED BY <1>2, <3>2, <3>3
    <2> QED BY <1>3, <2>1, <2>2
  <1>9. ASSUME NEW i \in DOMAIN s, s[i].table = "card"
        PROVE  i = Len(s)
    <2>1. i - n \in DOMAIN b /\ s[i] = b[i - n] /\ i > n
      BY <1>3, <1>4, <1>9
    <2>2. i - n = m
      BY <1>9, <2>1 DEF Shape, m
    <2> QED BY <1>2, <2>1, <2>2
  <1>10. ASSUME NEW i \in DOMAIN s, NEW j \in DOMAIN s, i < j, s[i].do = "erase"
         PROVE  s[i] # s[j]
    <2>1. CASE i \in DOMAIN a /\ s[i] = a[i] /\ j \in DOMAIN a /\ s[j] = a[j]
      BY <1>10, <2>1 DEF Shape
    <2>2. CASE /\ i - n \in DOMAIN b /\ s[i] = b[i - n]
               /\ j - n \in DOMAIN b /\ s[j] = b[j - n]
      <3>1. i - n < j - n
        BY <1>2, <1>10
      <3> QED BY <1>10, <2>2, <3>1 DEF Shape
    <2>3. CASE i \in DOMAIN a /\ s[i] = a[i] /\ j - n \in DOMAIN b /\ s[j] = b[j - n]
      BY <1>6, <1>10, <2>3
    <2>4. CASE i > n /\ j \in DOMAIN a
      BY <1>2, <1>10, <2>4
    <2> QED BY <1>3, <2>1, <2>2, <2>3, <2>4
  <1>11. s # <<>> => 1 \in DOMAIN s
    BY <1>2
  <1>12. Shape(s, {}, r)
    BY <1>2, <1>7, <1>8, <1>9, <1>10, <1>11 DEF Shape, R
  <1>13. Names(s, P \cup Q, X \cup Y, C)
    BY <1>3 DEF Names
  <1> QED BY <1>12, <1>13 DEF s

----------------------------------------------------------------------------
(* What a removal makes of the tables.                                      *)

LEMMA NothingShape ==
  ASSUME NEW r
  PROVE  Shape(<<>>, {}, r) /\ \A P, X, C : Names(<<>>, P, X, C)
  BY DEF Shape, Names

\* The packages to go, each with its entry.
LEMMA PacksShape ==
  ASSUME Stores, Between, Idle, NEW r, NEW S, S \subseteq DOMAIN pack,
         \A p \in S : r.pack # 0 => p = r.pack
  PROVE  /\ Shape(ForEach(ErasePack, InIdOrder(S)), {}, r)
         /\ Names(ForEach(ErasePack, InIdOrder(S)), S, {}, {})
  <1> DEFINE R == RemovalCalls(r)
             h == InIdOrder(S)
             ss == [i \in DOMAIN h |-> ErasePack(h[i])]
             s == FlattenSeq(ss)
  <1>1. ForEach(ErasePack, h) = s
    BY DEF ForEach
  <1>2. S \in SUBSET Nat /\ IsFiniteSet(S)
    <2>1. lastPack \in Nat /\ DOMAIN pack \subseteq 1 .. lastPack
      BY DEF Stores, ImageOK, Image
    <2>2. IsFiniteSet(1 .. lastPack) /\ S \subseteq 1 .. lastPack
      BY <2>1, FS_Interval
    <2> QED BY <2>1, <2>2, FS_Subset
  <1>3. /\ h \in Seq(S)
        /\ \A i, j \in DOMAIN h : h[i] = h[j] => i = j
    BY <1>2, InIdOrderIs
  <1>4. \A i \in DOMAIN h : h[i] \in S /\ h[i] \in Nat
    <2> HIDE DEF h
    <2> QED BY <1>2, <1>3, ElementOf
  <1>5. \A p \in S : ErasePack(p) = <<Erased("pack", p), LogCall(p)>>
    <2>1. pack = saved.pack
      BY DEF Between
    <2>2. \A p \in S : ErasePack(p) = <<Erased("pack", p)>> \o <<LogCall(p)>>
      BY <2>1 DEF ErasePack, Erase, Log, Insert, Erased, LogCall, EntryOf, OneCall
    <2>3. ASSUME NEW a, NEW b
          PROVE  <<a>> \o <<b>> = <<a, b>>
      <3> DEFINE T == {a, b}
                 x == <<a>>
                 y == <<b>>
                 z == <<a, b>>
      <3>1. /\ x \in Seq(T) /\ Len(x) = 1 /\ x[1] = a
            /\ y \in Seq(T) /\ Len(y) = 1 /\ y[1] = b
            /\ z \in Seq(T) /\ Len(z) = 2 /\ z[1] = a /\ z[2] = b
        OBVIOUS
      <3> HIDE DEF T, x, y, z
      <3>2. /\ x \o y \in Seq(T) /\ Len(x \o y) = Len(x) + Len(y)
            /\ \A i \in 1 .. Len(x) + Len(y) :
                 (x \o y)[i] = IF i <= Len(x) THEN x[i] ELSE y[i - Len(x)]
        BY <3>1, ConcatProperties
      <3>3. Len(x \o y) = 2 /\ \A i \in 1 .. 2 : (x \o y)[i] = z[i]
        BY <3>1, <3>2
      <3>4. x \o y = z
        BY <3>1, <3>2, <3>3, SeqEqual
      <3> QED BY <3>4 DEF x, y, z
    <2> QED BY <2>2, <2>3
  <1>6. \A p \in Nat : Erased("pack", p) \in R /\ LogCall(p) \in R
    BY DEF RemovalCalls
  <1> HIDE DEF h, R
  <1>7. \A i \in DOMAIN h : ss[i] = <<Erased("pack", h[i]), LogCall(h[i])>>
    BY <1>4, <1>5
  <1>8. \A i \in DOMAIN h : ss[i] \in Seq(R)
    <2>1. \A a, b \in R : <<a, b>> \in Seq(R)
      OBVIOUS
    <2> HIDE DEF ss
    <2> QED BY <1>4, <1>6, <1>7, <2>1
  <1>9. ss \in Seq(Seq(R)) /\ DOMAIN ss = DOMAIN h
    <2>1. ss = [i \in DOMAIN h |-> ss[i]]
      OBVIOUS
    <2> HIDE DEF ss
    <2> QED BY <1>3, <1>8, <2>1, ListsOf
  <1> HIDE DEF ss
  <1>10. s \in Seq(R)
    BY <1>9, FlattenIs
  <1>0. PICK at \in [DOMAIN ss -> Nat] :
           /\ \A i \in DOMAIN ss : \A j \in DOMAIN ss[i] :
                at[i] + j \in DOMAIN s /\ s[at[i] + j] = ss[i][j]
           /\ \A k \in DOMAIN s :
                \E i \in DOMAIN ss : \E j \in DOMAIN ss[i] : k = at[i] + j
           /\ \A i, j \in DOMAIN ss : i < j => at[i] + Len(ss[i]) <= at[j]
    BY <1>9, FlattenIs
  <1> HIDE DEF s
  <1>11. /\ at \in [DOMAIN h -> Nat]
         /\ \A i \in DOMAIN h : \A j \in DOMAIN ss[i] :
              at[i] + j \in DOMAIN s /\ s[at[i] + j] = ss[i][j]
         /\ \A k \in DOMAIN s :
              \E i \in DOMAIN h : \E j \in DOMAIN ss[i] : k = at[i] + j
    BY <1>0, <1>9
  <1>12. \A i \in DOMAIN h : /\ DOMAIN ss[i] = {1, 2}
                             /\ ss[i][1] = Erased("pack", h[i]) /\ ss[i][2] = LogCall(h[i])
    BY <1>7
  <1>13. ASSUME NEW i \in DOMAIN h
         PROVE  /\ at[i] \in Nat
                /\ at[i] + 1 \in DOMAIN s /\ s[at[i] + 1] = Erased("pack", h[i])
                /\ at[i] + 2 \in DOMAIN s /\ s[at[i] + 2] = LogCall(h[i])
    BY <1>11, <1>12
  <1>14. ASSUME NEW k \in DOMAIN s
         PROVE  \E i \in DOMAIN h : k = at[i] + 1 \/ k = at[i] + 2
    BY <1>11, <1>12
  <1>15. \A p : /\ Erased("pack", p).table = "pack" /\ Erased("pack", p).do = "erase"
                /\ Erased("pack", p).id = p
                /\ LogCall(p).table = "log" /\ LogCall(p).do = "insert"
    BY DEF Erased, LogCall, OneCall
  <1>16. ASSUME NEW k \in DOMAIN s
         PROVE  /\ s[k].table = "pack" =>
                     /\ k + 1 \in DOMAIN s /\ s[k + 1] = LogCall(s[k].id)
                     /\ r.pack # 0 => s[k].id = r.pack
                     /\ s[k].id \in S
                /\ s[k].table = "log" => k # 1 /\ s[k - 1].table = "pack"
                /\ s[k].table \in {"pack", "log"}
    <2>1. PICK i \in DOMAIN h : k = at[i] + 1 \/ k = at[i] + 2
      BY <1>14
    <2>2. CASE k = at[i] + 1
      <3>1. s[k] = Erased("pack", h[i]) /\ k + 1 = at[i] + 2
        BY <1>13, <2>2
      <3> QED BY <1>4, <1>13, <1>15, <3>1
    <2>3. CASE k = at[i] + 2
      <3>1. s[k] = LogCall(h[i]) /\ k - 1 = at[i] + 1 /\ k # 1
        BY <1>13, <2>3
      <3> QED BY <1>13, <1>15, <3>1
    <2> QED BY <2>1, <2>2, <2>3
  <1>17. ASSUME NEW k \in DOMAIN s, NEW l \in DOMAIN s, k < l, s[k].do = "erase", s[k] = s[l]
         PROVE  FALSE
    <2>1. PICK i \in DOMAIN h : k = at[i] + 1 \/ k = at[i] + 2
      BY <1>14
    <2>2. PICK j \in DOMAIN h : l = at[j] + 1 \/ l = at[j] + 2
      BY <1>14
    <2>3. k = at[i] + 1 /\ s[k] = Erased("pack", h[i])
      BY <1>13, <1>15, <1>17, <2>1
    <2>4. l = at[j] + 1 /\ s[l] = Erased("pack", h[j])
      BY <1>13, <1>15, <1>17, <2>2
    <2>5. h[i] = h[j]
      BY <1>15, <1>17, <2>3, <2>4
    <2>6. i = j
      BY <1>3, <2>5
    <2>7. k \in Nat /\ l = k
      BY <1>13, <2>3, <2>4, <2>6
    <2> QED BY <1>17, <2>7
  <1>18. s # <<>> => 1 \in DOMAIN s
    BY <1>10
  <1>19. Shape(s, {}, r)
    BY <1>10, <1>16, <1>17, <1>18 DEF Shape, R
  <1>20. Names(s, S, {}, {})
    BY <1>16 DEF Names
  <1> QED BY <1>1, <1>19, <1>20 DEF h

\* The properties to go.
LEMMA PropsShape ==
  ASSUME Stores, NEW r, NEW c
  PROVE  /\ Shape(ForEach(LAMBDA x : Erase("prop", x), InIdOrder(PropsOf(c))), {}, r)
         /\ Names(ForEach(LAMBDA x : Erase("prop", x), InIdOrder(PropsOf(c))), {}, PropsOf(c), {})
  <1> DEFINE R == RemovalCalls(r)
             S == PropsOf(c)
             h == InIdOrder(S)
             ss == [i \in DOMAIN h |-> Erase("prop", h[i])]
             s == FlattenSeq(ss)
  <1>1. ForEach(LAMBDA x : Erase("prop", x), h) = s
    BY DEF ForEach
  <1>2. S \in SUBSET Nat /\ IsFiniteSet(S)
    BY IdsAre
  <1> HIDE DEF S
  <1>3. /\ h \in Seq(S)
        /\ \A i, j \in DOMAIN h : h[i] = h[j] => i = j
    BY <1>2, InIdOrderIs
  <1>4. \A i \in DOMAIN h : h[i] \in S /\ h[i] \in Nat
    <2> HIDE DEF h
    <2> QED BY <1>2, <1>3, ElementOf
  <1>5. \A x \in Nat : Erased("prop", x) \in R
    BY DEF RemovalCalls
  <1> HIDE DEF h, R
  <1>6. \A i \in DOMAIN h : ss[i] = <<Erased("prop", h[i])>>
    BY DEF Erase, Erased, OneCall
  <1>7. \A i \in DOMAIN h : ss[i] \in Seq(R)
    <2>1. \A a \in R : <<a>> \in Seq(R)
      OBVIOUS
    <2> HIDE DEF ss
    <2> QED BY <1>4, <1>5, <1>6, <2>1
  <1>8. ss \in Seq(Seq(R)) /\ DOMAIN ss = DOMAIN h
    <2>1. ss = [i \in DOMAIN h |-> ss[i]]
      OBVIOUS
    <2> HIDE DEF ss
    <2> QED BY <1>3, <1>7, <2>1, ListsOf
  <1> HIDE DEF ss
  <1>9. s \in Seq(R)
    BY <1>8, FlattenIs
  <1>0. PICK at \in [DOMAIN ss -> Nat] :
           /\ \A i \in DOMAIN ss : \A j \in DOMAIN ss[i] :
                at[i] + j \in DOMAIN s /\ s[at[i] + j] = ss[i][j]
           /\ \A k \in DOMAIN s :
                \E i \in DOMAIN ss : \E j \in DOMAIN ss[i] : k = at[i] + j
           /\ \A i, j \in DOMAIN ss : i < j => at[i] + Len(ss[i]) <= at[j]
    BY <1>8, FlattenIs
  <1> HIDE DEF s
  <1>10. /\ at \in [DOMAIN h -> Nat]
         /\ \A i \in DOMAIN h : \A j \in DOMAIN ss[i] :
              at[i] + j \in DOMAIN s /\ s[at[i] + j] = ss[i][j]
         /\ \A k \in DOMAIN s :
              \E i \in DOMAIN h : \E j \in DOMAIN ss[i] : k = at[i] + j
    BY <1>0, <1>8
  <1>11. \A i \in DOMAIN h : DOMAIN ss[i] = {1} /\ ss[i][1] = Erased("prop", h[i])
    BY <1>6
  <1>12. ASSUME NEW k \in DOMAIN s
         PROVE  \E i \in DOMAIN h : k = at[i] + 1 /\ s[k] = Erased("prop", h[i])
    BY <1>10, <1>11
  <1>13. \A x : Erased("prop", x).table = "prop" /\ Erased("prop", x).id = x
    BY DEF Erased, OneCall
  <1>14. \A k \in DOMAIN s : s[k].table = "prop" /\ s[k].id \in S
    BY <1>4, <1>12, <1>13
  <1>15. ASSUME NEW k \in DOMAIN s, NEW l \in DOMAIN s, k < l, s[k] = s[l]
         PROVE  FALSE
    <2>1. PICK i \in DOMAIN h : k = at[i] + 1 /\ s[k] = Erased("prop", h[i])
      BY <1>12
    <2>2. PICK j \in DOMAIN h : l = at[j] + 1 /\ s[l] = Erased("prop", h[j])
      BY <1>12
    <2>3. h[i] = h[j]
      BY <1>13, <1>15, <2>1, <2>2
    <2>4. i = j
      BY <1>3, <2>3
    <2>5. at[i] \in Nat
      BY <1>10
    <2>6. k = l /\ k \in Nat
      BY <2>1, <2>2, <2>4, <2>5
    <2> QED BY <1>15, <2>6
  <1>16. s # <<>> => 1 \in DOMAIN s
    BY <1>9
  <1>17. Shape(s, {}, r)
    BY <1>9, <1>14, <1>15, <1>16 DEF Shape, R
  <1>18. Names(s, {}, S, {})
    BY <1>14 DEF Names
  <1> QED BY <1>1, <1>17, <1>18 DEF h, S

LEMMA LastShape ==
  ASSUME NEW r
  PROVE  /\ Shape(Erase("card", r.card), {}, r)
         /\ Names(Erase("card", r.card), {}, {}, {r.card})
         /\ ErasedIn(Erase("card", r.card), "card", r.card)
  <1> DEFINE s == Erase("card", r.card)
             R == RemovalCalls(r)
  <1>1. s = <<Erased("card", r.card)>>
    BY DEF Erase, Erased, OneCall
  <1>2. Erased("card", r.card) \in R
    BY DEF RemovalCalls
  <1> HIDE DEF R
  <1>3. s \in Seq(R) /\ Len(s) = 1 /\ DOMAIN s = {1} /\ s[1] = Erased("card", r.card)
    <2> DEFINE e == Erased("card", r.card)
    <2>1. e \in R /\ s = <<e>>
      BY <1>1, <1>2
    <2> HIDE DEF e, s
    <2>2. s \in Seq(R) /\ Len(s) = 1 /\ DOMAIN s = {1} /\ s[1] = e
      BY <2>1
    <2> QED BY <2>2 DEF e
  <1> HIDE DEF s
  <1>4. s[1].table = "card" /\ s[1].id = r.card
    BY <1>3 DEF Erased, OneCall
  <1>5. Shape(s, {}, r)
    BY <1>3, <1>4 DEF Shape, R
  <1>6. Names(s, {}, {}, {r.card}) /\ ErasedIn(s, "card", r.card)
    BY <1>3, <1>4 DEF Names, ErasedIn, Erased, OneCall
  <1> QED BY <1>5, <1>6 DEF s

\* A card goes after the packages that are left to it, with its properties.
LEMMA RemoveCardShape ==
  ASSUME Stores, Between, Idle, NEW r, NEW S, S \subseteq DOMAIN pack,
         \A p \in S : r.pack # 0 => p = r.pack
  PROVE  /\ Shape(RemoveCard(r.card, S), {}, r)
         /\ Names(RemoveCard(r.card, S), S, PropsOf(r.card), {r.card})
         /\ ErasedIn(RemoveCard(r.card, S), "card", r.card)
  <1> DEFINE c == r.card
             R == RemovalCalls(r)
             X == PropsOf(c)
             A == ForEach(LAMBDA x : Erase("prop", x), InIdOrder(PropsOf(c)))
             B == ForEach(ErasePack, InIdOrder(S))
             last == Erase("card", c)
             ab == A \o B
  <1>1. RemoveCard(r.card, S) = (A \o B) \o last
    BY DEF RemoveCard
  <1>2. Shape(A, {}, r) /\ Names(A, {}, X, {})
    BY PropsShape
  <1>3. Shape(B, {}, r) /\ Names(B, S, {}, {})
    BY PacksShape
  <1>4. /\ Shape(last, {}, r) /\ Names(last, {}, {}, {c})
        /\ ErasedIn(last, "card", c)
    BY LastShape
  <1> HIDE DEF A, B, last, X
  <1>5. Shape(ab, {}, r) /\ Names(ab, {} \cup S, X \cup {}, {})
    BY <1>2, <1>3, ShapeJoined
  <1>6. {} \cup S = S /\ X \cup {} = X /\ S \cup {} = S
    OBVIOUS
  <1>7. Shape(ab, {}, r) /\ Names(ab, S, X, {})
    BY <1>5, <1>6
  <1> HIDE DEF ab
  <1>8. Shape(ab \o last, {}, r) /\ Names(ab \o last, S \cup {}, X \cup {}, {c})
    BY <1>4, <1>7, ShapeJoined
  <1>9. ErasedIn(ab \o last, "card", c)
    <2>1. ab \in Seq(R) /\ last \in Seq(R)
      BY <1>4, <1>7 DEF Shape
    <2> HIDE DEF R
    <2> QED BY <1>4, <2>1, InJoined
  <1> QED BY <1>1, <1>6, <1>8, <1>9 DEF ab, X

\* A removal names rows that are there, and leaves the card when one of its
\* packages is to stay.
LEMMA MinusShape ==
  ASSUME Stores, Between, Idle, NEW r \in MinusRequests
  PROVE  Shape(Minus(r), {}, r) /\ Present(Minus(r)) /\ Remains(Minus(r), r)
  <1> DEFINE c == r.card
             gone == PacksOf(c) \cap {r.pack}
             left == PacksOf(c) \ gone
             B == ForEach(ErasePack, InIdOrder(gone))
             M == Minus(r)
  <1>1. PacksOf(c) \subseteq DOMAIN pack /\ PropsOf(c) \subseteq DOMAIN prop /\ 0 \notin PacksOf(c)
    BY IdsAre DEF PacksOf, PropsOf
  <1>2. ASSUME NEW P \in SUBSET PacksOf(c), NEW X \in SUBSET PropsOf(c), NEW C,
               Names(M, P, X, C)
        PROVE  Present(M)
    <2> HIDE DEF M
    <2> QED BY <1>1, <1>2 DEF Present, Names
  <1>3. CASE r.pack = 0
    <2>1. left = PacksOf(c)
      BY <1>1, <1>3
    <2>2. M = RemoveCard(c, PacksOf(c))
      BY <1>3, <2>1 DEF Minus
    <2>3. /\ Shape(M, {}, r) /\ Names(M, PacksOf(c), PropsOf(c), {c})
          /\ ErasedIn(M, "card", c)
      <3> HIDE DEF M
      <3> QED BY <1>1, <1>3, <2>2, RemoveCardShape
    <2> QED BY <1>2, <2>3 DEF Remains
  <1>4. Shape(B, {}, r) /\ Names(B, gone, {}, {})
    <2>1. gone \subseteq DOMAIN pack /\ \A p \in gone : p = r.pack
      BY <1>1
    <2> HIDE DEF gone
    <2> QED BY <2>1, PacksShape
  <1>5. CASE r.pack # 0 /\ left = {}
    <2> DEFINE N == RemoveCard(c, {})
    <2>1. M = B \o N
      BY <1>5 DEF Minus
    <2>2. /\ Shape(N, {}, r) /\ Names(N, {}, PropsOf(c), {c})
          /\ ErasedIn(N, "card", c)
      BY RemoveCardShape
    <2> HIDE DEF N, B, M, gone
    <2>3. Shape(B \o N, {}, r) /\ Names(B \o N, gone \cup {}, {} \cup PropsOf(c), {c})
      BY <1>4, <2>2, ShapeJoined
    <2>4. ErasedIn(B \o N, "card", c)
      <3> DEFINE R == RemovalCalls(r)
      <3>1. B \in Seq(R) /\ N \in Seq(R)
        BY <1>4, <2>2 DEF Shape
      <3> HIDE DEF R
      <3> QED BY <2>2, <3>1, InJoined
    <2>5. gone \cup {} \in SUBSET PacksOf(c) /\ {} \cup PropsOf(c) \in SUBSET PropsOf(c)
      BY DEF gone
    <2> QED BY <1>2, <2>1, <2>3, <2>4, <2>5 DEF Remains, M
  <1>6. CASE r.pack # 0 /\ left # {}
    <2>1. M = B \o <<>>
      BY <1>6 DEF Minus
    <2>2. M = B
      <3> DEFINE R == RemovalCalls(r)
      <3>1. B \in Seq(R)
        BY <1>4 DEF Shape
      <3> HIDE DEF R, B, M
      <3> QED BY <2>1, <3>1, ConcatEmptySeq
    <2>3. PICK q \in left : TRUE
      BY <1>6
    <2>4. q \in PacksOf(c) /\ q \notin gone
      BY <2>3
    <2>5. ~ErasedIn(B, "pack", q)
      <3> HIDE DEF B, gone
      <3> QED BY <1>4, <2>4 DEF ErasedIn, Names
    <2>6. Remains(M, r)
      <3> HIDE DEF B, M, gone
      <3> QED BY <2>2, <2>4, <2>5 DEF Remains
    <2>7. Present(M)
      <3>1. gone \in SUBSET PacksOf(c) /\ {} \in SUBSET PropsOf(c)
        OBVIOUS
      <3> HIDE DEF B, M, gone
      <3> QED BY <1>2, <1>4, <2>2, <3>1
    <2> QED BY <1>4, <2>2, <2>6, <2>7
  <1> QED BY <1>3, <1>5, <1>6

----------------------------------------------------------------------------
(* Removals, action by action.                                              *)

LEMMA ShapeFixed ==
  ASSUME NEW s, NEW D, NEW r, Shape(s, D, r), saved' = saved
  PROVE  Shape(s, D, r)'
  <1>1. \A p : LogCall(p)' = LogCall(p)
    BY DEF LogCall, EntryOf
  <1>2. RemovalCalls(r)' = RemovalCalls(r)
    BY <1>1 DEF RemovalCalls
  <1> QED BY <1>1, <1>2 DEF Shape

LEMMA RemoveOpens ==
  ASSUME IInv, RInv, RemoveOne
  PROVE  RInv'
  <1>1. PICK r \in MinusRequests : Open(r, Minus(r)) /\ UNCHANGED faults
    BY DEF RemoveOne
  <1>2. /\ Idle /\ req' = r /\ todo' = Minus(r) /\ UNCHANGED <<tables, saved, prop, faults>>
    BY <1>1 DEF Open
  <1>3. ~Idle'
    BY <1>1, <1>2, MinusTyped DEF Idle, NoReq, MinusRequests
  <1>4. /\ Stores /\ Between /\ pack = saved.pack /\ journal = saved.journal
    BY <1>2 DEF IInv, Between, RInv
  <1>5. Shape(Minus(r), {}, r) /\ Present(Minus(r)) /\ Remains(Minus(r), r)
    BY <1>2, <1>4, MinusShape
  <1>6. UNCHANGED <<card, pack, journal>>
    BY <1>2 DEF tables
  <1>7. PICK m : m = Minus(r)
    OBVIOUS
  <1>9. Shape(m, {}, r)'
    BY <1>2, <1>5, <1>7, ShapeFixed
  <1>10. Present(m)' /\ Remains(m, r)'
    BY <1>2, <1>5, <1>6, <1>7 DEF Present, Remains, PacksOf, ErasedIn
  <1>8. Gone' = {} /\ Logged({})'
    <2>1. Gone' = {} /\ Gone' \ {} = {}
      BY <1>2, <1>4, <1>6 DEF Gone
    <2>2. Cardinality({}) = 0 /\ Len(saved.journal) \in Nat
      BY <1>4, FS_EmptySet DEF Stores, ImageOK
    <2> QED BY <1>2, <1>4, <1>6, <2>1, <2>2 DEF Logged
  <1>11. \A p \in DOMAIN pack' : p \in DOMAIN saved'.pack /\ pack'[p] = saved'.pack[p]
    BY <1>2, <1>4, <1>6
  <1>12. /\ Present(todo)' /\ Remains(todo, req)'
         /\ {} \in SUBSET Gone' /\ Shape(todo, {}, req)' /\ Logged({})'
    BY <1>2, <1>7, <1>8, <1>9, <1>10
  <1> QED BY <1>3, <1>8, <1>11, <1>12 DEF RInv, Removing, CleanRemoval

LEMMA OthersOpenToo ==
  ASSUME AddCard \/ EditCard
  PROVE  RInv'
  <1>1. /\ req'.op \in {"+", "="}
        /\ req' # NoReq
    BY PlusTyped DEF AddCard, EditCard, Open, EqualRequests, NoReq
  <1> QED BY <1>1 DEF RInv, CleanRemoval, Idle

\* The next call of a removal and what is left after it.
LEMMA NextRemoval ==
  ASSUME IInv, RInv, CleanRemoval, NEW w, NEW left, Begins(todo, w, left)
  PROVE  /\ w \in RemovalCalls(req)
         /\ w.table = "card" => left = <<>>
         /\ w.table = "pack" =>
              w.id \in DOMAIN pack /\ (req.pack # 0 => w.id = req.pack)
         /\ w.table = "prop" => w.id \in DOMAIN prop
         /\ \E D \in SUBSET Gone :
              /\ w.table = "log" => \E p \in Gone : D = {p} /\ w = LogCall(p)
              /\ w.table # "log" => D = {}
              /\ Logged(D)
         /\ Shape(left, Awaited(w), req)
         /\ \A i \in DOMAIN left :
              /\ left[i].table = "pack" =>
                   left[i].id \in DOMAIN pack /\ (w.table = "pack" => left[i].id # w.id)
              /\ left[i].table = "prop" =>
                   left[i].id \in DOMAIN prop /\ (w.table = "prop" => left[i].id # w.id)
         /\ req.card \in DOMAIN card =>
              \/ w.table = "card" \/ ErasedIn(left, "card", req.card)
              \/ \E q \in PacksOf(req.card) : ~ErasedIn(left, "pack", q) /\ w # Erased("pack", q)
  <1> DEFINE R == RemovalCalls(req)
  <1>1. Present(todo) /\ Remains(todo, req)
    BY DEF RInv, Removing
  <1>2. PICK D \in SUBSET Gone :
          (\A p, q \in D : p = q) /\ Shape(todo, D, req) /\ Logged(D)
    BY DEF RInv, Removing
  <1>3. /\ w \in R /\ Shape(left, Awaited(w), req)
        /\ w.do = "erase" => \A i \in DOMAIN left : left[i] # w
        /\ \A i \in DOMAIN left : i + 1 \in DOMAIN todo /\ left[i] = todo[i + 1]
        /\ w = todo[1] /\ 1 \in DOMAIN todo
        /\ \A i \in DOMAIN todo : i = 1 \/ i - 1 \in DOMAIN left
        /\ w.table = "card" => left = <<>>
        /\ w.table = "pack" /\ req.pack # 0 => w.id = req.pack
    <2>1. Shape(todo, D, req)
      BY <1>2
    <2> QED BY <2>1, ShapeTail
  <1>4. left \in Seq(R)
    BY <1>3 DEF Shape
  <1>5. \A i \in DOMAIN left : left[i] \in R
    <2> HIDE DEF R
    <2> QED BY <1>4, ElementOf
  <1>6. /\ w.table = "pack" => w.id \in DOMAIN pack
        /\ w.table = "prop" => w.id \in DOMAIN prop
    BY <1>1, <1>3 DEF Present
  <1>7. /\ w.table = "log" => \E p \in Gone : D = {p} /\ w = LogCall(p)
        /\ w.table # "log" => D = {}
    <2>1. w.table = "log" => D # {}
      BY <1>2, <1>3 DEF Shape
    <2>2. \A p \in D : w = LogCall(p)
      BY <1>2, <1>3 DEF Shape
    <2>3. \A p : LogCall(p).table = "log"
      BY DEF LogCall, OneCall
    <2> QED BY <1>2, <2>1, <2>2, <2>3
  <1>8. ASSUME NEW i \in DOMAIN left
        PROVE  /\ left[i].table = "pack" =>
                    left[i].id \in DOMAIN pack /\ (w.table = "pack" => left[i].id # w.id)
               /\ left[i].table = "prop" =>
                    left[i].id \in DOMAIN prop /\ (w.table = "prop" => left[i].id # w.id)
    <2>1. i + 1 \in DOMAIN todo /\ left[i] = todo[i + 1] /\ left[i] \in R
      BY <1>3, <1>5
    <2>2. /\ left[i].table = "pack" => left[i].id \in DOMAIN pack
          /\ left[i].table = "prop" => left[i].id \in DOMAIN prop
      BY <1>1, <2>1 DEF Present
    <2>3. /\ w.table = "pack" => w = Erased("pack", w.id) /\ w.do = "erase"
          /\ w.table = "prop" => w = Erased("prop", w.id) /\ w.do = "erase"
          /\ left[i].table = "pack" => left[i] = Erased("pack", left[i].id)
          /\ left[i].table = "prop" => left[i] = Erased("prop", left[i].id)
      BY <1>3, <2>1, RemovalCallIs
    <2> QED BY <1>3, <2>2, <2>3
  <1>9. ASSUME req.card \in DOMAIN card
        PROVE  \/ w.table = "card" \/ ErasedIn(left, "card", req.card)
               \/ \E q \in PacksOf(req.card) : ~ErasedIn(left, "pack", q) /\ w # Erased("pack", q)
    <2>1. CASE ErasedIn(todo, "card", req.card)
      <3>1. PICK i \in DOMAIN todo : todo[i] = Erased("card", req.card)
        BY <2>1 DEF ErasedIn, Erased, OneCall
      <3>2. CASE i = 1
        BY <1>3, <3>1, <3>2 DEF Erased, OneCall
      <3>3. CASE i # 1
        <4>1. i \in Nat
          <5>1. todo \in Seq(R)
            BY <1>2 DEF Shape
          <5> HIDE DEF R
          <5> QED BY <5>1
        <4>2. i - 1 \in DOMAIN left /\ (i - 1) + 1 = i
          BY <1>3, <3>3, <4>1
        <4>3. left[i - 1] = Erased("card", req.card)
          BY <1>3, <3>1, <4>2
        <4> QED BY <4>2, <4>3 DEF ErasedIn, Erased, OneCall
      <3> QED BY <3>2, <3>3
    <2>2. CASE \E q \in PacksOf(req.card) : ~ErasedIn(todo, "pack", q)
      <3>1. PICK q \in PacksOf(req.card) : ~ErasedIn(todo, "pack", q)
        BY <2>2
      <3>2. \A i \in DOMAIN todo : todo[i] # Erased("pack", q)
        BY <3>1 DEF ErasedIn, Erased, OneCall
      <3>3. w # Erased("pack", q) /\ \A i \in DOMAIN left : left[i] # Erased("pack", q)
        BY <1>3, <3>2
      <3>4. ~ErasedIn(left, "pack", q)
        BY <3>3 DEF ErasedIn, Erased, OneCall
      <3> QED BY <3>3, <3>4
    <2> QED BY <1>1, <1>9, <2>1, <2>2 DEF Remains
  <1> QED BY <1>2, <1>3, <1>6, <1>7, <1>8, <1>9

\* A removal that goes on without a failing call was one before.
LEMMA StillRemoving ==
  ASSUME IInv, todo # <<>>, UNCHANGED <<saved, req>>, CleanRemoval',
         faults' = faults \/ faults' = faults + 1
  PROVE  CleanRemoval /\ faults' = faults
  <1>1. ~Idle /\ faults \in Nat
    BY DEF IInv, Between, Stores
  <1> QED BY <1>1 DEF CleanRemoval

\* The properties of the card.
LEMMA RemovesProp ==
  ASSUME IInv, RInv, CleanRemoval, NEW w, NEW left, Begins(todo, w, left), todo' = left,
         UNCHANGED <<saved, req>>, WriteProp
  PROVE  Removing'
  <1>1. /\ w.table = "prop" /\ prop' = After(prop, lastProp, w)
        /\ UNCHANGED <<card, pack, journal>>
    BY DEF WriteProp, Call, Turn, Begins, tables
  <1>2. w.do = "erase"
    BY <1>1, NextRemoval, RemovalCallIs
  <1>3. DOMAIN prop' = DOMAIN prop \ {w.id}
    BY <1>1, <1>2 DEF After
  <1>4. Present(left)'
    BY <1>1, <1>3, NextRemoval DEF Present
  <1>5. Remains(left, req)'
    BY <1>1, NextRemoval DEF Remains, PacksOf, ErasedIn
  <1>6. Shape(left, {}, req)'
    <2>1. Shape(left, {}, req)
      BY <1>1, NextRemoval DEF Awaited
    <2>2. PICK r : r = req
      OBVIOUS
    <2>3. Shape(left, {}, r)'
      BY <2>1, <2>2, ShapeFixed
    <2> QED BY <2>2, <2>3
  <1>7. Gone' = Gone /\ Logged({})'
    <2>1. Logged({}) /\ Gone' = Gone /\ NewEntries' = NewEntries
      BY <1>1, NextRemoval DEF Gone, NewEntries
    <2> QED BY <1>1, <2>1 DEF Logged, EntryOf
  <1>8. /\ \A p \in DOMAIN pack' : p \in DOMAIN saved'.pack /\ pack'[p] = saved'.pack[p]
        /\ req'.pack # 0 => Gone' \subseteq {req'.pack}
    BY <1>1, <1>7 DEF RInv, Removing
  <1> QED BY <1>4, <1>5, <1>6, <1>7, <1>8 DEF Removing

\* The card itself, after everything it had.
LEMMA RemovesCard ==
  ASSUME IInv, RInv, CleanRemoval, NEW w, NEW left, Begins(todo, w, left), todo' = left,
         UNCHANGED <<saved, req>>, WriteCard
  PROVE  Removing'
  <1>1. /\ w.table = "card" /\ card' = After(card, lastCard, w)
        /\ UNCHANGED <<prop, pack, journal>>
    BY DEF WriteCard, Call, Turn, Begins, tables
  <1>2. w.do = "erase" /\ w.id = req.card /\ left = <<>>
    BY <1>1, NextRemoval, RemovalCallIs
  <1>3. DOMAIN card' = DOMAIN card \ {req.card}
    BY <1>1, <1>2 DEF After
  <1>4. Present(<<>>)' /\ Remains(<<>>, req)'
    BY <1>3 DEF Present, Remains
  <1>5. Shape(<<>>, {}, req)'
    BY DEF Shape
  <1>6. Gone' = Gone /\ Logged({})'
    <2>1. Logged({}) /\ Gone' = Gone /\ NewEntries' = NewEntries
      BY <1>1, NextRemoval DEF Gone, NewEntries
    <2> QED BY <1>1, <2>1 DEF Logged, EntryOf
  <1>7. /\ \A p \in DOMAIN pack' : p \in DOMAIN saved'.pack /\ pack'[p] = saved'.pack[p]
        /\ req'.pack # 0 => Gone' \subseteq {req'.pack}
    BY <1>1, <1>6 DEF RInv, Removing
  <1> QED BY <1>2, <1>4, <1>5, <1>6, <1>7 DEF Removing

\* A package: its entry is due.
LEMMA RemovesPack ==
  ASSUME IInv, RInv, CleanRemoval, NEW w, NEW left, Begins(todo, w, left), todo' = left,
         UNCHANGED <<saved, req>>, WritePack
  PROVE  Removing'
  <1>1. /\ w.table = "pack" /\ pack' = After(pack, lastPack, w)
        /\ UNCHANGED <<prop, card, journal>>
    BY DEF WritePack, Call, Turn, Begins
  <1>2. /\ w.do = "erase" /\ w = Erased("pack", w.id) /\ w.id \in DOMAIN pack
        /\ req.pack # 0 => w.id = req.pack
    BY <1>1, NextRemoval, RemovalCallIs
  <1>3. /\ DOMAIN pack' = DOMAIN pack \ {w.id}
        /\ \A p \in DOMAIN pack' : pack'[p] = pack[p]
    BY <1>1, <1>2 DEF After
  <1>4. Present(left)'
    BY <1>1, <1>3, NextRemoval DEF Present
  <1>5. Remains(left, req)'
    <2> SUFFICES ASSUME req.card \in DOMAIN card, ~ErasedIn(left, "card", req.card)
                 PROVE  \E q \in PacksOf(req.card)' : ~ErasedIn(left, "pack", q)
      BY <1>1 DEF Remains, ErasedIn
    <2>1. PICK q \in PacksOf(req.card) : ~ErasedIn(left, "pack", q) /\ w # Erased("pack", q)
      BY <1>1, NextRemoval
    <2>2. q # w.id /\ q \in DOMAIN pack /\ pack[q].card = req.card
      BY <1>2, <2>1 DEF PacksOf
    <2>3. q \in PacksOf(req.card)'
      BY <1>3, <2>2 DEF PacksOf
    <2> QED BY <2>1, <2>3
  <1>6. Shape(left, {w.id}, req)'
    <2>1. Shape(left, {w.id}, req)
      BY <1>1, NextRemoval DEF Awaited
    <2>2. PICK r : r = req
      OBVIOUS
    <2>3. Shape(left, {w.id}, r)'
      BY <2>1, <2>2, ShapeFixed
    <2> QED BY <2>2, <2>3
  <1>7. w.id \in DOMAIN saved.pack
    BY <1>2 DEF RInv, Removing
  <1>8. Gone' = Gone \cup {w.id} /\ w.id \notin Gone
    BY <1>2, <1>3, <1>7 DEF Gone
  <1>9. Logged({w.id})'
    <2>1. Logged({})
      BY <1>1, NextRemoval
    <2>2. Gone' \ {w.id} = Gone \ {}
      BY <1>8
    <2>3. NewEntries' = NewEntries
      BY <1>1 DEF NewEntries
    <2> QED BY <1>1, <2>1, <2>2, <2>3 DEF Logged, EntryOf
  <1>10. /\ \A p \in DOMAIN pack' : p \in DOMAIN saved'.pack /\ pack'[p] = saved'.pack[p]
         /\ req'.pack # 0 => Gone' \subseteq {req'.pack}
    BY <1>2, <1>3, <1>8 DEF RInv, Removing
  <1>11. {w.id} \in SUBSET Gone' /\ \A p, q \in {w.id} : p = q
    BY <1>8
  <1> QED BY <1>4, <1>5, <1>6, <1>9, <1>10, <1>11 DEF Removing

\* The entry.
LEMMA RemovalIsNoted ==
  ASSUME IInv, RInv, CleanRemoval, NEW w, NEW left, Begins(todo, w, left), todo' = left,
         UNCHANGED <<saved, req>>, WriteLog
  PROVE  Removing'
  <1>1. /\ w.table = "log" /\ UNCHANGED <<prop, card, pack>>
        /\ Add2Log(w.row.op, IF w.row.pack = LastInserted THEN lastPack ELSE w.row.pack,
                   w.row.value)
    BY DEF WriteLog, Call, Turn, Begins
  <1>2. PICK p \in Gone : w = LogCall(p) /\ Logged({p})
    <2>1. PICK D \in SUBSET Gone : /\ \E p \in Gone : D = {p} /\ w = LogCall(p)
                                  /\ Logged(D)
      BY <1>1, NextRemoval
    <2>2. PICK p \in Gone : D = {p} /\ w = LogCall(p)
      BY <2>1
    <2> QED BY <2>1, <2>2
  <1>3. /\ saved.journal \in Seq(Entry) /\ journal \in Seq(Entry)
        /\ IsFiniteSet(Gone) /\ p # 0
    <2>1. /\ saved.lastPack \in Nat /\ DOMAIN saved.pack \subseteq 1 .. saved.lastPack
          /\ saved.journal \in Seq(Entry) /\ journal \in Seq(Entry)
      BY DEF IInv, Stores, ImageOK, Image
    <2>2. Gone \subseteq 1 .. saved.lastPack /\ \A x \in 1 .. saved.lastPack : x # 0
      BY <2>1 DEF Gone
    <2>3. IsFiniteSet(1 .. saved.lastPack)
      BY <2>1, FS_Interval
    <2>4. IsFiniteSet(Gone)
      BY <2>2, <2>3, FS_Subset
    <2> QED BY <1>2, <2>1, <2>2, <2>4
  <1>4. journal' = Append(journal, EntryOf(p))
    <2>1. w.row = EntryOf(p)
      BY <1>2 DEF LogCall, OneCall
    <2> QED BY <1>1, <1>3, <2>1 DEF Add2Log, EntryOf, LastInserted
  <1> DEFINE n == Len(journal)
             k == Len(saved.journal)
  <1>5. /\ n \in Nat /\ k \in Nat /\ Len(journal') = n + 1 /\ DOMAIN journal = 1 .. n
        /\ DOMAIN journal' = 1 .. n + 1
        /\ journal'[n + 1] = EntryOf(p) /\ \A i \in 1 .. n : journal'[i] = journal[i]
    BY <1>3, <1>4
  <1>6. /\ n = k + Cardinality(Gone \ {p})
        /\ \A q \in Gone \ {p} : \E i \in NewEntries : journal[i] = EntryOf(q)
    BY <1>2 DEF Logged
  <1>7. Cardinality(Gone \ {p}) = Cardinality(Gone) - 1 /\ Cardinality(Gone) \in Nat
        /\ IsFiniteSet(Gone \ {p})
    BY <1>2, <1>3, FS_RemoveElement, FS_CardinalityType
  <1>8. Cardinality(Gone \ {p}) \in Nat
    BY <1>7, FS_CardinalityType
  <1>9. Gone' = Gone /\ Gone \ {} = Gone
    BY <1>1 DEF Gone
  <1>10. ASSUME NEW q \in Gone
         PROVE  \E i \in NewEntries' : journal'[i] = EntryOf(q)
    <2>1. NewEntries' = {i \in 1 .. n + 1 : i > k} /\ NewEntries = {i \in 1 .. n : i > k}
      BY <1>5 DEF NewEntries
    <2>2. CASE q = p
      <3>1. n + 1 \in NewEntries'
        BY <1>5, <1>6, <1>8, <2>1
      <3> QED BY <1>5, <2>2, <3>1
    <2>3. CASE q # p
      <3>1. PICK i \in NewEntries : journal[i] = EntryOf(q)
        BY <1>6, <2>3
      <3>2. i \in NewEntries' /\ journal'[i] = EntryOf(q)
        BY <1>5, <2>1, <3>1
      <3> QED BY <3>2
    <2> QED BY <2>2, <2>3
  <1>11. Logged({})'
    <2>1. Len(journal') = k + Cardinality(Gone)
      BY <1>5, <1>6, <1>7, <1>8
    <2> QED BY <1>9, <1>10, <2>1 DEF Logged, EntryOf
  <1>12. Present(left)' /\ Remains(left, req)'
    BY <1>1, NextRemoval DEF Present, Remains, PacksOf, ErasedIn
  <1>13. Shape(left, {}, req)'
    <2>1. Shape(left, {}, req)
      BY <1>1, NextRemoval DEF Awaited
    <2>2. PICK r : r = req
      OBVIOUS
    <2>3. Shape(left, {}, r)'
      BY <2>1, <2>2, ShapeFixed
    <2> QED BY <2>2, <2>3
  <1>14. /\ \A x \in DOMAIN pack' : x \in DOMAIN saved'.pack /\ pack'[x] = saved'.pack[x]
         /\ req'.pack # 0 => Gone' \subseteq {req'.pack}
    BY <1>1, <1>9 DEF RInv, Removing
  <1> QED BY <1>11, <1>12, <1>13, <1>14 DEF Removing

\* A call of a removal that throws of itself erases a card that is not there.
LEMMA RemovalThrows ==
  ASSUME IInv, RInv, Throw
  PROVE  RInv'
  <1>1. /\ todo # <<>> /\ todo' = <<>> /\ UNCHANGED <<tables, saved, prop, req>>
        /\ Head(todo).table \in Stored
        /\ (IF Throws(Head(todo)) THEN UNCHANGED faults ELSE Fault)
    BY DEF Throw
  <1>2. ~Idle /\ ~Idle' /\ UNCHANGED <<card, pack, journal>>
    BY <1>1 DEF IInv, Between, Idle, tables
  <1>3. ASSUME CleanRemoval'
        PROVE  Removing'
    <2>1. faults' = faults \/ faults' = faults + 1
      BY <1>1 DEF Fault
    <2>2. CleanRemoval /\ faults' = faults /\ faults \in Nat
      BY <1>1, <1>3, <2>1, StillRemoving DEF IInv, Stores
    <2>3. PICK w, left : w = Head(todo) /\ left = Tail(todo)
      OBVIOUS
    <2>4. Begins(todo, w, left)
      BY <1>1, <2>3 DEF Begins
    <2>5. w.table \in Stored /\ Throws(w)
      BY <1>1, <2>2, <2>3 DEF Fault
    <2>6. w.table = "card" /\ w.id = req.card /\ req.card \notin DOMAIN card
      BY <2>2, <2>4, <2>5, NextRemoval, RemovalCallIs DEF Throws, Rows, Stored
    <2>7. Present(<<>>)' /\ Remains(<<>>, req)' /\ Shape(<<>>, {}, req)'
      BY <1>1, <1>2, <2>6 DEF Present, Remains, Shape
    <2>8. Gone' = Gone /\ Logged({})'
      <3>1. Logged({}) /\ Gone' = Gone /\ NewEntries' = NewEntries
        BY <1>1, <1>2, <2>2, <2>4, <2>6, NextRemoval DEF Gone, NewEntries
      <3> QED BY <1>1, <1>2, <3>1 DEF Logged, EntryOf
    <2>9. /\ \A p \in DOMAIN pack' : p \in DOMAIN saved'.pack /\ pack'[p] = saved'.pack[p]
          /\ req'.pack # 0 => Gone' \subseteq {req'.pack}
      BY <1>1, <1>2, <2>2, <2>8 DEF RInv, Removing
    <2> QED BY <1>1, <2>7, <2>8, <2>9 DEF Removing
  <1> QED BY <1>2, <1>3 DEF RInv

LEMMA RemovalCall ==
  ASSUME IInv, RInv,
         WriteCard \/ WriteProp \/ WritePack \/ WriteLog \/ LogPastEnd \/ ListBox \/ Swallow
  PROVE  RInv'
  <1>1. todo # <<>> /\ todo' = Tail(todo) /\ UNCHANGED <<saved, req>>
    BY DEF WriteCard, WriteProp, WritePack, WriteLog, LogPastEnd, ListBox, Swallow, Call
  <1>2. ~Idle'
    BY <1>1 DEF IInv, Between, Idle
  <1>3. ASSUME CleanRemoval'
        PROVE  Removing'
    <2>1. faults' = faults \/ faults' = faults + 1
      BY DEF WriteCard, WriteProp, WritePack, WriteLog, LogPastEnd, ListBox, Swallow, Fault
    <2>2. CleanRemoval /\ faults' = faults /\ faults \in Nat
      BY <1>1, <1>3, <2>1, StillRemoving DEF IInv, Stores
    <2>3. PICK w, left : w = Head(todo) /\ left = Tail(todo)
      OBVIOUS
    <2>4. Begins(todo, w, left) /\ todo' = left
      BY <1>1, <2>3 DEF Begins
    <2>5. w.table \in {"pack", "prop", "card", "log"}
      BY <2>2, <2>4, NextRemoval, RemovalCallIs
    <2>6. ~LogPastEnd /\ ~ListBox
      BY <2>3, <2>5 DEF LogPastEnd, ListBox, Call, Turn
    <2>7. ~Swallow
      BY <2>2 DEF Swallow, Fault
    <2> QED BY <1>1, <2>2, <2>4, <2>6, <2>7, RemovesProp, RemovesCard, RemovesPack, RemovalIsNoted
  <1> QED BY <1>2, <1>3 DEF RInv

LEMMA RemovalStep ==
  ASSUME IInv, RInv, [Next]_vars
  PROVE  RInv'
  <1>1. ASSUME Answer
        PROVE  RInv'
    <2>1. req' = NoReq /\ saved' = Image /\ journal' = journal
      BY <1>1 DEF Answer, Commit, tables
    <2> QED BY <2>1 DEF RInv, Idle, CleanRemoval, Image
  <1>2. ASSUME Abort
        PROVE  RInv'
    <2>1. req' = NoReq /\ saved' = saved /\ journal' = saved.journal
      BY <1>2 DEF Abort, Restore
    <2> QED BY <2>1 DEF RInv, Idle, CleanRemoval
  <1>3. ASSUME UNCHANGED vars
        PROVE  RInv'
    <2>1. UNCHANGED <<card, pack, prop, journal, saved, req, todo, faults>>
      BY <1>3 DEF vars, tables
    <2>2. Gone' = Gone /\ NewEntries' = NewEntries
      BY <2>1 DEF Gone, NewEntries
    <2>3. \A D : Logged(D) => Logged(D)'
      BY <2>1, <2>2 DEF Logged, EntryOf
    <2>4. \A s, D, r : Shape(s, D, r) => Shape(s, D, r)'
      BY <2>1, ShapeFixed
    <2>5. \A D : Shape(todo, D, req) => Shape(todo, D, req)'
      BY <2>1, <2>4
    <2>6. Present(todo) => Present(todo)'
      BY <2>1 DEF Present
    <2>7. Remains(todo, req) => Remains(todo, req)'
      BY <2>1 DEF Remains, PacksOf, ErasedIn
    <2>8. Removing => Removing'
      BY <2>1, <2>2, <2>3, <2>5, <2>6, <2>7 DEF Removing
    <2> QED BY <2>1, <2>8 DEF RInv, CleanRemoval, Idle
  <1> QED BY <1>1, <1>2, <1>3, RemoveOpens, OthersOpenToo, RemovalThrows, RemovalCall DEF Next

\* A removal that meets no failing call leaves an entry for every package it
\* took, with what was in it, and no other; it takes no package but the one it
\* names, if it names one; and the card stays exactly as long as it has packages.
THEOREM RemovalsAreLogged == Spec => RemovalLogged
  <1>1. ASSUME IInv, RInv, Clean, req.op = "-"
        PROVE  /\ \A p \in DOMAIN saved.pack \ DOMAIN pack : \E i \in NewEntries :
                    journal[i] = [op |-> "-", pack |-> p, value |-> saved.pack[p].qty]
               /\ Cardinality(NewEntries) = Cardinality(DOMAIN saved.pack \ DOMAIN pack)
               /\ req.pack # 0 => DOMAIN saved.pack \ DOMAIN pack \subseteq {req.pack}
               /\ req.card \in DOMAIN card =>
                    req.card \in DOMAIN saved.card /\ PacksOf(req.card) # {}
    <2>1. faults = 0 /\ ~Idle /\ todo = <<>>
      BY <1>1 DEF Clean, Answer
    <2>2. Removing
      BY <1>1, <2>1 DEF RInv, CleanRemoval
    <2>3. PICK D \in SUBSET Gone : Shape(<<>>, D, req) /\ Logged(D)
      BY <2>1, <2>2 DEF Removing
    <2>4. D = {} /\ Gone \ D = Gone
      BY <2>3 DEF Shape
    <2>5. /\ Len(journal) = Len(saved.journal) + Cardinality(Gone)
          /\ \A p \in Gone : \E i \in NewEntries : journal[i] = EntryOf(p)
      BY <2>3, <2>4 DEF Logged
    <2>6. Cardinality(NewEntries) = Cardinality(Gone)
      <3> DEFINE n == Len(journal)
                 k == Len(saved.journal)
                 g == Cardinality(Gone)
      <3>1. n \in Nat /\ k \in Nat /\ DOMAIN journal = 1 .. n
        BY <1>1 DEF IInv, Stores, ImageOK, Image
      <3>2. g \in Nat
        <4>1. saved.lastPack \in Nat /\ Gone \subseteq 1 .. saved.lastPack
          BY <1>1 DEF IInv, Stores, ImageOK, Gone
        <4>2. IsFiniteSet(1 .. saved.lastPack)
          BY <4>1, FS_Interval
        <4>3. IsFiniteSet(Gone)
          BY <4>1, <4>2, FS_Subset
        <4> QED BY <4>3, FS_CardinalityType
      <3>3. NewEntries = k + 1 .. n
        BY <3>1 DEF NewEntries
      <3>4. n = k + g
        BY <2>5
      <3> HIDE DEF n, k, g
      <3>5. Cardinality(k + 1 .. n) = g
        <4>1. k + 1 \in Int /\ n \in Int
          BY <3>1
        <4>2. Cardinality(k + 1 .. n) = IF k + 1 > n THEN 0 ELSE n - (k + 1) + 1
          BY <4>1, FS_Interval
        <4> QED BY <3>1, <3>2, <3>4, <4>2
      <3> QED BY <3>3, <3>5 DEF g
    <2>7. req.card \in DOMAIN card =>
            req.card \in DOMAIN saved.card /\ PacksOf(req.card) # {}
      <3> SUFFICES ASSUME req.card \in DOMAIN card
                   PROVE  req.card \in DOMAIN saved.card /\ PacksOf(req.card) # {}
        OBVIOUS
      <3>1. PICK q \in PacksOf(req.card) : TRUE
        BY <2>1, <2>2 DEF Removing, Remains, ErasedIn
      <3>2. q \in DOMAIN saved.pack /\ saved.pack[q].card = req.card
        BY <2>2, <3>1 DEF Removing, PacksOf
      <3>3. Orphanless(saved)
        BY <1>1 DEF IInv, Stores, NoOrphans
      <3> QED BY <3>1, <3>2, <3>3 DEF Orphanless
    <2>8. req.pack # 0 => Gone \subseteq {req.pack}
      BY <2>2 DEF Removing
    <2> QED BY <2>5, <2>6, <2>7, <2>8 DEF Gone, EntryOf
  <1>2. Init => IInv /\ RInv
    BY InitKeeps DEF Init, RInv, CleanRemoval, Idle, Image
  <1>3. IInv /\ RInv /\ [Next]_vars => IInv' /\ RInv'
    BY NextKeeps, RemovalStep
  <1>4. IInv /\ RInv =>
          (Clean /\ req.op = "-" =>
             /\ \A p \in DOMAIN saved.pack \ DOMAIN pack : \E i \in NewEntries :
                  journal[i] = [op |-> "-", pack |-> p, value |-> saved.pack[p].qty]
             /\ Cardinality(NewEntries) = Cardinality(DOMAIN saved.pack \ DOMAIN pack)
             /\ req.pack # 0 => DOMAIN saved.pack \ DOMAIN pack \subseteq {req.pack}
             /\ req.card \in DOMAIN card =>
                  req.card \in DOMAIN saved.card /\ PacksOf(req.card) # {})
    BY <1>1
  <1> QED BY <1>2, <1>3, <1>4, PTL DEF Spec, RemovalLogged

----------------------------------------------------------------------------
(* A card sent back with all its packages, when no call fails: each package *)
(* sent is there already, untouched by the calls left, or is written by     *)
(* one of them; and nothing else of the card stays.                         *)

OneToOne(f, A, B) ==
  /\ f \in [A -> B]
  /\ \A x, y \in A : f[x] = f[y] => x = y
  /\ \A z \in B : \E x \in A : f[x] = z

\* The packages the card is to have, by their places in the request.
ToHave(r) == {j \in DOMAIN r.packs : r.packs[j].qty # 0}
Like(row, q) == row.box = q.box /\ row.qty = q.qty

EditCalls(c) ==
  Quiet(c, Nat) \cup [table : {"card"}, do : {"update"}, id : {c}, row : CardRow]

\* The calls that write a package, those that change a row, and which rows.
Writes(s) == {k \in DOMAIN s : s[k].table = "pack" /\ s[k].do \in {"insert", "update"}}
Changes(s, t) == {k \in DOMAIN s : s[k].table = t /\ s[k].do \in {"update", "erase"}}
Changed(s, t) == {s[k].id : k \in Changes(s, t)}
Kept == {"pack", "prop"}

\* The calls write the packages at D, each once, and change no row twice.
Supplies(h, s, r, D) ==
  OneToOne(h, Writes(s), D) /\ \A k \in Writes(s) : Like(s[k].row, r.packs[h[k]])
Plan(s, r, D) ==
  /\ s \in Seq(EditCalls(r.card))
  /\ \A t \in Kept : \A k, l \in Changes(s, t) : s[k].id = s[l].id => k = l
  /\ \E h : Supplies(h, s, r, D)

\* Those not at D are there and stay as they are.
Stays(g, U, r, D) ==
  OneToOne(g, U, ToHave(r) \ D) /\ \A p \in U : Like(pack[p], r.packs[g[p]])
Sees(s, r, D) ==
  /\ r.card \in DOMAIN card
  /\ Changed(s, "pack") \subseteq PacksOf(r.card) /\ Changed(s, "prop") \subseteq DOMAIN prop
  /\ \E g : Stays(g, PacksOf(r.card) \ Changed(s, "pack"), r, D)

CleanEdit ==
  ~Idle /\ faults = 0 /\ req.op = "=" /\ req.pack = 0 /\ req.card \in DOMAIN saved.card

EditInv ==
  CleanEdit => \E D \in SUBSET ToHave(req) : Plan(todo, req, D) /\ Sees(todo, req, D)

\* Where each call of a list comes from, when the list is made of others.
LaidOut(s, ss, blk, off) ==
  /\ \A k \in DOMAIN s : /\ blk[k] \in DOMAIN ss /\ off[k] \in DOMAIN ss[blk[k]]
                         /\ s[k] = ss[blk[k]][off[k]]
  /\ \A k, l \in DOMAIN s : blk[k] = blk[l] /\ off[k] = off[l] => k = l
  /\ \A i \in DOMAIN ss : \A j \in DOMAIN ss[i] :
       \E k \in DOMAIN s : blk[k] = i /\ off[k] = j

LEMMA FlatLaid ==
  ASSUME NEW T, NEW ss \in Seq(Seq(T))
  PROVE  \E blk, off : LaidOut(FlattenSeq(ss), ss, blk, off)
  <1> DEFINE s == FlattenSeq(ss)
  <1>1. PICK at \in [DOMAIN ss -> Nat] :
           /\ \A i \in DOMAIN ss : \A j \in DOMAIN ss[i] :
                at[i] + j \in DOMAIN s /\ s[at[i] + j] = ss[i][j]
           /\ \A k \in DOMAIN s :
                \E i \in DOMAIN ss : \E j \in DOMAIN ss[i] : k = at[i] + j
           /\ \A i, j \in DOMAIN ss : i < j => at[i] + Len(ss[i]) <= at[j]
    BY FlattenIs
  <1>2. /\ Len(ss) \in Nat /\ DOMAIN ss = 1 .. Len(ss)
        /\ \A i \in DOMAIN ss : ss[i] \in Seq(T)
    OBVIOUS
  <1>3. \A i \in DOMAIN ss : at[i] \in Nat /\ Len(ss[i]) \in Nat /\ DOMAIN ss[i] = 1 .. Len(ss[i])
    BY <1>1, <1>2
  <1> HIDE DEF s
  <1> DEFINE blk == [k \in DOMAIN s |->
                       CHOOSE i \in DOMAIN ss : \E j \in DOMAIN ss[i] : k = at[i] + j]
             off == [k \in DOMAIN s |-> k - at[blk[k]]]
  <1>4. ASSUME NEW i \in DOMAIN ss, NEW j \in DOMAIN ss[i],
               NEW l \in DOMAIN ss, NEW m \in DOMAIN ss[l], at[i] + j = at[l] + m
        PROVE  i = l
    <2>1. /\ at[i] \in Nat /\ at[l] \in Nat /\ Len(ss[i]) \in Nat /\ Len(ss[l]) \in Nat
          /\ j \in 1 .. Len(ss[i]) /\ m \in 1 .. Len(ss[l])
      BY <1>3
    <2>2. ~(i < l)
      <3> SUFFICES ASSUME i < l PROVE FALSE
        OBVIOUS
      <3>1. at[i] + Len(ss[i]) <= at[l]
        BY <1>1
      <3> QED BY <1>4, <2>1, <3>1
    <2>3. ~(l < i)
      <3> SUFFICES ASSUME l < i PROVE FALSE
        OBVIOUS
      <3>1. at[l] + Len(ss[l]) <= at[i]
        BY <1>1
      <3> QED BY <1>4, <2>1, <3>1
    <2> QED BY <1>2, <2>2, <2>3
  <1>5. ASSUME NEW k \in DOMAIN s
        PROVE  /\ blk[k] \in DOMAIN ss /\ off[k] \in DOMAIN ss[blk[k]]
               /\ k = at[blk[k]] + off[k]
    <2> DEFINE i == blk[k]
    <2>1. i \in DOMAIN ss /\ \E j \in DOMAIN ss[i] : k = at[i] + j
      BY <1>1
    <2>2. PICK j \in DOMAIN ss[i] : k = at[i] + j
      BY <2>1
    <2>3. off[k] = k - at[i]
      OBVIOUS
    <2> HIDE DEF i, off
    <2>4. at[i] \in Nat /\ j \in Nat
      BY <1>3, <2>1, <2>2
    <2>5. off[k] = j
      BY <2>2, <2>3, <2>4
    <2> QED BY <2>1, <2>2, <2>5 DEF i
  <1> HIDE DEF blk, off
  <1>6. ASSUME NEW i \in DOMAIN ss, NEW j \in DOMAIN ss[i]
        PROVE  \E k \in DOMAIN s : blk[k] = i /\ off[k] = j
    <2>1. PICK k \in DOMAIN s : k = at[i] + j
      BY <1>1
    <2>2. blk[k] = i
      BY <1>4, <1>5, <2>1
    <2>3. /\ k = at[i] + off[k] /\ off[k] \in DOMAIN ss[i]
      BY <1>5, <2>2
    <2>4. at[i] \in Nat /\ j \in Nat /\ off[k] \in Nat
      BY <1>3, <2>3
    <2>5. off[k] = j
      BY <2>1, <2>3, <2>4
    <2> QED BY <2>2, <2>5
  <1>7. LaidOut(s, ss, blk, off)
    <2>1. \A k \in DOMAIN s : s[k] = ss[blk[k]][off[k]]
      BY <1>1, <1>5
    <2>2. \A k, l \in DOMAIN s : blk[k] = blk[l] /\ off[k] = off[l] => k = l
      BY <1>5
    <2> QED BY <1>5, <1>6, <2>1, <2>2 DEF LaidOut
  <1> QED BY <1>7 DEF s

LEMMA JoinLaid ==
  ASSUME NEW T, NEW a \in Seq(T), NEW b \in Seq(T)
  PROVE  \E blk, off : LaidOut(a \o b, <<a, b>>, blk, off)
  <1> DEFINE s == a \o b
             ss == <<a, b>>
             n == Len(a)
             m == Len(b)
  <1>1. /\ n \in Nat /\ m \in Nat /\ DOMAIN a = 1 .. n /\ DOMAIN b = 1 .. m
        /\ DOMAIN s = 1 .. n + m
        /\ \A k \in 1 .. n + m : s[k] = IF k <= n THEN a[k] ELSE b[k - n]
    <2>1. s \in Seq(T) /\ Len(s) = n + m
      BY ConcatProperties
    <2>2. \A k \in 1 .. n + m : s[k] = IF k <= n THEN a[k] ELSE b[k - n]
      BY ConcatProperties
    <2> HIDE DEF s
    <2> QED BY <2>1, <2>2
  <1>2. DOMAIN ss = {1, 2} /\ ss[1] = a /\ ss[2] = b
    OBVIOUS
  <1> HIDE DEF s, ss, n, m
  <1> DEFINE blk == [k \in DOMAIN s |-> IF k <= n THEN 1 ELSE 2]
             off == [k \in DOMAIN s |-> IF k <= n THEN k ELSE k - n]
  <1>3. ASSUME NEW k \in DOMAIN s
        PROVE  \/ k <= n /\ k \in DOMAIN a /\ blk[k] = 1 /\ off[k] = k /\ s[k] = a[k]
               \/ ~(k <= n) /\ k - n \in DOMAIN b /\ blk[k] = 2 /\ off[k] = k - n /\ s[k] = b[k - n]
    <2>1. k \in 1 .. n + m
      BY <1>1
    <2>2. CASE k <= n
      BY <1>1, <2>1, <2>2
    <2>3. CASE ~(k <= n)
      BY <1>1, <2>1, <2>3
    <2> QED BY <2>2, <2>3
  <1> HIDE DEF blk, off
  <1>4. ASSUME NEW k \in DOMAIN s, NEW l \in DOMAIN s, blk[k] = blk[l], off[k] = off[l]
        PROVE  k = l
    <2>1. k \in Nat /\ l \in Nat
      BY <1>1
    <2> QED BY <1>1, <1>3, <1>4, <2>1
  <1>5. ASSUME NEW j \in DOMAIN a
        PROVE  \E k \in DOMAIN s : blk[k] = 1 /\ off[k] = j
    <2>1. j \in DOMAIN s /\ j <= n
      BY <1>1
    <2> QED BY <1>3, <2>1
  <1>6. ASSUME NEW j \in DOMAIN b
        PROVE  \E k \in DOMAIN s : blk[k] = 2 /\ off[k] = j
    <2> DEFINE k == n + j
    <2>1. k \in DOMAIN s /\ ~(k <= n) /\ k - n = j
      BY <1>1
    <2> HIDE DEF k
    <2>2. blk[k] = 2 /\ off[k] = k - n
      BY <1>3, <2>1
    <2> QED BY <2>1, <2>2
  <1>7. ASSUME NEW k \in DOMAIN s
        PROVE  blk[k] \in DOMAIN ss /\ off[k] \in DOMAIN ss[blk[k]] /\ s[k] = ss[blk[k]][off[k]]
    BY <1>2, <1>3
  <1>8. \A i \in DOMAIN ss : \A j \in DOMAIN ss[i] :
          \E k \in DOMAIN s : blk[k] = i /\ off[k] = j
    BY <1>2, <1>5, <1>6
  <1>9. LaidOut(s, ss, blk, off)
    BY <1>4, <1>7, <1>8 DEF LaidOut
  <1> QED BY <1>9 DEF s, ss

\* Lists that write different packages and change different rows.
Plans(ss, r, DD) ==
  /\ \A i \in DOMAIN ss : Plan(ss[i], r, DD[i])
  /\ \A i, j \in DOMAIN ss : i # j =>
       /\ DD[i] \cap DD[j] = {}
       /\ \A t \in Kept : Changed(ss[i], t) \cap Changed(ss[j], t) = {}
ChangedByAny(s, ss) ==
  \A t \in Kept : \A x :
    x \in Changed(s, t) <=> \E i \in DOMAIN ss : x \in Changed(ss[i], t)

\* A list made of such lists.
LEMMA PlanOfLists ==
  ASSUME NEW r, NEW s \in Seq(EditCalls(r.card)), NEW ss, NEW blk, NEW off,
         LaidOut(s, ss, blk, off), NEW DD, Plans(ss, r, DD),
         NEW D, \A z : z \in D <=> \E i \in DOMAIN ss : z \in DD[i]
  PROVE  Plan(s, r, D) /\ ChangedByAny(s, ss)
  <1>0. /\ \A i \in DOMAIN ss : Plan(ss[i], r, DD[i])
        /\ \A i, j \in DOMAIN ss : i # j =>
             /\ DD[i] \cap DD[j] = {}
             /\ \A t \in Kept : Changed(ss[i], t) \cap Changed(ss[j], t) = {}
    BY DEF Plans
  <1> DEFINE hh == [i \in DOMAIN ss |-> CHOOSE h : Supplies(h, ss[i], r, DD[i])]
             h == [k \in Writes(s) |-> hh[blk[k]][off[k]]]
  <1>1. \A i \in DOMAIN ss : Supplies(hh[i], ss[i], r, DD[i])
    <2> SUFFICES ASSUME NEW i \in DOMAIN ss
                 PROVE  Supplies(hh[i], ss[i], r, DD[i])
      OBVIOUS
    <2>1. \E f : Supplies(f, ss[i], r, DD[i])
      BY <1>0 DEF Plan
    <2>2. Supplies(CHOOSE f : Supplies(f, ss[i], r, DD[i]), ss[i], r, DD[i])
      BY <2>1, Zenon
    <2> QED BY <2>2
  <1> HIDE DEF hh
  <1>2. ASSUME NEW i \in DOMAIN ss
        PROVE  /\ \A k \in Writes(ss[i]) : /\ hh[i][k] \in DD[i]
                                           /\ Like(ss[i][k].row, r.packs[hh[i][k]])
               /\ \A k, l \in Writes(ss[i]) : hh[i][k] = hh[i][l] => k = l
               /\ \A z \in DD[i] : \E k \in Writes(ss[i]) : hh[i][k] = z
    BY <1>1 DEF Supplies, OneToOne
  <1>3. /\ \A k \in DOMAIN s : /\ blk[k] \in DOMAIN ss /\ off[k] \in DOMAIN ss[blk[k]]
                               /\ s[k] = ss[blk[k]][off[k]]
        /\ \A k, l \in DOMAIN s : blk[k] = blk[l] /\ off[k] = off[l] => k = l
        /\ \A i \in DOMAIN ss : \A j \in DOMAIN ss[i] :
             \E k \in DOMAIN s : blk[k] = i /\ off[k] = j
    BY DEF LaidOut
  <1>4. \A k \in Writes(s) : k \in DOMAIN s /\ off[k] \in Writes(ss[blk[k]])
    BY <1>3 DEF Writes
  <1>5. ASSUME NEW i \in DOMAIN ss, NEW j \in Writes(ss[i])
        PROVE  \E k \in Writes(s) : blk[k] = i /\ off[k] = j
    <2>1. j \in DOMAIN ss[i]
      BY DEF Writes
    <2>2. PICK k \in DOMAIN s : blk[k] = i /\ off[k] = j
      BY <1>3, <2>1
    <2>3. s[k] = ss[i][j]
      BY <1>3, <2>2
    <2> QED BY <2>2, <2>3 DEF Writes
  <1>6. \A t : \A k \in Changes(s, t) : k \in DOMAIN s /\ off[k] \in Changes(ss[blk[k]], t)
    BY <1>3 DEF Changes
  <1>17. ASSUME NEW t, NEW i \in DOMAIN ss, NEW j \in Changes(ss[i], t)
         PROVE  \E k \in Changes(s, t) : s[k] = ss[i][j]
    <2>1. j \in DOMAIN ss[i]
      BY DEF Changes
    <2>2. PICK k \in DOMAIN s : blk[k] = i /\ off[k] = j
      BY <1>3, <2>1
    <2>3. s[k] = ss[i][j]
      BY <1>3, <2>2
    <2> QED BY <2>2, <2>3 DEF Changes
  <1>7. \A k \in Writes(s) : h[k] = hh[blk[k]][off[k]]
    OBVIOUS
  <1>8. h = [k \in Writes(s) |-> h[k]]
    OBVIOUS
  <1> HIDE DEF h
  <1>9. ASSUME NEW k \in Writes(s)
        PROVE  h[k] \in DD[blk[k]] /\ Like(s[k].row, r.packs[h[k]])
    BY <1>2, <1>3, <1>4, <1>7
  <1>10. ASSUME NEW k \in Writes(s), NEW l \in Writes(s), h[k] = h[l]
         PROVE  k = l
    <2>1. /\ k \in DOMAIN s /\ l \in DOMAIN s
          /\ blk[k] \in DOMAIN ss /\ blk[l] \in DOMAIN ss
      BY <1>3, <1>4
    <2>2. h[k] \in DD[blk[k]] /\ h[k] \in DD[blk[l]]
      BY <1>9, <1>10
    <2>3. blk[k] = blk[l]
      BY <1>0, <2>1, <2>2
    <2>4. off[k] = off[l]
      BY <1>2, <1>4, <1>7, <1>10, <2>1, <2>3
    <2> QED BY <1>3, <2>1, <2>3, <2>4
  <1>11. ASSUME NEW z \in D
         PROVE  \E k \in Writes(s) : h[k] = z
    <2>1. PICK i \in DOMAIN ss : z \in DD[i]
      OBVIOUS
    <2>2. PICK j \in Writes(ss[i]) : hh[i][j] = z
      BY <1>2, <2>1
    <2>3. PICK k \in Writes(s) : blk[k] = i /\ off[k] = j
      BY <1>5
    <2> QED BY <1>7, <2>2, <2>3
  <1>12. h \in [Writes(s) -> D]
    <2>1. \A k \in Writes(s) : h[k] \in D
      BY <1>3, <1>4, <1>9
    <2> QED BY <1>8, <2>1
  <1>13. Supplies(h, s, r, D)
    BY <1>9, <1>10, <1>11, <1>12 DEF Supplies, OneToOne
  <1>14. ASSUME NEW t \in Kept, NEW k \in Changes(s, t), NEW l \in Changes(s, t), s[k].id = s[l].id
         PROVE  k = l
    <2> DEFINE i == blk[k]
               j == blk[l]
    <2>1. /\ k \in DOMAIN s /\ l \in DOMAIN s /\ i \in DOMAIN ss /\ j \in DOMAIN ss
          /\ off[k] \in Changes(ss[i], t) /\ off[l] \in Changes(ss[j], t)
          /\ s[k] = ss[i][off[k]] /\ s[l] = ss[j][off[l]]
      BY <1>3, <1>6
    <2> HIDE DEF i, j
    <2>2. s[k].id \in Changed(ss[i], t) /\ s[k].id \in Changed(ss[j], t)
      BY <1>14, <2>1 DEF Changed
    <2>3. i = j
      BY <1>0, <2>1, <2>2
    <2>4. off[k] = off[l]
      BY <1>0, <1>14, <2>1, <2>3 DEF Plan
    <2> QED BY <1>3, <2>1, <2>3, <2>4 DEF i, j
  <1>15. Plan(s, r, D)
    BY <1>13, <1>14 DEF Plan
  <1>16. ASSUME NEW t \in Kept
         PROVE  \A x : x \in Changed(s, t) <=> \E i \in DOMAIN ss : x \in Changed(ss[i], t)
    <2>1. ASSUME NEW x \in Changed(s, t)
          PROVE  \E i \in DOMAIN ss : x \in Changed(ss[i], t)
      <3>1. PICK k \in Changes(s, t) : x = s[k].id
        BY DEF Changed
      <3>2. /\ off[k] \in Changes(ss[blk[k]], t) /\ blk[k] \in DOMAIN ss
            /\ s[k] = ss[blk[k]][off[k]]
        BY <1>3, <1>6
      <3> QED BY <3>1, <3>2 DEF Changed
    <2>2. ASSUME NEW i \in DOMAIN ss, NEW x \in Changed(ss[i], t)
          PROVE  x \in Changed(s, t)
      <3>1. PICK j \in Changes(ss[i], t) : x = ss[i][j].id
        BY DEF Changed
      <3>2. PICK k \in Changes(s, t) : s[k] = ss[i][j]
        BY <1>17
      <3> QED BY <3>1, <3>2 DEF Changed
    <2> QED BY <2>1, <2>2
  <1> QED BY <1>15, <1>16 DEF ChangedByAny

ChangeApart(a, b) == \A t \in Kept : Changed(a, t) \cap Changed(b, t) = {}

LEMMA PlanJoined ==
  ASSUME NEW r, NEW a, NEW b, NEW A, NEW B, Plan(a, r, A), Plan(b, r, B), A \cap B = {},
         ChangeApart(a, b)
  PROVE  /\ Plan(a \o b, r, A \cup B)
         /\ \A t \in Kept : Changed(a \o b, t) = Changed(a, t) \cup Changed(b, t)
  <1> DEFINE ss == <<a, b>>
             DD == <<A, B>>
             T == EditCalls(r.card)
  <1>1. a \in Seq(T) /\ b \in Seq(T)
    BY DEF Plan
  <1> HIDE DEF T
  <1>2. a \o b \in Seq(T)
    BY <1>1
  <1>3. PICK blk, off : LaidOut(a \o b, ss, blk, off)
    BY <1>1, JoinLaid
  <1>4. DOMAIN ss = {1, 2} /\ ss[1] = a /\ ss[2] = b /\ DD[1] = A /\ DD[2] = B
    OBVIOUS
  <1> HIDE DEF ss, DD
  <1>5. Plans(ss, r, DD)
    BY <1>4 DEF Plans, ChangeApart
  <1> DEFINE D == A \cup B
  <1>6. \A z : z \in D <=> \E i \in DOMAIN ss : z \in DD[i]
    BY <1>4
  <1> HIDE DEF D
  <1>7. PICK s : s = a \o b
    OBVIOUS
  <1>8. s \in Seq(EditCalls(r.card)) /\ LaidOut(s, ss, blk, off)
    BY <1>2, <1>3, <1>7 DEF T
  <1>9. Plan(s, r, D) /\ ChangedByAny(s, ss)
    BY <1>5, <1>6, <1>8, PlanOfLists
  <1>10. \A t \in Kept : Changed(s, t) = Changed(a, t) \cup Changed(b, t)
    BY <1>4, <1>9 DEF ChangedByAny
  <1> QED BY <1>7, <1>9, <1>10 DEF D

\* No call, and one.
LEMMA PlanNothing ==
  ASSUME NEW r
  PROVE  Plan(<<>>, r, {}) /\ \A t : Changed(<<>>, t) = {}
  <1> DEFINE h == [k \in {} |-> k]
  <1>1. Writes(<<>>) = {} /\ \A t : Changes(<<>>, t) = {}
    BY DEF Writes, Changes
  <1>2. OneToOne(h, {}, {})
    BY DEF OneToOne
  <1> HIDE DEF h
  <1>3. Supplies(h, <<>>, r, {})
    BY <1>1, <1>2 DEF Supplies
  <1>4. <<>> \in Seq(EditCalls(r.card))
    OBVIOUS
  <1>5. Plan(<<>>, r, {})
    BY <1>1, <1>3, <1>4 DEF Plan
  <1> QED BY <1>1, <1>5 DEF Changed

LEMMA PlanOne ==
  ASSUME NEW r, NEW w \in EditCalls(r.card), NEW D,
         IF w.table = "pack" /\ w.do \in {"insert", "update"}
         THEN \E j : D = {j} /\ Like(w.row, r.packs[j]) ELSE D = {}
  PROVE  /\ Plan(<<w>>, r, D)
         /\ \A t : Changed(<<w>>, t) =
                     IF w.table = t /\ w.do \in {"update", "erase"} THEN {w.id} ELSE {}
  <1> DEFINE s == <<w>>
  <1>1. s \in Seq(EditCalls(r.card)) /\ DOMAIN s = {1} /\ s[1] = w
    <2>1. \A T : w \in T => <<w>> \in Seq(T)
      OBVIOUS
    <2> QED BY <2>1
  <1> HIDE DEF s
  <1>2. \A t : Changes(s, t) = IF w.table = t /\ w.do \in {"update", "erase"} THEN {1} ELSE {}
    BY <1>1 DEF Changes
  <1>3. Writes(s) = IF w.table = "pack" /\ w.do \in {"insert", "update"} THEN {1} ELSE {}
    BY <1>1 DEF Writes
  <1>4. \E h : Supplies(h, s, r, D)
    <2>1. CASE w.table = "pack" /\ w.do \in {"insert", "update"}
      <3>1. PICK j : D = {j} /\ Like(w.row, r.packs[j])
        BY <2>1
      <3> DEFINE h == [k \in {1} |-> j]
      <3>2. OneToOne(h, {1}, {j}) /\ h[1] = j
        BY DEF OneToOne
      <3> HIDE DEF h
      <3>3. Supplies(h, s, r, D)
        BY <1>1, <1>3, <2>1, <3>1, <3>2 DEF Supplies
      <3> QED BY <3>3
    <2>2. CASE ~(w.table = "pack" /\ w.do \in {"insert", "update"})
      <3> DEFINE h == [k \in {} |-> k]
      <3>1. OneToOne(h, {}, {})
        BY DEF OneToOne
      <3> HIDE DEF h
      <3>2. Supplies(h, s, r, D)
        BY <1>3, <2>2, <3>1 DEF Supplies
      <3> QED BY <3>2
    <2> QED BY <2>1, <2>2
  <1>5. Plan(s, r, D)
    BY <1>1, <1>2, <1>4 DEF Plan
  <1>6. \A t : Changed(s, t) = IF w.table = t /\ w.do \in {"update", "erase"} THEN {w.id} ELSE {}
    BY <1>1, <1>2 DEF Changed
  <1> QED BY <1>5, <1>6 DEF s

\* A list, the packages of the request it writes, and the rows it changes.
Does(s, r, D, P, X) == Plan(s, r, D) /\ Changed(s, "pack") = P /\ Changed(s, "prop") = X

LEMMA DoesJoined ==
  ASSUME NEW r, NEW a, NEW b, NEW A, NEW B, NEW P, NEW Q, NEW X, NEW Y,
         Does(a, r, A, P, X), Does(b, r, B, Q, Y),
         A \cap B = {}, P \cap Q = {}, X \cap Y = {}
  PROVE  Does(a \o b, r, A \cup B, P \cup Q, X \cup Y)
  <1>1. /\ Plan(a, r, A) /\ Plan(b, r, B)
        /\ Changed(a, "pack") = P /\ Changed(b, "pack") = Q
        /\ Changed(a, "prop") = X /\ Changed(b, "prop") = Y
    BY DEF Does
  <1>2. ChangeApart(a, b)
    BY <1>1 DEF Kept, ChangeApart
  <1>3. /\ Plan(a \o b, r, A \cup B)
        /\ \A t \in Kept : Changed(a \o b, t) = Changed(a, t) \cup Changed(b, t)
    BY <1>1, <1>2, PlanJoined
  <1> QED BY <1>1, <1>3 DEF Does, Kept

LEMMA DoesOne ==
  ASSUME NEW r, NEW w \in EditCalls(r.card), NEW D, NEW P, NEW X,
         IF w.table = "pack" /\ w.do \in {"insert", "update"}
         THEN \E j : D = {j} /\ Like(w.row, r.packs[j]) ELSE D = {},
         P = IF w.table = "pack" /\ w.do \in {"update", "erase"} THEN {w.id} ELSE {},
         X = IF w.table = "prop" /\ w.do \in {"update", "erase"} THEN {w.id} ELSE {}
  PROVE  Does(<<w>>, r, D, P, X)
  <1>1. /\ Plan(<<w>>, r, D)
        /\ \A t : Changed(<<w>>, t) =
                    IF w.table = t /\ w.do \in {"update", "erase"} THEN {w.id} ELSE {}
    BY PlanOne
  <1> QED BY <1>1 DEF Does

LEMMA DoesNothing ==
  ASSUME NEW r
  PROVE  Does(<<>>, r, {}, {}, {})
  BY PlanNothing DEF Does

LEMMA QuietCall ==
  ASSUME NEW c, NEW w, <<w>> \in Seq(Quiet(c, Nat))
  PROVE  w \in EditCalls(c)
  <1> DEFINE T == Quiet(c, Nat)
  <1>1. \A s \in Seq(T) : 1 \in DOMAIN s => s[1] \in T
    BY ElementOf
  <1> HIDE DEF T
  <1>2. <<w>> \in Seq(T)
    BY DEF T
  <1>3. w \in T
    BY <1>1, <1>2
  <1> QED BY <1>3 DEF T, EditCalls

\* What each call of an edit does.
LEMMA PropCallsDo ==
  ASSUME NEW r, NEW x \in Nat, NEW row \in PropOf(r.card)
  PROVE  /\ Does(Update("prop", x, row), r, {}, {}, {x})
         /\ Does(Insert("prop", row), r, {}, {}, {})
  <1> DEFINE c == r.card
             v == [table |-> "prop", do |-> "update", id |-> x, row |-> row]
             w == [table |-> "prop", do |-> "insert", id |-> 0, row |-> row]
  <1>1. Update("prop", x, row) = <<v>> /\ Insert("prop", row) = <<w>>
    BY DEF Update, Insert
  <1>2. Update("prop", x, row) \in Seq(Quiet(c, Nat)) /\ Insert("prop", row) \in Seq(Quiet(c, Nat))
    BY CallsAre
  <1>3. /\ v.table = "prop" /\ v.do = "update" /\ v.id = x
        /\ w.table = "prop" /\ w.do = "insert"
    OBVIOUS
  <1> HIDE DEF v, w
  <1>4. v \in EditCalls(c) /\ w \in EditCalls(c)
    BY <1>1, <1>2, QuietCall
  <1>5. Does(<<v>>, r, {}, {}, {x})
    BY <1>3, <1>4, DoesOne
  <1>6. Does(<<w>>, r, {}, {}, {})
    BY <1>3, <1>4, DoesOne
  <1> QED BY <1>1, <1>5, <1>6

LEMMA PackCallsDo ==
  ASSUME NEW r, NEW p \in Nat, NEW row \in PackOf(r.card), NEW j, Like(row, r.packs[j])
  PROVE  /\ Does(Update("pack", p, row), r, {j}, {p}, {})
         /\ Does(Insert("pack", row), r, {j}, {}, {})
  <1> DEFINE c == r.card
             v == [table |-> "pack", do |-> "update", id |-> p, row |-> row]
             w == [table |-> "pack", do |-> "insert", id |-> 0, row |-> row]
  <1>1. Update("pack", p, row) = <<v>> /\ Insert("pack", row) = <<w>>
    BY DEF Update, Insert
  <1>2. Update("pack", p, row) \in Seq(Quiet(c, Nat)) /\ Insert("pack", row) \in Seq(Quiet(c, Nat))
    BY CallsAre
  <1>3. /\ v.table = "pack" /\ v.do = "update" /\ v.id = p /\ v.row = row
        /\ w.table = "pack" /\ w.do = "insert" /\ w.row = row
    OBVIOUS
  <1> HIDE DEF v, w
  <1>4. v \in EditCalls(c) /\ w \in EditCalls(c)
    BY <1>1, <1>2, QuietCall
  <1>5. Does(<<v>>, r, {j}, {p}, {})
    BY <1>3, <1>4, DoesOne
  <1>6. Does(<<w>>, r, {j}, {}, {})
    BY <1>3, <1>4, DoesOne
  <1> QED BY <1>1, <1>5, <1>6

LEMMA OtherCallsDo ==
  ASSUME NEW r, NEW p \in Nat
  PROVE  /\ Does(Erase("pack", p), r, {}, {p}, {})
         /\ Does(Erase("prop", p), r, {}, {}, {p})
         /\ Does(<<[table |-> "end", do |-> "read"]>>, r, {}, {}, {})
         /\ \A op \in OpSymbol, n \in Qty : Does(Log(op, p, n), r, {}, {}, {})
         /\ \A row \in CardRow : Does(Update("card", r.card, row), r, {}, {}, {})
  <1> DEFINE c == r.card
             u == [table |-> "pack", do |-> "erase", id |-> p, row |-> <<>>]
             x == [table |-> "prop", do |-> "erase", id |-> p, row |-> <<>>]
             v == [table |-> "end", do |-> "read"]
  <1>1. Erase("pack", p) = <<u>> /\ Erase("prop", p) = <<x>>
    BY DEF Erase
  <1>2. <<u>> \in Seq(Quiet(c, Nat)) /\ <<x>> \in Seq(Quiet(c, Nat)) /\ <<v>> \in Seq(Quiet(c, Nat))
    BY <1>1, CallsAre
  <1>3. /\ u.table = "pack" /\ u.do = "erase" /\ u.id = p
        /\ x.table = "prop" /\ x.do = "erase" /\ x.id = p
        /\ v.table = "end" /\ v.do = "read"
    OBVIOUS
  <1> HIDE DEF u, x, v
  <1>4. u \in EditCalls(c) /\ x \in EditCalls(c) /\ v \in EditCalls(c)
    BY <1>2, QuietCall
  <1>5. Does(<<u>>, r, {}, {p}, {})
    BY <1>3, <1>4, DoesOne
  <1>9. Does(<<x>>, r, {}, {}, {p})
    BY <1>3, <1>4, DoesOne
  <1>6. Does(<<v>>, r, {}, {}, {})
    BY <1>3, <1>4, DoesOne
  <1>7. ASSUME NEW op \in OpSymbol, NEW n \in Qty
        PROVE  Does(Log(op, p, n), r, {}, {}, {})
    <2> DEFINE w == [table |-> "log", do |-> "insert", id |-> 0,
                     row |-> [op |-> op, pack |-> p, value |-> n]]
    <2>1. Log(op, p, n) = <<w>>
      BY DEF Log, Insert
    <2>2. Log(op, p, n) \in Seq(Quiet(c, Nat))
      BY CallsAre
    <2>3. w.table = "log"
      OBVIOUS
    <2> HIDE DEF w
    <2>4. w \in EditCalls(c)
      BY <2>1, <2>2, QuietCall
    <2> QED BY <2>1, <2>3, <2>4, DoesOne
  <1>8. ASSUME NEW row \in CardRow
        PROVE  Does(Update("card", r.card, row), r, {}, {}, {})
    <2> DEFINE w == [table |-> "card", do |-> "update", id |-> c, row |-> row]
    <2>1. Update("card", c, row) = <<w>>
      BY DEF Update
    <2>2. w.table = "card" /\ w \in EditCalls(c)
      BY DEF EditCalls
    <2> HIDE DEF w
    <2> QED BY <2>1, <2>2, DoesOne
  <1> QED BY <1>1, <1>5, <1>6, <1>7, <1>8, <1>9 DEF v

\* The lists made for the elements of another, one after the other.
AllOf(SS, I) == UNION {SS[i] : i \in I}
DoAll(ss, r, DD, PP, XX) ==
  /\ \A i \in DOMAIN ss : Does(ss[i], r, DD[i], PP[i], XX[i])
  /\ \A i, j \in DOMAIN ss : i # j =>
       DD[i] \cap DD[j] = {} /\ PP[i] \cap PP[j] = {} /\ XX[i] \cap XX[j] = {}

LEMMA DoesAll ==
  ASSUME NEW r, NEW X, NEW s \in Seq(X), NEW ss, ss = [i \in DOMAIN s |-> ss[i]],
         NEW DD, NEW PP, NEW XX, DoAll(ss, r, DD, PP, XX)
  PROVE  Does(FlattenSeq(ss), r, AllOf(DD, DOMAIN s), AllOf(PP, DOMAIN s), AllOf(XX, DOMAIN s))
  <1> DEFINE T == EditCalls(r.card)
             D == AllOf(DD, DOMAIN s)
             P == AllOf(PP, DOMAIN s)
             Y == AllOf(XX, DOMAIN s)
  <1>1. DOMAIN ss = DOMAIN s
    OBVIOUS
  <1>2. /\ \A i \in DOMAIN ss : /\ Plan(ss[i], r, DD[i])
                               /\ Changed(ss[i], "pack") = PP[i] /\ Changed(ss[i], "prop") = XX[i]
        /\ \A i, j \in DOMAIN ss : i # j =>
             DD[i] \cap DD[j] = {} /\ PP[i] \cap PP[j] = {} /\ XX[i] \cap XX[j] = {}
    BY DEF DoAll, Does
  <1>3. \A i \in DOMAIN s : ss[i] \in Seq(T)
    BY <1>1, <1>2 DEF Plan
  <1> HIDE DEF T
  <1>4. ss \in Seq(Seq(T))
    BY <1>3, ListsOf
  <1>5. FlattenSeq(ss) \in Seq(T)
    BY <1>3, FlatOf
  <1>6. PICK blk, off : LaidOut(FlattenSeq(ss), ss, blk, off)
    BY <1>4, FlatLaid
  <1>7. Plans(ss, r, DD)
    BY <1>2 DEF Plans, Kept
  <1>8. \A z : z \in D <=> \E i \in DOMAIN ss : z \in DD[i]
    BY <1>1 DEF AllOf
  <1>9. PICK f : f = FlattenSeq(ss)
    OBVIOUS
  <1>10. f \in Seq(EditCalls(r.card)) /\ LaidOut(f, ss, blk, off)
    BY <1>5, <1>6, <1>9 DEF T
  <1>11. Plan(f, r, D) /\ ChangedByAny(f, ss)
    <2> HIDE DEF D
    <2> QED BY <1>7, <1>8, <1>10, PlanOfLists
  <1>12. Changed(f, "pack") = P /\ Changed(f, "prop") = Y
    <2>1. \A x : x \in Changed(f, "pack") <=> \E i \in DOMAIN ss : x \in PP[i]
      BY <1>2, <1>11 DEF ChangedByAny, Kept
    <2>2. \A x : x \in Changed(f, "prop") <=> \E i \in DOMAIN ss : x \in XX[i]
      BY <1>2, <1>11 DEF ChangedByAny, Kept
    <2> QED BY <1>1, <2>1, <2>2 DEF AllOf
  <1> HIDE DEF D, P, Y
  <1>13. Does(f, r, D, P, Y)
    BY <1>11, <1>12 DEF Does
  <1> QED BY <1>9, <1>13 DEF D, P, Y

----------------------------------------------------------------------------
(* What an edit does.                                                       *)

\* An empty set for every element.
LEMMA DoesAllPlain ==
  ASSUME NEW r, NEW X, NEW s \in Seq(X), NEW ss, ss = [i \in DOMAIN s |-> ss[i]],
         NEW XX, \A i \in DOMAIN s : Does(ss[i], r, {}, {}, XX[i]),
         \A i, j \in DOMAIN s : i # j => XX[i] \cap XX[j] = {}
  PROVE  Does(FlattenSeq(ss), r, {}, {}, AllOf(XX, DOMAIN s))
  <1> DEFINE none == [i \in DOMAIN s |-> {}]
  <1>1. DOMAIN ss = DOMAIN s /\ \A i \in DOMAIN s : none[i] = {}
    OBVIOUS
  <1>2. AllOf(none, DOMAIN s) = {}
    BY DEF AllOf
  <1> HIDE DEF none
  <1>3. DoAll(ss, r, none, none, XX)
    BY <1>1 DEF DoAll
  <1>4. Does(FlattenSeq(ss), r, AllOf(none, DOMAIN s),
             AllOf(none, DOMAIN s), AllOf(XX, DOMAIN s))
    BY <1>3, DoesAll
  <1> QED BY <1>2, <1>4

\* Properties: rows of the card's own are changed, each at most once.
LEMMA UpdatePropertiesDoes ==
  ASSUME Stores, NEW r, r.props \in Seq([id : Nat, pair : STRING \X STRING])
  PROVE  \E X \in SUBSET PropsOf(r.card) :
           Does(UpdateProperties(r.card, r.props), r, {}, {}, X)
  <1> DEFINE c == r.card
             asked == r.props
             Asked(x) == FirstOf({i \in DOMAIN asked : asked[i].id = x})
             seen == {c : x \in {y \in PropsOf(c) : Asked(y) # {}}}
             Keep(x) == LET v == asked[CHOOSE i \in Asked(x) : TRUE]
                        IN  IF Asked(x) = {} THEN Erase("prop", x)
                            ELSE IF v.pair = prop[x].pair THEN <<>>
                            ELSE Update("prop", x, [card |-> c, pair |-> v.pair])
             New(v) == IF ~Unseen(v.id, seen) THEN <<>>
                       ELSE Insert("prop", [card |-> c, pair |-> v.pair])
             h == InIdOrder(PropsOf(c))
             aa == [i \in DOMAIN h |-> Keep(h[i])]
             bb == [i \in DOMAIN asked |-> New(asked[i])]
             XX == [i \in DOMAIN h |-> Changed(aa[i], "prop")]
             none == [i \in DOMAIN asked |-> {}]
  <1>1. UpdateProperties(c, asked) = FlattenSeq(aa) \o FlattenSeq(bb)
    BY DEF UpdateProperties, ForEach
  <1>2. \A i \in DOMAIN asked : [card |-> c, pair |-> asked[i].pair] \in PropOf(c)
    BY AskedPropIs
  <1>3. /\ h \in Seq(PropsOf(c))
        /\ \A i, j \in DOMAIN h : h[i] = h[j] => i = j
    BY IdsAre, InIdOrderIs
  <1>4. ASSUME NEW x \in PropsOf(c)
        PROVE  \E S \in SUBSET {x} : Does(Keep(x), r, {}, {}, S)
    <2>1. x \in Nat
      BY IdsAre
    <2>2. CASE Asked(x) = {}
      <3>1. Does(Erase("prop", x), r, {}, {}, {x})
        BY <2>1, OtherCallsDo
      <3> QED BY <2>2, <3>1
    <2>3. CASE Asked(x) # {}
      <3> DEFINE i == CHOOSE i \in Asked(x) : TRUE
      <3>1. i \in DOMAIN asked
        BY <2>3, FirstIs
      <3>2. Does(Update("prop", x, [card |-> c, pair |-> asked[i].pair]), r, {}, {}, {x})
        BY <1>2, <2>1, <3>1, PropCallsDo
      <3>3. Does(<<>>, r, {}, {}, {})
        BY DoesNothing
      <3> QED BY <2>3, <3>2, <3>3
    <2> QED BY <2>2, <2>3
  <1>5. ASSUME NEW i \in DOMAIN asked
        PROVE  Does(New(asked[i]), r, {}, {}, {})
    <2>1. Does(Insert("prop", [card |-> c, pair |-> asked[i].pair]), r, {}, {}, {})
      <3>1. 0 \in Nat
        OBVIOUS
      <3> QED BY <1>2, <3>1, PropCallsDo
    <2>2. Does(<<>>, r, {}, {}, {})
      BY DoesNothing
    <2> HIDE DEF seen
    <2> QED BY <2>1, <2>2
  <1>6. \A i \in DOMAIN h : h[i] \in PropsOf(c)
    <2> HIDE DEF h
    <2> QED BY <1>3, ElementOf
  <1>7. \A i \in DOMAIN h : aa[i] = Keep(h[i]) /\ XX[i] = Changed(aa[i], "prop")
    <2> HIDE DEF h, Keep
    <2> QED OBVIOUS
  <1>8. aa = [i \in DOMAIN h |-> aa[i]]
    <2> HIDE DEF h, Keep
    <2> QED OBVIOUS
  <1>9. \A i \in DOMAIN asked : bb[i] = New(asked[i]) /\ none[i] = {}
    <2> HIDE DEF New
    <2> QED OBVIOUS
  <1>10. bb = [i \in DOMAIN asked |-> bb[i]] /\ AllOf(none, DOMAIN asked) = {}
    <2> HIDE DEF New
    <2> QED BY DEF AllOf
  <1> HIDE DEF h, Keep, New, aa, bb, XX, none
  <1>11. \A i \in DOMAIN h : XX[i] \subseteq {h[i]} /\ Does(aa[i], r, {}, {}, XX[i])
    <2> SUFFICES ASSUME NEW i \in DOMAIN h
                 PROVE  XX[i] \subseteq {h[i]} /\ Does(aa[i], r, {}, {}, XX[i])
      OBVIOUS
    <2>1. PICK S \in SUBSET {h[i]} : Does(aa[i], r, {}, {}, S)
      BY <1>4, <1>6, <1>7
    <2>2. S = XX[i]
      BY <1>7, <2>1 DEF Does
    <2> QED BY <2>1, <2>2
  <1>12. \A i, j \in DOMAIN h : i # j => XX[i] \cap XX[j] = {}
    BY <1>3, <1>11
  <1> DEFINE X == AllOf(XX, DOMAIN h)
  <1>13. Does(FlattenSeq(aa), r, {}, {}, X)
    BY <1>3, <1>8, <1>11, <1>12, DoesAllPlain
  <1>14. Does(FlattenSeq(bb), r, {}, {}, {})
    <2>1. \A i \in DOMAIN asked : Does(bb[i], r, {}, {}, none[i])
      BY <1>5, <1>9
    <2>2. \A i, j \in DOMAIN asked : i # j => none[i] \cap none[j] = {}
      BY <1>9
    <2>3. Does(FlattenSeq(bb), r, {}, {}, AllOf(none, DOMAIN asked))
      BY <1>10, <2>1, <2>2, DoesAllPlain
    <2> QED BY <1>10, <2>3
  <1>15. X \in SUBSET PropsOf(c)
    BY <1>6, <1>11 DEF AllOf
  <1> HIDE DEF X
  <1>16. Does(FlattenSeq(aa) \o FlattenSeq(bb), r, {} \cup {}, {} \cup {}, X \cup {})
    BY <1>13, <1>14, DoesJoined
  <1>17. X \cup {} = X /\ {} \cup {} = {}
    OBVIOUS
  <1> QED BY <1>1, <1>15, <1>16, <1>17

\* The code handles only the first of two packages sent with one id.
NamedOnce ==
  \A l \in PackLists : \A i, j \in DOMAIN l : l[i].id = l[j].id /\ l[i].id # 0 => i = j
OnceEach(asked) ==
  \A i, j \in DOMAIN asked : asked[i].id = asked[j].id /\ asked[i].id # 0 => i = j

\* What is to become of a package of the card.
Due(r, p) == {i \in ToHave(r) : r.packs[i].id = p}
Settled(D, P, r, p) ==
  \/ P = {p} /\ D = Due(r, p)
  \/ P = {} /\ D = {} /\ \E i \in Due(r, p) : Like(pack[p], r.packs[i])

\* The place of a package in the request, if it has one.
LEMMA AskedOnce ==
  ASSUME NEW asked \in Seq([id : Nat, box : Boxes, qty : Qty]), OnceEach(asked),
         NEW p, p # 0, NEW S, \A i : i \in S <=> i \in DOMAIN asked /\ asked[i].id = p
  PROVE  /\ FirstOf(S) = {} <=> S = {}
         /\ \A i, j \in S : i = j
  <1>1. \A i, j \in S : i = j
    BY DEF OnceEach
  <1>2. \A i \in S : i \in Nat
    OBVIOUS
  <1>3. ASSUME NEW i \in S
        PROVE  i \in FirstOf(S)
    <2>1. \A j \in S : i <= j
      BY <1>1, <1>2
    <2> QED BY <2>1 DEF FirstOf
  <1> QED BY <1>1, <1>3, FirstIs

\* Packages: every package to have is written, but those that are there alike
\* and are left alone.
LEMMA UpdateCardPackagesDoes ==
  ASSUME Stores, NEW r, r.packs \in Seq([id : Nat, box : Boxes, qty : Qty]),
         OnceEach(r.packs), NEW named
  PROVE  \E D \in SUBSET ToHave(r), P \in SUBSET PacksOf(r.card) :
           /\ Does(UpdateCardPackages(r.card, r.packs, named), r, D, P, {})
           /\ \A j \in ToHave(r) : j \in D <=> r.packs[j].id \notin PacksOf(r.card) \ P
           /\ \A p \in PacksOf(r.card) \ P : \E i \in Due(r, p) : Like(pack[p], r.packs[i])
  <1> DEFINE c == r.card
             asked == r.packs
             At(p) == {i \in DOMAIN asked : asked[i].id = p}
             Asked(p) == FirstOf(At(p))
             seen == {p \in PacksOf(c) : Asked(p) # {}}
             Row(q) == [card |-> c, box |-> q.box, qty |-> q.qty]
             Keep(p) == LET q == asked[CHOOSE i \in Asked(p) : TRUE]
                        IN  IF Asked(p) = {}
                            THEN Erase("pack", p) \o <<[table |-> "end", do |-> "read"]>>
                            ELSE IF q.qty = 0 THEN Erase("pack", p) \o Log("-", p, 0)
                            ELSE IF Row(q) = pack[p] /\ ~named THEN <<>>
                            ELSE Update("pack", p, Row(q)) \o Log("=", p, q.qty)
             New(q) == IF ~Unseen(q.id, seen) \/ q.qty = 0 THEN <<>>
                       ELSE Insert("pack", Row(q)) \o Log("=", LastInserted, q.qty)
             h == InIdOrder(PacksOf(c))
             aa == [i \in DOMAIN h |-> Keep(h[i])]
             bb == [i \in DOMAIN asked |-> New(asked[i])]
             PP == [i \in DOMAIN h |-> Changed(aa[i], "pack")]
             DD == [i \in DOMAIN h |-> IF PP[i] = {} THEN {} ELSE Due(r, h[i])]
             EE == [i \in DOMAIN asked |->
                      IF i \in ToHave(r) /\ asked[i].id \notin PacksOf(c) THEN {i} ELSE {}]
             none == [i \in DOMAIN h |-> {}]
             nought == [i \in DOMAIN asked |-> {}]
  <1>1. UpdateCardPackages(c, asked, named) = FlattenSeq(aa) \o FlattenSeq(bb)
    BY DEF UpdateCardPackages, ForEach
  <1>2. \A i \in DOMAIN asked :
          /\ asked[i].qty \in Qty /\ Row(asked[i]) \in PackOf(c)
          /\ Like(Row(asked[i]), asked[i])
    BY AskedIs DEF Like
  <1>3. /\ h \in Seq(PacksOf(c))
        /\ \A p \in PacksOf(c) : \E i \in DOMAIN h : h[i] = p
        /\ \A i, j \in DOMAIN h : h[i] = h[j] => i = j
    BY IdsAre, InIdOrderIs
  <1>4. \A p \in PacksOf(c) : p \in Nat /\ p # 0
    BY IdsAre DEF PacksOf
  <1>5. Does(<<>>, r, {}, {}, {})
    BY DoesNothing
  <1>6. ASSUME NEW p \in PacksOf(c)
        PROVE  (Asked(p) = {} <=> At(p) = {}) /\ \A i, j \in At(p) : i = j
    <2> DEFINE S == At(p)
    <2>1. (\A i : i \in S <=> i \in DOMAIN asked /\ asked[i].id = p) /\ p # 0
      BY <1>4
    <2> HIDE DEF S
    <2>2. (FirstOf(S) = {} <=> S = {}) /\ \A i, j \in S : i = j
      BY <2>1, AskedOnce
    <2> QED BY <2>2 DEF S
  <1>7. ASSUME NEW p \in PacksOf(c)
        PROVE  \E D, P : Does(Keep(p), r, D, P, {}) /\ Settled(D, P, r, p)
    <2>1. p \in Nat
      BY <1>4
    <2>2. /\ Does(Erase("pack", p), r, {}, {p}, {})
          /\ Does(<<[table |-> "end", do |-> "read"]>>, r, {}, {}, {})
          /\ \A op \in OpSymbol, n \in Qty : Does(Log(op, p, n), r, {}, {}, {})
      BY <2>1, OtherCallsDo
    <2>3. CASE Asked(p) = {}
      <3>1. Due(r, p) = {}
        BY <1>6, <2>3 DEF Due, ToHave
      <3>2. PICK e : e = <<[table |-> "end", do |-> "read"]>>
        OBVIOUS
      <3>3. Does(Erase("pack", p) \o e, r, {} \cup {}, {p} \cup {}, {} \cup {})
        BY <2>2, <3>2, DoesJoined
      <3>4. {} \cup {} = {} /\ {p} \cup {} = {p}
        OBVIOUS
      <3>5. Keep(p) = Erase("pack", p) \o e
        BY <2>3, <3>2
      <3> QED BY <3>1, <3>3, <3>4, <3>5 DEF Settled
    <2>4. CASE Asked(p) # {}
      <3> DEFINE i == CHOOSE i \in Asked(p) : TRUE
                 q == asked[i]
      <3>1. i \in At(p)
        BY <2>4, FirstIs
      <3>2. i \in DOMAIN asked /\ q.id = p /\ q.qty \in Qty /\ Row(q) \in PackOf(c) /\ Like(Row(q), q)
        BY <1>2, <3>1
      <3>3. Keep(p) = IF q.qty = 0 THEN Erase("pack", p) \o Log("-", p, 0)
                      ELSE IF Row(q) = pack[p] /\ ~named THEN <<>>
                      ELSE Update("pack", p, Row(q)) \o Log("=", p, q.qty)
        BY <2>4
      <3> HIDE DEF i
      <3>4. Due(r, p) = IF q.qty = 0 THEN {} ELSE {i}
        BY <1>6, <3>1 DEF Due, ToHave
      <3>5. {} \cup {} = {} /\ {p} \cup {} = {p} /\ {i} \cup {} = {i}
        OBVIOUS
      <3> HIDE DEF q, Row, Keep
      <3>6. CASE q.qty = 0
        <4>1. Does(Log("-", p, 0), r, {}, {}, {})
          BY <2>2, <3>2, <3>6 DEF OpSymbol
        <4>2. Does(Erase("pack", p) \o Log("-", p, 0), r, {} \cup {}, {p} \cup {}, {} \cup {})
          BY <2>2, <4>1, DoesJoined
        <4> QED BY <3>3, <3>4, <3>5, <3>6, <4>2 DEF Settled
      <3>7. CASE q.qty # 0 /\ Row(q) = pack[p] /\ ~named
        <4>1. Like(pack[p], r.packs[i]) /\ i \in Due(r, p)
          BY <3>2, <3>4, <3>7 DEF q
        <4> QED BY <1>5, <3>3, <3>7, <4>1 DEF Settled
      <3>8. CASE q.qty # 0 /\ ~(Row(q) = pack[p] /\ ~named)
        <4>1. Does(Log("=", p, q.qty), r, {}, {}, {})
          BY <2>2, <3>2 DEF OpSymbol
        <4>2. Does(Update("pack", p, Row(q)), r, {i}, {p}, {})
          <5>1. Like(Row(q), r.packs[i])
            BY <3>2 DEF q
          <5> QED BY <2>1, <3>2, <5>1, PackCallsDo
        <4>3. Does(Update("pack", p, Row(q)) \o Log("=", p, q.qty), r,
                   {i} \cup {}, {p} \cup {}, {} \cup {})
          BY <4>1, <4>2, DoesJoined
        <4> QED BY <3>3, <3>4, <3>5, <3>8, <4>3 DEF Settled
      <3> QED BY <3>6, <3>7, <3>8
    <2> QED BY <2>3, <2>4
  <1>8. ASSUME NEW i \in DOMAIN asked
        PROVE  Does(New(asked[i]), r, EE[i], {}, {})
    <2> DEFINE q == asked[i]
    <2>1. q.id \in seen <=> q.id \in PacksOf(c)
      BY <1>6
    <2> HIDE DEF seen
    <2>2. New(q) = IF q.id \in PacksOf(c) \/ q.qty = 0 THEN <<>>
                   ELSE Insert("pack", Row(q)) \o Log("=", LastInserted, q.qty)
      BY <2>1 DEF Unseen
    <2>3. EE[i] = IF q.id \in PacksOf(c) \/ q.qty = 0 THEN {} ELSE {i}
      BY DEF ToHave
    <2>4. q.qty \in Qty /\ Row(q) \in PackOf(c) /\ Like(Row(q), r.packs[i])
      BY <1>2
    <2> HIDE DEF q, Row, New, EE
    <2>5. Does(Log("=", LastInserted, q.qty), r, {}, {}, {})
      BY <2>4, OtherCallsDo DEF LastInserted, OpSymbol
    <2>6. Does(Insert("pack", Row(q)), r, {i}, {}, {})
      <3>1. 0 \in Nat
        OBVIOUS
      <3> QED BY <2>4, <3>1, PackCallsDo
    <2>7. Does(Insert("pack", Row(q)) \o Log("=", LastInserted, q.qty), r,
               {i} \cup {}, {} \cup {}, {} \cup {})
      BY <2>5, <2>6, DoesJoined
    <2>8. {i} \cup {} = {i} /\ {} \cup {} = {}
      OBVIOUS
    <2>9. Does(New(q), r, EE[i], {}, {})
      BY <1>5, <2>2, <2>3, <2>7, <2>8
    <2> QED BY <2>9 DEF q
  <1>9. \A i \in DOMAIN h : h[i] \in PacksOf(c)
    <2> HIDE DEF h
    <2> QED BY <1>3, ElementOf
  <1>10. /\ aa = [i \in DOMAIN h |-> aa[i]]
         /\ \A i \in DOMAIN h :
              /\ aa[i] = Keep(h[i]) /\ PP[i] = Changed(aa[i], "pack") /\ none[i] = {}
              /\ DD[i] = IF PP[i] = {} THEN {} ELSE Due(r, h[i])
    <2> HIDE DEF h, Keep
    <2> QED OBVIOUS
  <1>11. bb = [i \in DOMAIN asked |-> bb[i]] /\ \A i \in DOMAIN asked : bb[i] = New(asked[i])
    <2> HIDE DEF New
    <2> QED OBVIOUS
  <1>12. \A i \in DOMAIN asked :
           EE[i] = (IF i \in ToHave(r) /\ asked[i].id \notin PacksOf(c) THEN {i} ELSE {})
           /\ nought[i] = {}
    OBVIOUS
  <1>13. AllOf(none, DOMAIN h) = {} /\ AllOf(nought, DOMAIN asked) = {}
    <2> HIDE DEF h
    <2> QED BY DEF AllOf
  <1> HIDE DEF h, Keep, New, aa, bb, PP, DD, EE, none, nought, At, Row, seen
  <1>14. ASSUME NEW i \in DOMAIN h
         PROVE  Does(aa[i], r, DD[i], PP[i], none[i]) /\ Settled(DD[i], PP[i], r, h[i])
    <2>1. PICK D, P : Does(aa[i], r, D, P, {}) /\ Settled(D, P, r, h[i])
      BY <1>7, <1>9, <1>10
    <2>2. P = PP[i]
      BY <1>10, <2>1 DEF Does
    <2>3. D = DD[i]
      BY <1>10, <2>1, <2>2 DEF Settled
    <2> QED BY <1>10, <2>1, <2>2, <2>3
  <1>15. \A i \in DOMAIN h : PP[i] \subseteq {h[i]} /\ DD[i] \subseteq Due(r, h[i])
    BY <1>14 DEF Settled
  <1>16. DoAll(aa, r, DD, PP, none)
    <2>1. DOMAIN aa = DOMAIN h
      BY <1>10
    <2>2. ASSUME NEW i \in DOMAIN h, NEW j \in DOMAIN h, i # j
          PROVE  DD[i] \cap DD[j] = {} /\ PP[i] \cap PP[j] = {} /\ none[i] \cap none[j] = {}
      <3>1. h[i] # h[j] /\ none[i] = {}
        BY <1>3, <1>10, <2>2
      <3>2. Due(r, h[i]) \cap Due(r, h[j]) = {}
        BY <3>1 DEF Due
      <3> QED BY <1>15, <3>1, <3>2
    <2> QED BY <1>14, <2>1, <2>2 DEF DoAll
  <1>17. DoAll(bb, r, EE, nought, nought)
    <2>1. DOMAIN bb = DOMAIN asked
      BY <1>11
    <2>2. \A i, j \in DOMAIN asked : i # j =>
            EE[i] \cap EE[j] = {} /\ nought[i] \cap nought[j] = {}
      BY <1>12
    <2> QED BY <1>8, <1>11, <1>12, <2>1, <2>2 DEF DoAll
  <1> DEFINE A == AllOf(DD, DOMAIN h)
             P == AllOf(PP, DOMAIN h)
             B == AllOf(EE, DOMAIN asked)
             D == A \cup B
  <1>18. Does(FlattenSeq(aa), r, A, P, {})
    <2>1. Does(FlattenSeq(aa), r, AllOf(DD, DOMAIN h), AllOf(PP, DOMAIN h), AllOf(none, DOMAIN h))
      BY <1>3, <1>10, <1>16, DoesAll
    <2> QED BY <1>13, <2>1
  <1>19. Does(FlattenSeq(bb), r, B, {}, {})
    <2>1. Does(FlattenSeq(bb), r, AllOf(EE, DOMAIN asked), AllOf(nought, DOMAIN asked),
               AllOf(nought, DOMAIN asked))
      BY <1>11, <1>17, DoesAll
    <2> QED BY <1>13, <2>1
  <1>20. /\ \A j : j \in A <=> \E i \in DOMAIN h : j \in DD[i]
         /\ \A p : p \in P <=> \E i \in DOMAIN h : p \in PP[i]
         /\ \A j : j \in B <=> \E i \in DOMAIN asked : j \in EE[i]
    BY DEF AllOf
  <1> HIDE DEF A, P, B
  <1>21. \A j \in A : j \in ToHave(r) /\ asked[j].id \in P
    <2> SUFFICES ASSUME NEW j \in A PROVE j \in ToHave(r) /\ asked[j].id \in P
      OBVIOUS
    <2>1. PICK i \in DOMAIN h : j \in DD[i]
      BY <1>20
    <2>2. j \in Due(r, h[i]) /\ PP[i] = {h[i]}
      BY <1>14, <2>1 DEF Settled
    <2> QED BY <1>20, <2>2 DEF Due
  <1>22. \A p \in P : p \in PacksOf(c)
    BY <1>9, <1>15, <1>20
  <1>23. \A j : j \in B <=> j \in ToHave(r) /\ asked[j].id \notin PacksOf(c)
    <2>1. \A j \in ToHave(r) : j \in DOMAIN asked
      BY DEF ToHave
    <2>2. ASSUME NEW j \in B
          PROVE  j \in ToHave(r) /\ asked[j].id \notin PacksOf(c)
      <3>1. PICK i \in DOMAIN asked : j \in EE[i]
        BY <1>20
      <3> QED BY <1>12, <3>1
    <2>3. ASSUME NEW j \in ToHave(r), asked[j].id \notin PacksOf(c)
          PROVE  j \in B
      <3>1. j \in DOMAIN asked /\ EE[j] = {j}
        BY <1>12, <2>1, <2>3
      <3> QED BY <1>20, <3>1
    <2> QED BY <2>2, <2>3
  <1>24. \A j \in ToHave(r) : asked[j].id \in P => j \in A
    <2> SUFFICES ASSUME NEW j \in ToHave(r), asked[j].id \in P PROVE j \in A
      OBVIOUS
    <2>1. PICK i \in DOMAIN h : asked[j].id \in PP[i]
      BY <1>20
    <2>2. asked[j].id = h[i] /\ PP[i] # {}
      BY <1>15, <2>1
    <2>3. DD[i] = Due(r, h[i])
      BY <1>10, <2>2
    <2> QED BY <1>20, <2>2, <2>3 DEF Due
  <1>25. ASSUME NEW p \in PacksOf(c) \ P
         PROVE  \E i \in Due(r, p) : Like(pack[p], r.packs[i])
    <2>1. PICK i \in DOMAIN h : h[i] = p
      BY <1>3
    <2>2. p \notin PP[i]
      BY <1>20
    <2> QED BY <1>14, <2>1, <2>2 DEF Settled
  <1>26. A \cap B = {} /\ D \in SUBSET ToHave(r) /\ P \in SUBSET PacksOf(c)
    BY <1>21, <1>22, <1>23
  <1>27. \A j \in ToHave(r) : j \in D <=> asked[j].id \notin PacksOf(c) \ P
    BY <1>21, <1>22, <1>23, <1>24
  <1>28. Does(FlattenSeq(aa) \o FlattenSeq(bb), r, D, P, {})
    <2>1. Does(FlattenSeq(aa) \o FlattenSeq(bb), r, A \cup B, P \cup {}, {} \cup {})
      BY <1>18, <1>19, <1>26, DoesJoined
    <2>2. P \cup {} = P /\ {} \cup {} = {}
      OBVIOUS
    <2> QED BY <2>1, <2>2
  <1> HIDE DEF D
  <1> QED BY <1>1, <1>25, <1>26, <1>27, <1>28

LEMMA OnceInRequest ==
  ASSUME NamedOnce, NEW r \in EqualRequests
  PROVE  OnceEach(r.packs)
  <1>1. r.packs \in PackLists
    BY DEF EqualRequests
  <1> QED BY <1>1 DEF NamedOnce, OnceEach

\* What was sent is there or is going to be written.
LEMMA EditPlanned ==
  ASSUME NamedOnce, Stores, NEW r \in EqualRequests, NEW named,
         r.pack = 0, r.card \in DOMAIN card
  PROVE  \E D \in SUBSET ToHave(r) : Plan(Edit(r, named), r, D) /\ Sees(Edit(r, named), r, D)
  <1> DEFINE c == r.card
             row == [name |-> r.name, props |-> <<>>]
             first == Update("card", c, row)
             A == UpdateProperties(c, r.props)
             B == UpdateCardPackages(c, r.packs, named)
  <1>1. /\ r.name \in Name
        /\ r.props \in Seq([id : Nat, pair : STRING \X STRING])
        /\ r.packs \in Seq([id : Nat, box : Boxes, qty : Qty])
    BY EqualTyped
  <1>2. Edit(r, named) = (first \o A) \o B
    BY DEF Edit
  <1>3. OnceEach(r.packs)
    BY OnceInRequest
  <1>4. Does(first, r, {}, {}, {})
    <2>1. row \in CardRow
      BY <1>1 DEF CardRow
    <2>2. 0 \in Nat
      OBVIOUS
    <2> HIDE DEF row
    <2> QED BY <2>1, <2>2, OtherCallsDo
  <1>5. PICK X \in SUBSET PropsOf(c) : Does(A, r, {}, {}, X)
    BY <1>1, UpdatePropertiesDoes
  <1>6. PICK D \in SUBSET ToHave(r), P \in SUBSET PacksOf(c) :
           /\ Does(B, r, D, P, {})
           /\ \A j \in ToHave(r) : j \in D <=> r.packs[j].id \notin PacksOf(c) \ P
           /\ \A p \in PacksOf(c) \ P : \E i \in Due(r, p) : Like(pack[p], r.packs[i])
    BY <1>1, <1>3, UpdateCardPackagesDoes
  <1> HIDE DEF first, A, B
  <1>7. Does((first \o A) \o B, r, D, P, X)
    <2>1. Does(first \o A, r, {} \cup {}, {} \cup {}, {} \cup X)
      BY <1>4, <1>5, DoesJoined
    <2>2. {} \cup {} = {} /\ {} \cup X = X /\ {} \cup D = D /\ {} \cup P = P /\ X \cup {} = X
      OBVIOUS
    <2>3. Does(first \o A, r, {}, {}, X)
      BY <2>1, <2>2
    <2>4. Does((first \o A) \o B, r, {} \cup D, {} \cup P, X \cup {})
      BY <1>6, <2>3, DoesJoined
    <2> QED BY <2>2, <2>4
  <1>8. PICK s : s = Edit(r, named)
    OBVIOUS
  <1>9. Plan(s, r, D) /\ Changed(s, "pack") = P /\ Changed(s, "prop") = X
    BY <1>2, <1>7, <1>8 DEF Does
  <1> DEFINE U == PacksOf(c) \ P
             V == ToHave(r) \ D
             g == [p \in U |-> CHOOSE i \in Due(r, p) : Like(pack[p], r.packs[i])]
  <1>10. \A p \in U : g[p] \in Due(r, p) /\ Like(pack[p], r.packs[g[p]])
    BY <1>6
  <1>11. g = [p \in U |-> g[p]]
    OBVIOUS
  <1>12. \A p \in U : p # 0
    BY IdsAre DEF PacksOf
  <1> HIDE DEF g
  <1>13. \A j \in V : j \in ToHave(r) /\ r.packs[j].id \in U
    BY <1>6
  <1>14. \A p \in U : g[p] \in V /\ r.packs[g[p]].id = p
    <2>1. \A p \in U : g[p] \in ToHave(r) /\ r.packs[g[p]].id = p
      BY <1>10 DEF Due
    <2> QED BY <1>6, <2>1
  <1> HIDE DEF U, V
  <1>15. \A z \in V : \E x \in U : g[x] = z
    <2> SUFFICES ASSUME NEW z \in V PROVE \E x \in U : g[x] = z
      OBVIOUS
    <2> DEFINE x == r.packs[z].id
    <2>1. x \in U /\ x # 0
      BY <1>12, <1>13
    <2>2. r.packs[g[x]].id = r.packs[z].id /\ g[x] \in V
      BY <1>14, <2>1
    <2>3. z \in DOMAIN r.packs /\ g[x] \in DOMAIN r.packs
      BY <1>13, <2>2 DEF ToHave
    <2>4. g[x] = z
      BY <1>3, <2>1, <2>2, <2>3 DEF OnceEach
    <2> QED BY <2>1, <2>4
  <1>16. g \in [U -> V]
    BY <1>11, <1>14
  <1>17. \A x, y \in U : g[x] = g[y] => x = y
    BY <1>14
  <1>18. Stays(g, U, r, D)
    BY <1>10, <1>15, <1>16, <1>17 DEF Stays, OneToOne, V
  <1>19. X \subseteq DOMAIN prop
    BY DEF PropsOf
  <1>20. Sees(s, r, D)
    BY <1>9, <1>18, <1>19 DEF Sees, U
  <1> QED BY <1>8, <1>9, <1>20

\* What is left after the first call.
WritesOne(w) == w.table = "pack" /\ w.do \in {"insert", "update"}
ChangesOne(w, b) == w.table = b /\ w.do \in {"update", "erase"}
Rest(w, r, D, E) ==
  IF WritesOne(w) THEN \E j \in D : E = D \ {j} /\ Like(w.row, r.packs[j]) ELSE E = D
Less(w, s, t, b) ==
  IF ChangesOne(w, b) THEN w.id \notin Changed(t, b) /\ Changed(s, b) = Changed(t, b) \cup {w.id}
  ELSE Changed(s, b) = Changed(t, b)

LEMMA PlanTail ==
  ASSUME NEW r, NEW s, NEW D, Plan(s, r, D), NEW w, NEW t, Begins(s, w, t)
  PROVE  /\ w \in EditCalls(r.card)
         /\ \E E : Plan(t, r, E) /\ Rest(w, r, D, E)
         /\ \A b \in Kept : Less(w, s, t, b)
  <1> DEFINE n == Len(s)
             T == EditCalls(r.card)
  <1>0. s # <<>> /\ w = Head(s) /\ t = Tail(s)
    BY DEF Begins
  <1>1. s \in Seq(T)
    BY DEF Plan
  <1> HIDE DEF T
  <1>2. /\ n \in Nat /\ n # 0 /\ DOMAIN s = 1 .. n /\ w = s[1] /\ w \in T
        /\ t \in Seq(T) /\ Len(t) = n - 1 /\ DOMAIN t = 1 .. n - 1
        /\ \A i \in 1 .. n - 1 : t[i] = s[i + 1]
    BY <1>0, <1>1
  <1> HIDE DEF n
  <1>3. /\ 1 \in DOMAIN s
        /\ \A i \in DOMAIN t : i \in Nat /\ i + 1 \in DOMAIN s /\ i + 1 # 1 /\ t[i] = s[i + 1]
        /\ \A k \in DOMAIN s : k = 1 \/ (k - 1 \in DOMAIN t /\ (k - 1) + 1 = k)
        /\ \A i, j \in DOMAIN t : i + 1 = j + 1 => i = j
    <2>1. \A i \in 1 .. n - 1 : i \in Nat /\ i + 1 \in 1 .. n /\ i + 1 # 1
      BY <1>2
    <2>2. \A k \in 1 .. n : k = 1 \/ (k - 1 \in 1 .. n - 1 /\ (k - 1) + 1 = k)
      BY <1>2
    <2>3. \A i, j \in 1 .. n - 1 : i + 1 = j + 1 => i = j
      BY <1>2
    <2>4. 1 \in 1 .. n
      BY <1>2
    <2> QED BY <1>2, <2>1, <2>2, <2>3, <2>4
  <1>4. /\ \A i \in Writes(t) : i \in DOMAIN t /\ i + 1 \in Writes(s) /\ t[i] = s[i + 1]
        /\ \A k \in Writes(s) : (k = 1 /\ WritesOne(w)) \/ (k - 1 \in Writes(t) /\ (k - 1) + 1 = k)
        /\ WritesOne(w) <=> 1 \in Writes(s)
    <2>1. \A i \in Writes(t) : i \in DOMAIN t /\ i + 1 \in Writes(s) /\ t[i] = s[i + 1]
      BY <1>3 DEF Writes
    <2>2. WritesOne(w) <=> 1 \in Writes(s)
      BY <1>2, <1>3 DEF Writes, WritesOne
    <2>3. ASSUME NEW k \in Writes(s), k # 1
          PROVE  k - 1 \in Writes(t) /\ (k - 1) + 1 = k
      <3>1. k \in DOMAIN s
        BY DEF Writes
      <3>2. k - 1 \in DOMAIN t /\ (k - 1) + 1 = k
        BY <1>3, <2>3, <3>1
      <3>3. t[k - 1] = s[k]
        BY <1>3, <3>2
      <3> QED BY <3>2, <3>3 DEF Writes
    <2> QED BY <2>1, <2>2, <2>3
  <1>5. ASSUME NEW b
        PROVE  /\ \A i \in Changes(t, b) : i \in DOMAIN t /\ i + 1 \in Changes(s, b) /\ t[i] = s[i + 1]
               /\ \A k \in Changes(s, b) : \/ k = 1 /\ ChangesOne(w, b)
                                           \/ \E i \in Changes(t, b) : t[i] = s[k]
               /\ ChangesOne(w, b) <=> 1 \in Changes(s, b)
    <2>1. \A i \in Changes(t, b) : i \in DOMAIN t /\ i + 1 \in Changes(s, b) /\ t[i] = s[i + 1]
      BY <1>3 DEF Changes
    <2>2. ChangesOne(w, b) <=> 1 \in Changes(s, b)
      BY <1>2, <1>3 DEF Changes, ChangesOne
    <2>3. ASSUME NEW k \in Changes(s, b), k # 1
          PROVE  \E i \in Changes(t, b) : t[i] = s[k]
      <3>1. k \in DOMAIN s
        BY DEF Changes
      <3>2. k - 1 \in DOMAIN t /\ (k - 1) + 1 = k
        BY <1>3, <2>3, <3>1
      <3>3. t[k - 1] = s[k]
        BY <1>3, <3>2
      <3>4. k - 1 \in Changes(t, b)
        BY <3>2, <3>3 DEF Changes
      <3> QED BY <3>3, <3>4
    <2> QED BY <2>1, <2>2, <2>3
  <1>6. \A b \in Kept : \A k, l \in Changes(s, b) : s[k].id = s[l].id => k = l
    BY DEF Plan
  <1>7. ASSUME NEW b \in Kept, NEW k \in Changes(t, b), NEW l \in Changes(t, b), t[k].id = t[l].id
        PROVE  k = l
    <2>1. k + 1 = l + 1 /\ k \in DOMAIN t /\ l \in DOMAIN t
      BY <1>5, <1>6, <1>7
    <2> QED BY <1>3, <2>1
  <1>8. ASSUME NEW b \in Kept
        PROVE  Less(w, s, t, b)
    <2>1. Changed(t, b) \subseteq Changed(s, b)
      BY <1>5 DEF Changed
    <2>2. \A x \in Changed(s, b) : x \in Changed(t, b) \/ (ChangesOne(w, b) /\ x = w.id)
      BY <1>2, <1>5 DEF Changed
    <2>3. ASSUME ChangesOne(w, b)
          PROVE  w.id \in Changed(s, b) /\ w.id \notin Changed(t, b)
      <3>1. 1 \in Changes(s, b) /\ w = s[1]
        BY <1>2, <1>5, <2>3
      <3>2. ASSUME NEW i \in Changes(t, b), t[i].id = w.id
            PROVE  FALSE
        <4>1. i + 1 \in Changes(s, b) /\ s[i + 1].id = s[1].id /\ i + 1 # 1
          BY <1>3, <1>5, <3>1, <3>2
        <4> QED BY <1>6, <3>1, <4>1
      <3> QED BY <3>1, <3>2 DEF Changed
    <2> QED BY <2>1, <2>2, <2>3 DEF Less
  <1>9. PICK h : Supplies(h, s, r, D)
    BY DEF Plan
  <1>10. /\ \A k \in Writes(s) : h[k] \in D /\ Like(s[k].row, r.packs[h[k]])
         /\ \A k, l \in Writes(s) : h[k] = h[l] => k = l
         /\ \A z \in D : \E k \in Writes(s) : h[k] = z
    BY <1>9 DEF Supplies, OneToOne
  <1> DEFINE f == [i \in Writes(t) |-> h[i + 1]]
             E == IF WritesOne(w) THEN D \ {h[1]} ELSE D
  <1>11. f = [i \in Writes(t) |-> f[i]] /\ \A i \in Writes(t) : f[i] = h[i + 1]
    OBVIOUS
  <1> HIDE DEF f
  <1>12. ASSUME NEW i \in Writes(t)
         PROVE  f[i] \in E /\ Like(t[i].row, r.packs[f[i]])
    <2>1. i + 1 \in Writes(s) /\ i + 1 # 1 /\ t[i] = s[i + 1] /\ f[i] = h[i + 1]
      BY <1>3, <1>4, <1>11
    <2> QED BY <1>4, <1>10, <2>1
  <1>13. ASSUME NEW i \in Writes(t), NEW j \in Writes(t), f[i] = f[j]
         PROVE  i = j
    <2>1. i + 1 = j + 1 /\ i \in DOMAIN t /\ j \in DOMAIN t
      BY <1>4, <1>10, <1>11, <1>13
    <2> QED BY <1>3, <2>1
  <1>14. ASSUME NEW z \in E
         PROVE  \E i \in Writes(t) : f[i] = z
    <2>1. z \in D
      OBVIOUS
    <2>2. PICK k \in Writes(s) : h[k] = z
      BY <1>10, <2>1
    <2>3. k - 1 \in Writes(t) /\ (k - 1) + 1 = k
      BY <1>4, <2>2
    <2> QED BY <1>11, <2>2, <2>3
  <1> HIDE DEF E
  <1>15. Supplies(f, t, r, E)
    BY <1>11, <1>12, <1>13, <1>14 DEF Supplies, OneToOne
  <1>16. Plan(t, r, E)
    BY <1>2, <1>7, <1>15 DEF Plan, T
  <1>17. Rest(w, r, D, E)
    <2>1. CASE WritesOne(w)
      <3>1. h[1] \in D /\ Like(w.row, r.packs[h[1]]) /\ E = D \ {h[1]}
        BY <1>2, <1>4, <1>10, <2>1 DEF E
      <3> QED BY <2>1, <3>1 DEF Rest
    <2>2. CASE ~WritesOne(w)
      BY <2>2 DEF Rest, E
    <2> QED BY <2>1, <2>2
  <1> QED BY <1>2, <1>8, <1>16, <1>17 DEF T

\* One package more.
LEMMA OneMore ==
  ASSUME NEW g, NEW U, NEW V, OneToOne(g, U, V), NEW x, x \notin U, NEW j, j \notin V,
         NEW f, f = [p \in U \cup {x} |-> IF p = x THEN j ELSE g[p]]
  PROVE  OneToOne(f, U \cup {x}, V \cup {j})
  <1>1. /\ \A p \in U : g[p] \in V
        /\ \A p, q \in U : g[p] = g[q] => p = q
        /\ \A z \in V : \E p \in U : g[p] = z
    BY DEF OneToOne
  <1>2. f[x] = j /\ \A p \in U : f[p] = g[p]
    OBVIOUS
  <1>3. f \in [U \cup {x} -> V \cup {j}]
    BY <1>1
  <1>4. \A p, q \in U \cup {x} : f[p] = f[q] => p = q
    BY <1>1, <1>2
  <1>5. \A z \in V \cup {j} : \E p \in U \cup {x} : f[p] = z
    BY <1>1, <1>2
  <1> QED BY <1>3, <1>4, <1>5 DEF OneToOne

----------------------------------------------------------------------------
(* The steps of an edit.                                                    *)

LEMMA EditCallIs ==
  ASSUME NEW c, NEW w \in EditCalls(c)
  PROVE  /\ w.table = "card" => w.do = "update" /\ w.id = c
         /\ w.table = "pack" => \/ w.do \in {"insert", "update"} /\ w.row \in PackOf(c)
                                \/ w.do = "erase"
         /\ w.table = "prop" => w.do \in {"insert", "update", "erase"}
         /\ w.table \in {"card", "pack", "prop", "log", "box", "end"}
  <1>1. CASE w \in Quiet(c, Nat)
    BY <1>1, QuietIs
  <1>2. CASE w \in [table : {"card"}, do : {"update"}, id : {c}, row : CardRow]
    BY <1>2
  <1> QED BY <1>1, <1>2 DEF EditCalls

\* The next call of an edit never fails of itself: its row is there.
LEMMA EditNeverThrows ==
  ASSUME NEW r, NEW s, NEW D, Plan(s, r, D), Sees(s, r, D), NEW w, NEW t, Begins(s, w, t),
         w.table \in Stored
  PROVE  ~Throws(w)
  <1>1. w \in EditCalls(r.card) /\ \A b \in Kept : Less(w, s, t, b)
    BY PlanTail
  <1>2. \A b \in Kept : ChangesOne(w, b) => w.id \in Changed(s, b)
    BY <1>1 DEF Less
  <1>3. /\ r.card \in DOMAIN card /\ Changed(s, "pack") \subseteq DOMAIN pack
        /\ Changed(s, "prop") \subseteq DOMAIN prop
    BY DEF Sees, PacksOf
  <1>4. CASE w.table = "card"
    BY <1>1, <1>3, <1>4, EditCallIs DEF Throws, Rows
  <1>5. CASE w.table = "pack"
    <2>1. w.do = "insert" \/ ChangesOne(w, "pack")
      BY <1>1, <1>5, EditCallIs DEF ChangesOne
    <2> QED BY <1>2, <1>3, <1>5, <2>1 DEF Throws, Rows, Kept
  <1>6. CASE w.table = "prop"
    <2>1. w.do = "insert" \/ ChangesOne(w, "prop")
      BY <1>1, <1>6, EditCallIs DEF ChangesOne
    <2> QED BY <1>2, <1>3, <1>6, <2>1 DEF Throws, Rows, Kept
  <1> QED BY <1>4, <1>5, <1>6 DEF Stored

\* A call that is not on a package.
LEMMA EditGoesOn ==
  ASSUME NEW r, NEW s, NEW D \in SUBSET ToHave(r), Plan(s, r, D), Sees(s, r, D),
         NEW w, NEW t, Begins(s, w, t), w.table # "pack",
         UNCHANGED pack, r.card \in DOMAIN card',
         \A x \in DOMAIN prop : x \in DOMAIN prop' \/ (ChangesOne(w, "prop") /\ x = w.id)
  PROVE  \E E \in SUBSET ToHave(r) : Plan(t, r, E) /\ Sees(t, r, E)'
  <1>1. /\ Plan(t, r, D)
        /\ \A b \in Kept : Less(w, s, t, b)
    <2>1. PICK E : Plan(t, r, E) /\ Rest(w, r, D, E)
      BY PlanTail
    <2>2. E = D
      BY <2>1 DEF Rest, WritesOne
    <2> QED BY <2>1, <2>2, PlanTail
  <1>2. Changed(t, "pack") = Changed(s, "pack")
    BY <1>1 DEF Less, ChangesOne, Kept
  <1>3. Changed(t, "prop") \subseteq DOMAIN prop'
    <2>1. Less(w, s, t, "prop") /\ Changed(s, "prop") \subseteq DOMAIN prop
      BY <1>1 DEF Kept, Sees
    <2> QED BY <2>1 DEF Less
  <1>4. PacksOf(r.card)' = PacksOf(r.card)
    BY DEF PacksOf
  <1>5. PICK g : Stays(g, PacksOf(r.card) \ Changed(s, "pack"), r, D)
    BY DEF Sees
  <1>6. Stays(g, PacksOf(r.card) \ Changed(t, "pack"), r, D)'
    BY <1>2, <1>4, <1>5 DEF Stays
  <1>7. Sees(t, r, D)'
    BY <1>2, <1>3, <1>4, <1>6 DEF Sees
  <1> QED BY <1>1, <1>7

\* A package is taken away.
LEMMA EditErases ==
  ASSUME NEW r, NEW s, NEW D \in SUBSET ToHave(r), Plan(s, r, D), Sees(s, r, D),
         NEW w, NEW t, Begins(s, w, t), w.table = "pack", w.do = "erase",
         pack' = After(pack, lastPack, w), UNCHANGED <<card, prop>>
  PROVE  \E E \in SUBSET ToHave(r) : Plan(t, r, E) /\ Sees(t, r, E)'
  <1>1. Plan(t, r, D) /\ \A b \in Kept : Less(w, s, t, b)
    <2>1. PICK E : Plan(t, r, E) /\ Rest(w, r, D, E)
      BY PlanTail
    <2>2. E = D
      BY <2>1 DEF Rest, WritesOne
    <2> QED BY <2>1, <2>2, PlanTail
  <1>2. /\ w.id \notin Changed(t, "pack")
        /\ Changed(s, "pack") = Changed(t, "pack") \cup {w.id}
        /\ Changed(t, "prop") = Changed(s, "prop")
    BY <1>1 DEF Less, ChangesOne, Kept
  <1>3. /\ DOMAIN pack' = DOMAIN pack \ {w.id}
        /\ \A p \in DOMAIN pack' : pack'[p] = pack[p]
    BY DEF After
  <1>4. PacksOf(r.card)' = PacksOf(r.card) \ {w.id}
    BY <1>3 DEF PacksOf
  <1>5. PICK g : Stays(g, PacksOf(r.card) \ Changed(s, "pack"), r, D)
    BY DEF Sees
  <1>6. PacksOf(r.card)' \ Changed(t, "pack") = PacksOf(r.card) \ Changed(s, "pack")
    BY <1>2, <1>4
  <1>7. \A p \in PacksOf(r.card)' : p \in DOMAIN pack' /\ pack'[p] = pack[p]
    BY <1>3 DEF PacksOf
  <1>8. Stays(g, PacksOf(r.card) \ Changed(t, "pack"), r, D)'
    BY <1>5, <1>6, <1>7 DEF Stays
  <1>9. Changed(t, "pack") \subseteq PacksOf(r.card)'
    BY <1>2, <1>4 DEF Sees
  <1>10. Sees(t, r, D)'
    BY <1>2, <1>8, <1>9 DEF Sees
  <1> QED BY <1>1, <1>10

\* A package is written, and stays from now on.
LEMMA EditWrites ==
  ASSUME NEW r, NEW s, NEW D \in SUBSET ToHave(r), Plan(s, r, D), Sees(s, r, D),
         NEW w, NEW t, Begins(s, w, t), WritesOne(w),
         lastPack \in Nat, DOMAIN pack \subseteq 1 .. lastPack,
         pack' = After(pack, lastPack, w), UNCHANGED <<card, prop>>
  PROVE  \E E \in SUBSET ToHave(r) : Plan(t, r, E) /\ Sees(t, r, E)'
  <1> DEFINE c == r.card
             U == PacksOf(c) \ Changed(s, "pack")
             V == ToHave(r) \ D
  <1>1. PICK E, j : j \in D /\ Plan(t, r, E) /\ E = D \ {j} /\ Like(w.row, r.packs[j])
    <2>1. PICK E : Plan(t, r, E) /\ Rest(w, r, D, E)
      BY PlanTail
    <2> QED BY <2>1 DEF Rest
  <1>2. /\ \A b \in Kept : Less(w, s, t, b)
        /\ w.row.card = c /\ w.table = "pack" /\ w.do \in {"insert", "update"}
    <2>1. w \in EditCalls(c) /\ \A b \in Kept : Less(w, s, t, b)
      BY PlanTail
    <2>2. w.row \in PackOf(c)
      BY <2>1, EditCallIs DEF WritesOne
    <2> QED BY <2>1, <2>2 DEF WritesOne, PackOf
  <1>3. Changed(t, "prop") = Changed(s, "prop")
    BY <1>2 DEF Less, ChangesOne, Kept
  <1>4. Changed(s, "pack") \subseteq PacksOf(c) /\ PacksOf(c) \subseteq DOMAIN pack
    BY DEF Sees, PacksOf
  <1>5. PICK x : /\ pack' = Put(pack, x, w.row) /\ x \notin U /\ x \notin Changed(t, "pack")
                 /\ PacksOf(c) \ Changed(t, "pack") \subseteq U \cup {x}
                 /\ U \subseteq PacksOf(c) \ Changed(t, "pack")
                 /\ Changed(t, "pack") \subseteq PacksOf(c)
    <2>1. CASE w.do = "insert"
      <3>1. pack' = Put(pack, lastPack + 1, w.row) /\ lastPack + 1 \notin DOMAIN pack
        BY <2>1 DEF After
      <3>2. Changed(t, "pack") = Changed(s, "pack")
        BY <1>2, <2>1 DEF Less, ChangesOne, Kept
      <3> QED BY <1>4, <3>1, <3>2
    <2>2. CASE w.do = "update"
      <3>1. pack' = Put(pack, w.id, w.row)
        BY <2>2 DEF After
      <3>2. w.id \notin Changed(t, "pack") /\ Changed(s, "pack") = Changed(t, "pack") \cup {w.id}
        BY <1>2, <2>2 DEF Less, ChangesOne, Kept
      <3> QED BY <1>4, <3>1, <3>2
    <2> QED BY <1>2, <2>1, <2>2
  <1>6. /\ DOMAIN pack' = DOMAIN pack \cup {x}
        /\ \A p \in DOMAIN pack' : pack'[p] = IF p = x THEN w.row ELSE pack[p]
    BY <1>5 DEF Put
  <1>7. PacksOf(c)' = PacksOf(c) \cup {x}
    BY <1>2, <1>6 DEF PacksOf
  <1>8. PICK g : Stays(g, U, r, D)
    BY DEF Sees
  <1> HIDE DEF U
  <1>9. OneToOne(g, U, V) /\ \A p \in U : Like(pack[p], r.packs[g[p]])
    BY <1>8 DEF Stays
  <1>10. PICK f : f = [p \in U \cup {x} |-> IF p = x THEN j ELSE g[p]]
    OBVIOUS
  <1> HIDE DEF V
  <1>11. OneToOne(f, U \cup {x}, V \cup {j})
    <2>1. j \notin V
      BY <1>1 DEF V
    <2> QED BY <1>5, <1>9, <1>10, <2>1, OneMore
  <1>12. V \cup {j} = ToHave(r) \ E
    BY <1>1 DEF V
  <1>13. PacksOf(c)' \ Changed(t, "pack") = U \cup {x}
    BY <1>5, <1>7
  <1>14. \A p \in U \cup {x} : Like(pack'[p], r.packs[f[p]])
    <2>1. \A p \in U : p \in DOMAIN pack' /\ p # x
      BY <1>4, <1>5, <1>6 DEF U
    <2>2. f[x] = j /\ \A p \in U : p # x => f[p] = g[p]
      BY <1>10
    <2>3. x \in DOMAIN pack'
      BY <1>6
    <2> QED BY <1>1, <1>6, <1>9, <2>1, <2>2, <2>3
  <1>15. Stays(f, PacksOf(c) \ Changed(t, "pack"), r, E)'
    <2>1. OneToOne(f, PacksOf(c)' \ Changed(t, "pack"), ToHave(r) \ E)
      BY <1>11, <1>12, <1>13
    <2>2. \A p \in PacksOf(c)' \ Changed(t, "pack") : Like(pack'[p], r.packs[f[p]])
      BY <1>13, <1>14
    <2> QED BY <2>1, <2>2 DEF Stays
  <1>16. Changed(t, "pack") \subseteq PacksOf(c)' /\ c \in DOMAIN card' /\ Changed(t, "prop") \subseteq DOMAIN prop'
    BY <1>3, <1>5, <1>7 DEF Sees
  <1>17. Sees(t, r, E)'
    BY <1>15, <1>16 DEF Sees
  <1> QED BY <1>1, <1>17

LEMMA EditOpens ==
  ASSUME NamedOnce, IInv, EditCard
  PROVE  EditInv'
  <1>1. PICK r \in EqualRequests, named \in BOOLEAN : Open(r, Edit(r, named)) /\ UNCHANGED faults
    BY DEF EditCard
  <1>2. /\ Idle /\ req' = r /\ todo' = Edit(r, named)
        /\ UNCHANGED <<tables, saved, prop>>
    BY <1>1 DEF Open
  <1>3. Stores /\ card = saved.card /\ UNCHANGED <<card, pack>>
    BY <1>2 DEF IInv, Between, tables
  <1>4. ASSUME CleanEdit'
        PROVE  \E D \in SUBSET ToHave(r) : Plan(todo', r, D) /\ Sees(todo, req, D)'
    <2>1. r.pack = 0 /\ r.card \in DOMAIN card
      BY <1>2, <1>3, <1>4 DEF CleanEdit
    <2>2. PICK D \in SUBSET ToHave(r) :
            Plan(Edit(r, named), r, D) /\ Sees(Edit(r, named), r, D)
      BY <1>3, <2>1, EditPlanned
    <2>3. PICK s : s = Edit(r, named)
      OBVIOUS
    <2>4. Sees(s, r, D)'
      BY <1>2, <1>3, <2>2, <2>3 DEF Sees, Stays, PacksOf
    <2> QED BY <1>2, <2>2, <2>3, <2>4
  <1>5. ASSUME CleanEdit'
        PROVE  \E D \in SUBSET ToHave(req') : Plan(todo, req, D)' /\ Sees(todo, req, D)'
    BY <1>2, <1>4, <1>5
  <1> QED BY <1>5 DEF EditInv

LEMMA OthersOpenAsWell ==
  ASSUME AddCard \/ RemoveOne
  PROVE  EditInv'
  <1>1. req'.op \in {"+", "-"}
    BY PlusTyped DEF AddCard, RemoveOne, Open, MinusRequests
  <1> QED BY <1>1 DEF EditInv, CleanEdit

LEMMA EditCallStep ==
  ASSUME IInv, EditInv,
         \/ WriteCard \/ WriteProp \/ WritePack \/ WriteLog \/ LogPastEnd \/ ListBox
         \/ Swallow \/ Throw
  PROVE  EditInv'
  <1>1. todo # <<>> /\ UNCHANGED <<saved, req>> /\ faults \in Nat
        /\ (faults' = faults \/ faults' = faults + 1)
    <2>1. faults \in Nat
      BY DEF IInv, Stores
    <2> QED BY <2>1 DEF WriteCard, WriteProp, WritePack, WriteLog, LogPastEnd, ListBox, Swallow, Throw,
          Call, Fault
  <1>2. ASSUME CleanEdit'
        PROVE  \E D \in SUBSET ToHave(req') : Plan(todo, req, D)' /\ Sees(todo, req, D)'
    <2>1. CleanEdit /\ faults = 0 /\ faults' = 0
      BY <1>1, <1>2 DEF CleanEdit, Idle
    <2>2. PICK r, s, w, t : r = req /\ s = todo /\ w = Head(todo) /\ t = Tail(todo)
      OBVIOUS
    <2>3. Begins(s, w, t)
      BY <1>1, <2>2 DEF Begins
    <2>4. PICK D \in SUBSET ToHave(r) : Plan(s, r, D) /\ Sees(s, r, D)
      BY <2>1, <2>2 DEF EditInv
    <2>5. w \in EditCalls(r.card) /\ r.card \in DOMAIN card
      <3>1. w \in EditCalls(r.card)
        BY <2>3, <2>4, PlanTail
      <3> QED BY <2>4, <3>1 DEF Sees
    <2>6. ~Swallow /\ ~Throw
      <3>1. ~Fault
        BY <2>1 DEF Fault
      <3>2. ~(w.table \in Stored /\ Throws(w))
        BY <2>3, <2>4, EditNeverThrows
      <3> QED BY <2>2, <3>1, <3>2 DEF Swallow, Throw
    <2>7. todo' = t
      BY <2>2, <2>6 DEF WriteCard, WriteProp, WritePack, WriteLog, LogPastEnd, ListBox, Call
    <2>8. \E E \in SUBSET ToHave(r) : Plan(t, r, E) /\ Sees(t, r, E)'
      <3>1. CASE WriteCard
        <4>1. w.table = "card" /\ card' = After(card, lastCard, w) /\ UNCHANGED <<pack, prop>>
          BY <2>2, <3>1 DEF WriteCard, Call, Turn
        <4>2. w.do = "update"
          BY <2>5, <4>1, EditCallIs
        <4>3. r.card \in DOMAIN card'
          BY <2>5, <4>1, <4>2 DEF After, Put
        <4> QED BY <2>3, <2>4, <4>1, <4>3, EditGoesOn
      <3>2. CASE WriteProp
        <4>1. w.table = "prop" /\ prop' = After(prop, lastProp, w) /\ UNCHANGED <<card, pack>>
          BY <2>2, <3>2 DEF WriteProp, Call, Turn, tables
        <4>2. w.do \in {"insert", "update", "erase"}
          BY <2>5, <4>1, EditCallIs
        <4>3. \A x \in DOMAIN prop : x \in DOMAIN prop' \/ (ChangesOne(w, "prop") /\ x = w.id)
          BY <4>1, <4>2 DEF After, Put, ChangesOne
        <4> QED BY <2>3, <2>4, <2>5, <4>1, <4>3, EditGoesOn
      <3>3. CASE WritePack
        <4>1. /\ w.table = "pack" /\ pack' = After(pack, lastPack, w)
              /\ UNCHANGED <<card, prop>>
          BY <2>2, <3>3 DEF WritePack, Call, Turn
        <4>2. lastPack \in Nat /\ DOMAIN pack \subseteq 1 .. lastPack
          BY DEF IInv, Stores, ImageOK, Image
        <4>3. w.do = "erase" \/ WritesOne(w)
          BY <2>5, <4>1, EditCallIs DEF WritesOne
        <4>4. CASE w.do = "erase"
          BY <2>3, <2>4, <4>1, <4>4, EditErases
        <4>5. CASE WritesOne(w)
          BY <2>3, <2>4, <4>1, <4>2, <4>5, EditWrites
        <4> QED BY <4>3, <4>4, <4>5
      <3>4. CASE WriteLog \/ LogPastEnd \/ ListBox
        <4>1. w.table # "pack" /\ UNCHANGED <<card, prop, pack>>
          BY <2>2, <3>4 DEF WriteLog, LogPastEnd, ListBox, Call, Turn
        <4> QED BY <2>3, <2>4, <2>5, <4>1, EditGoesOn
      <3> QED BY <2>6, <3>1, <3>2, <3>3, <3>4
    <2> QED BY <1>1, <2>2, <2>7, <2>8
  <1> QED BY <1>2 DEF EditInv

LEMMA EditStep ==
  ASSUME NamedOnce, IInv, EditInv, [Next]_vars
  PROVE  EditInv'
  <1>1. ASSUME Answer \/ Abort
        PROVE  EditInv'
    BY <1>1 DEF Answer, Abort, EditInv, CleanEdit, Idle
  <1>2. ASSUME UNCHANGED vars
        PROVE  EditInv'
    <2>1. UNCHANGED <<card, pack, prop, saved, req, todo, faults>>
      BY <1>2 DEF vars, tables
    <2>2. CleanEdit' = CleanEdit /\ req' = req /\ todo' = todo
      BY <2>1 DEF CleanEdit, Idle
    <2>3. \A s, r, D : Sees(s, r, D) => Sees(s, r, D)'
      BY <2>1 DEF Sees, Stays, PacksOf
    <2>4. \A D : Sees(todo, req, D) => Sees(todo, req, D)'
      BY <2>1, <2>3
    <2> QED BY <2>2, <2>4 DEF EditInv
  <1> QED BY <1>1, <1>2, EditOpens, OthersOpenAsWell, EditCallStep DEF Next

\* As many of a kind on one side as on the other.
LEMMA SameNumber ==
  ASSUME NEW g, NEW U, NEW V, OneToOne(g, U, V), IsFiniteSet(U),
         NEW A, \A p \in A : p \in U,
         NEW B, \A j \in B : j \in V,
         \A p \in U : p \in A <=> g[p] \in B
  PROVE  Cardinality(A) = Cardinality(B)
  <1> DEFINE f == [p \in A |-> g[p]]
  <1>1. f \in Bijection(A, B)
    <2>1. \A p \in A : f[p] = g[p]
      OBVIOUS
    <2>2. /\ \A p, q \in A : g[p] = g[q] => p = q
          /\ \A z \in B : \E p \in A : g[p] = z
      BY DEF OneToOne
    <2>3. f \in [A -> B]
      OBVIOUS
    <2> HIDE DEF f
    <2> QED BY <2>1, <2>2, <2>3 DEF Bijection, Injection, Surjection, IsInjective
  <1>2. ExistsBijection(A, B)
    BY <1>1 DEF ExistsBijection
  <1>3. IsFiniteSet(A)
    BY FS_Subset
  <1> QED BY <1>2, <1>3, FS_Bijection

\* At the end nothing is left to write.
LEMMA AtTheEnd ==
  ASSUME NEW r, NEW D, Plan(<<>>, r, D), Sees(<<>>, r, D)
  PROVE  \E g : OneToOne(g, PacksOf(r.card), ToHave(r))
                /\ \A p \in PacksOf(r.card) : Like(pack[p], r.packs[g[p]])
  <1>1. Writes(<<>>) = {} /\ Changed(<<>>, "pack") = {}
    BY DEF Writes, Changed, Changes
  <1>2. D = {}
    BY <1>1 DEF Plan, Supplies, OneToOne
  <1>3. PICK g : Stays(g, PacksOf(r.card) \ Changed(<<>>, "pack"), r, D)
    BY DEF Sees
  <1>4. PacksOf(r.card) \ Changed(<<>>, "pack") = PacksOf(r.card) /\ ToHave(r) \ D = ToHave(r)
    BY <1>1, <1>2
  <1> QED BY <1>3, <1>4 DEF Stays

\* When no call fails, a card sent back with all its packages has the packages
\* that were sent, each as often as it was sent, and none of quantity zero;
\* provided that no request names one package twice.
THEOREM SentIsHad == NamedOnce => (Spec => PackagesAsSent)
  <1> SUFFICES ASSUME NamedOnce PROVE Spec => PackagesAsSent
    OBVIOUS
  <1>1. ASSUME IInv, EditInv, Clean, req.op = "=", req.card \in DOMAIN saved.card, req.pack = 0,
               NEW b \in Boxes, NEW n \in Qty
        PROVE  Cardinality(Held(b, n)) = IF n = 0 THEN 0 ELSE Cardinality(Sent(b, n))
    <2>1. todo = <<>> /\ CleanEdit
      BY <1>1 DEF Clean, Answer, CleanEdit
    <2>2. PICK g : /\ OneToOne(g, PacksOf(req.card), ToHave(req))
                   /\ \A p \in PacksOf(req.card) : Like(pack[p], req.packs[g[p]])
      <3>1. PICK D : Plan(<<>>, req, D) /\ Sees(<<>>, req, D)
        BY <1>1, <2>1 DEF EditInv
      <3> QED BY <3>1, AtTheEnd
    <2>3. \A p \in PacksOf(req.card) : /\ g[p] \in DOMAIN req.packs /\ req.packs[g[p]].qty # 0
                                       /\ pack[p].box = req.packs[g[p]].box
                                       /\ pack[p].qty = req.packs[g[p]].qty
      BY <2>2 DEF OneToOne, ToHave, Like
    <2>4. CASE n = 0
      <3>1. Held(b, n) = {}
        BY <2>3, <2>4 DEF Held
      <3> QED BY <2>4, <3>1, FS_EmptySet
    <2>5. CASE n # 0
      <3>1. IsFiniteSet(PacksOf(req.card))
        BY <1>1, IdsAre DEF IInv
      <3>2. \A p \in Held(b, n) : p \in PacksOf(req.card)
        BY DEF Held
      <3>3. \A j \in Sent(b, n) : j \in ToHave(req)
        BY <2>5 DEF Sent, ToHave
      <3>4. \A p \in PacksOf(req.card) : p \in Held(b, n) <=> g[p] \in Sent(b, n)
        BY <2>3 DEF Held, Sent
      <3>5. Cardinality(Held(b, n)) = Cardinality(Sent(b, n))
        BY <2>2, <3>1, <3>2, <3>3, <3>4, SameNumber
      <3> QED BY <2>5, <3>5
    <2> QED BY <2>4, <2>5
  <1>2. Init => IInv /\ EditInv
    BY InitKeeps DEF Init, EditInv, CleanEdit, Idle
  <1>3. IInv /\ EditInv /\ [Next]_vars => IInv' /\ EditInv'
    BY NextKeeps, EditStep
  <1>4. IInv /\ EditInv =>
          (Clean /\ req.op = "=" /\ req.card \in DOMAIN saved.card /\ req.pack = 0 =>
             \A b \in Boxes, n \in Qty :
               Cardinality(Held(b, n)) = IF n = 0 THEN 0 ELSE Cardinality(Sent(b, n)))
    BY <1>1
  <1> QED BY <1>2, <1>3, <1>4, PTL DEF Spec, PackagesAsSent
=============================================================================
