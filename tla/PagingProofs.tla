---------------------------- MODULE PagingProofs -----------------------------
(***************************************************************************)
(* Theorems about lists in pages, for any rows, any sizes of pages and of  *)
(* files, and whatever others do to the rows between two requests.         *)
(* A list is part of the rows in their order, so it has an increasing map  *)
(* into them.  The loop has counted off or given those of the list whose   *)
(* places lie before i; a new row moves those after it on, never back.     *)
(***************************************************************************)
EXTENDS Paging, OperatorProofs, SequenceTheorems

----------------------------------------------------------------------------
(* Part of a list, in order.                                                *)

\* t has the elements of s at the places h, which go up.
Picks(h, s, t) ==
  /\ h \in [1 .. Len(t) -> 1 .. Len(s)]
  /\ \A j, k \in 1 .. Len(t) : j < k => h[j] < h[k]
  /\ \A k \in 1 .. Len(t) : t[k] = s[h[k]]

LEMMA KeptIs ==
  ASSUME NEW R, NEW s \in Seq(R), NEW P \in SUBSET (1 .. Len(s))
  PROVE  /\ Kept(s, P) \in Seq(R) /\ Len(Kept(s, P)) <= Len(s)
         /\ Picks(InOrder(P), s, Kept(s, P))
         /\ \A k \in 1 .. Len(Kept(s, P)) : InOrder(P)[k] \in P
         /\ \A n \in P : \E k \in 1 .. Len(Kept(s, P)) : InOrder(P)[k] = n
  <1> DEFINE at == InOrder(P)
             n == Cardinality(P)
             t == Kept(s, P)
  <1>1. Len(s) \in Nat /\ IsFiniteSet(1 .. Len(s)) /\ Cardinality(1 .. Len(s)) = Len(s)
    BY FS_Interval
  <1>2. IsFiniteSet(P) /\ n <= Len(s) /\ P \in SUBSET Nat
    <2>1. P \in SUBSET Nat
      BY <1>1
    <2> QED BY <1>1, <2>1, FS_Subset
  <1>3. Sorted(at, P)
    <2>1. \E h : Sorted(h, P)
      BY <1>2, SortedExists
    <2> QED BY <2>1, Zenon DEF InOrder, Sorted
  <1> HIDE DEF at
  <1>4. /\ n \in Nat /\ at \in [1 .. n -> P]
        /\ \A x \in P : \E k \in 1 .. n : at[k] = x
        /\ \A j, k \in 1 .. n : j < k => at[j] < at[k]
    BY <1>2, <1>3, SortedIs DEF Sorted
  <1>5. t = [k \in 1 .. n |-> s[at[k]]]
    <2>1. t = [k \in DOMAIN at |-> s[at[k]]]
      BY DEF Kept, at
    <2> QED BY <1>4, <2>1
  <1> HIDE DEF n, t
  <1>6. \A k \in 1 .. n : at[k] \in P /\ at[k] \in 1 .. Len(s) /\ s[at[k]] \in R
    <2>1. \A j \in 1 .. Len(s) : s[j] \in R
      OBVIOUS
    <2> QED BY <1>4, <2>1
  <1>7. t \in Seq(R) /\ Len(t) = n
    BY <1>4, <1>5, <1>6
  <1>8. at \in [1 .. n -> 1 .. Len(s)]
    BY <1>4
  <1>9. \A k \in 1 .. n : t[k] = s[at[k]]
    BY <1>5
  <1> QED BY <1>2, <1>4, <1>6, <1>7, <1>8, <1>9 DEF Picks, at, t

\* A map that goes up is never behind.
LEMMA UpIsAhead ==
  ASSUME NEW n \in Nat, NEW m \in [1 .. n -> Nat \ {0}],
         \A j, k \in 1 .. n : j < k => m[j] < m[k],
         NEW k \in 1 .. n
  PROVE  m[k] >= k
  <1> DEFINE Bad == {x \in 1 .. n : m[x] < x}
  <1> SUFFICES ASSUME Bad # {} PROVE FALSE
    BY DEF Bad
  <1>1. PICK x \in Bad : \A y \in Bad : x <= y
    <2>1. Bad \in SUBSET Nat
      OBVIOUS
    <2> HIDE DEF Bad
    <2> QED BY <2>1, LeastNumber
  <1>2. x \in 1 .. n /\ m[x] < x /\ m[x] \in Nat \ {0}
    OBVIOUS
  <1>3. x - 1 \in 1 .. n /\ x - 1 < x
    BY <1>2
  <1>4. x - 1 \notin Bad
    <2> HIDE DEF Bad
    <2>1. Bad \subseteq 1 .. n
      BY DEF Bad
    <2> QED BY <1>1, <1>2, <1>3
  <1>5. m[x - 1] >= x - 1 /\ m[x - 1] \in Nat
    BY <1>3, <1>4
  <1>6. m[x - 1] < m[x]
    BY <1>2, <1>3
  <1> QED BY <1>2, <1>3, <1>5, <1>6

\* Part of a part.
LEMMA PicksOfPicks ==
  ASSUME NEW R, NEW s \in Seq(R), NEW t \in Seq(R), NEW u \in Seq(R),
         NEW f, Picks(f, s, t), NEW g, Picks(g, t, u)
  PROVE  Picks([k \in 1 .. Len(u) |-> f[g[k]]], s, u)
  <1> DEFINE h == [k \in 1 .. Len(u) |-> f[g[k]]]
  <1>1. Len(s) \in Nat /\ Len(t) \in Nat /\ Len(u) \in Nat
    OBVIOUS
  <1>2. \A k \in 1 .. Len(u) : g[k] \in 1 .. Len(t) /\ f[g[k]] \in 1 .. Len(s)
                               /\ u[k] = s[f[g[k]]]
    BY DEF Picks
  <1>3. \A j, k \in 1 .. Len(u) : j < k => f[g[j]] < f[g[k]]
    BY <1>2 DEF Picks
  <1>4. h \in [1 .. Len(u) -> 1 .. Len(s)]
    BY <1>2
  <1> QED BY <1>2, <1>3, <1>4 DEF Picks

\* A list of one list.
Flattens(g, ss) ==
  g = [k \in 1 .. Len(ss) |-> IF k = 1 THEN ss[k] ELSE g[k - 1] \o ss[k]]

LEMMA FlattenOne == ASSUME NEW x PROVE FlattenSeq(<<x>>) = x
  <1> DEFINE ss == <<x>>
             g == CHOOSE g : Flattens(g, ss)
  <1>1. Len(ss) = 1 /\ ss[1] = x
    OBVIOUS
  <1>2. \E h : Flattens(h, ss)
    <2> DEFINE h == [k \in 1 .. 1 |-> x]
    <2>1. Flattens(h, ss)
      BY DEF Flattens
    <2> QED BY <2>1
  <1> HIDE DEF ss
  <1>3. FlattenSeq(ss) = g[Len(ss)]
    <2>1. Len(ss) # 0
      BY <1>1
    <2> QED BY <2>1, Zenon DEF FlattenSeq, Flattens
  <1>4. Flattens(g, ss)
    BY <1>2
  <1> HIDE DEF g
  <1>5. g[1] = x
    BY <1>1, <1>4 DEF Flattens
  <1> QED BY <1>1, <1>3, <1>5 DEF ss

----------------------------------------------------------------------------
(* What is found, and what is shown, of any rows.                           *)

FoundOf(s, c, w) == IF c THEN Kept(s, {n \in DOMAIN s : w \/ s[n].exact}) ELSE s
VisiblesOf(f, c) == {n \in DOMAIN f : c => f[n].passes}
ShownOf(s, c, w) == Kept(FoundOf(s, c, w), VisiblesOf(FoundOf(s, c, w), c))

LEMMA OfTheRows ==
  ASSUME NEW w
  PROVE  /\ Found(w) = FoundOf(rows, Cards, w)
         /\ Visibles(w) = VisiblesOf(Found(w), Cards)
         /\ Shown(w) = ShownOf(rows, Cards, w)
  <1>1. Found(w) = FoundOf(rows, Cards, w)
    BY Zenon DEF Found, FoundOf
  <1>2. Visibles(w) = VisiblesOf(Found(w), Cards)
    BY Zenon DEF Visibles, VisiblesOf
  <1> QED BY <1>1, <1>2, Zenon DEF Shown, ShownOf

LEMMA OfTheRowsAfter ==
  ASSUME NEW w
  PROVE  /\ Found(w)' = FoundOf(rows', Cards', w)
         /\ Visibles(w)' = VisiblesOf(Found(w)', Cards')
         /\ Shown(w)' = ShownOf(rows', Cards', w)
  <1>1. Found(w)' = FoundOf(rows', Cards', w)
    BY Zenon DEF Found, FoundOf
  <1>2. Visibles(w)' = VisiblesOf(Found(w)', Cards')
    BY Zenon DEF Visibles, VisiblesOf
  <1> QED BY <1>1, <1>2, Zenon DEF Shown, ShownOf

\* Whatever a step does to the request and to the locals.
LEMMA RowsAsTheyWere ==
  ASSUME rows' = rows, kind' = kind, NEW w
  PROVE  Found(w)' = Found(w) /\ Visibles(w)' = Visibles(w) /\ Shown(w)' = Shown(w)
  <1>1. Cards' = Cards
    BY DEF Cards
  <1> QED BY <1>1, OfTheRows, OfTheRowsAfter

LEMMA FoundIs ==
  ASSUME NEW s \in Seq(Row), NEW c \in BOOLEAN, NEW w \in BOOLEAN
  PROVE  /\ FoundOf(s, c, w) \in Seq(Row) /\ Len(FoundOf(s, c, w)) <= Len(s)
         /\ \E f : /\ Picks(f, s, FoundOf(s, c, w))
                   /\ \A k \in 1 .. Len(FoundOf(s, c, w)) :
                        c => w \/ s[f[k]].exact
                   /\ \A n \in 1 .. Len(s) : (c => w \/ s[n].exact) =>
                        \E k \in 1 .. Len(FoundOf(s, c, w)) : f[k] = n
  <1> DEFINE P == {n \in DOMAIN s : w \/ s[n].exact}
             t == FoundOf(s, c, w)
  <1>1. DOMAIN s = 1 .. Len(s) /\ Len(s) \in Nat
    OBVIOUS
  <1>2. CASE c
    <2>1. t = Kept(s, P)
      BY <1>2 DEF FoundOf
    <2>2. P \in SUBSET (1 .. Len(s)) /\ \A n \in P : w \/ s[n].exact
      BY <1>1
    <2>3. \A n \in 1 .. Len(s) : (c => w \/ s[n].exact) => n \in P
      BY <1>1, <1>2
    <2> HIDE DEF P, t
    <2>4. /\ t \in Seq(Row) /\ Len(t) <= Len(s)
          /\ Picks(InOrder(P), s, t)
          /\ \A k \in 1 .. Len(t) : InOrder(P)[k] \in P
          /\ \A n \in P : \E k \in 1 .. Len(t) : InOrder(P)[k] = n
      BY <2>1, <2>2, KeptIs
    <2>5. /\ \A k \in 1 .. Len(t) : c => w \/ s[InOrder(P)[k]].exact
          /\ \A n \in 1 .. Len(s) : (c => w \/ s[n].exact) =>
               \E k \in 1 .. Len(t) : InOrder(P)[k] = n
      BY <2>2, <2>3, <2>4
    <2> QED BY <2>4, <2>5 DEF t
  <1>3. CASE ~c
    <2> DEFINE f == [k \in 1 .. Len(s) |-> k]
    <2>1. t = s
      BY <1>3 DEF FoundOf
    <2> HIDE DEF t
    <2>2. Picks(f, s, t)
      BY <1>1, <2>1 DEF Picks
    <2>3. \A n \in 1 .. Len(s) : f[n] = n
      OBVIOUS
    <2> HIDE DEF f
    <2>4. t \in Seq(Row) /\ Len(t) <= Len(s)
      BY <1>1, <2>1
    <2> QED BY <1>3, <2>1, <2>2, <2>3, <2>4 DEF t
  <1> QED BY <1>2, <1>3

\* What the loop shows of what it reads.
LEMMA ShownIs ==
  ASSUME NEW f \in Seq(Row), NEW c
  PROVE  /\ Kept(f, VisiblesOf(f, c)) \in Seq(Row)
         /\ Len(Kept(f, VisiblesOf(f, c))) <= Len(f)
         /\ Picks(InOrder(VisiblesOf(f, c)), f, Kept(f, VisiblesOf(f, c)))
         /\ \A k \in 1 .. Len(Kept(f, VisiblesOf(f, c))) :
              c => f[InOrder(VisiblesOf(f, c))[k]].passes
         /\ \A n \in 1 .. Len(f) : (c => f[n].passes) =>
              \E k \in 1 .. Len(Kept(f, VisiblesOf(f, c))) : InOrder(VisiblesOf(f, c))[k] = n
  <1> DEFINE P == VisiblesOf(f, c)
  <1>1. P \in SUBSET (1 .. Len(f)) /\ \A n \in P : c => f[n].passes
    BY DEF VisiblesOf
  <1>2. \A n \in 1 .. Len(f) : (c => f[n].passes) => n \in P
    BY DEF VisiblesOf
  <1> HIDE DEF P
  <1>3. /\ Kept(f, P) \in Seq(Row) /\ Len(Kept(f, P)) <= Len(f)
        /\ Picks(InOrder(P), f, Kept(f, P))
        /\ \A k \in 1 .. Len(Kept(f, P)) : InOrder(P)[k] \in P
        /\ \A n \in P : \E k \in 1 .. Len(Kept(f, P)) : InOrder(P)[k] = n
    BY <1>1, KeptIs
  <1>4. \A k \in 1 .. Len(Kept(f, P)) : c => f[InOrder(P)[k]].passes
    BY <1>1, <1>3
  <1>5. \A n \in 1 .. Len(f) : (c => f[n].passes) =>
          \E k \in 1 .. Len(Kept(f, P)) : InOrder(P)[k] = n
    BY <1>2, <1>3
  <1> QED BY <1>3, <1>4, <1>5 DEF P

Passes(r, c, w) == c => (w \/ r.exact) /\ r.passes

\* Exactly the rows that pass are shown, in their order.
LEMMA ShownOfRows ==
  ASSUME NEW s \in Seq(Row), NEW c \in BOOLEAN, NEW w \in BOOLEAN
  PROVE  /\ ShownOf(s, c, w) \in Seq(Row)
         /\ \E h : /\ Picks(h, s, ShownOf(s, c, w))
                   /\ \A k \in 1 .. Len(ShownOf(s, c, w)) : Passes(s[h[k]], c, w)
                   /\ \A n \in 1 .. Len(s) : Passes(s[n], c, w) =>
                        \E k \in 1 .. Len(ShownOf(s, c, w)) : h[k] = n
  <1> DEFINE t == FoundOf(s, c, w)
             u == ShownOf(s, c, w)
             g == InOrder(VisiblesOf(t, c))
  <1>1. t \in Seq(Row)
    BY FoundIs
  <1>2. PICK f : /\ Picks(f, s, t)
                 /\ \A k \in 1 .. Len(t) : c => w \/ s[f[k]].exact
                 /\ \A n \in 1 .. Len(s) : (c => w \/ s[n].exact) =>
                      \E k \in 1 .. Len(t) : f[k] = n
    BY FoundIs, ZenonT(30)
  <1> HIDE DEF t
  <1>3. u = Kept(t, VisiblesOf(t, c))
    BY DEF ShownOf, t
  <1> HIDE DEF u
  <1>4. /\ u \in Seq(Row) /\ Picks(g, t, u)
        /\ \A k \in 1 .. Len(u) : c => t[g[k]].passes
        /\ \A n \in 1 .. Len(t) : (c => t[n].passes) => \E k \in 1 .. Len(u) : g[k] = n
    BY <1>1, <1>3, ShownIs
  <1> HIDE DEF g
  <1> DEFINE h == [k \in 1 .. Len(u) |-> f[g[k]]]
  <1>5. Picks(h, s, u)
    BY <1>1, <1>2, <1>4, PicksOfPicks
  <1>6. \A k \in 1 .. Len(t) : f[k] \in 1 .. Len(s) /\ t[k] = s[f[k]]
    BY <1>2 DEF Picks
  <1>7. \A k \in 1 .. Len(u) : g[k] \in 1 .. Len(t) /\ h[k] = f[g[k]]
    BY <1>4 DEF Picks
  <1> HIDE DEF h
  <1>8. \A k \in 1 .. Len(u) : Passes(s[h[k]], c, w)
    <2> SUFFICES ASSUME NEW k \in 1 .. Len(u), c
                 PROVE  (w \/ s[h[k]].exact) /\ s[h[k]].passes
      BY DEF Passes
    <2>1. g[k] \in 1 .. Len(t) /\ h[k] = f[g[k]] /\ t[g[k]] = s[f[g[k]]]
      BY <1>6, <1>7
    <2>2. w \/ s[f[g[k]]].exact
      BY <1>2, <2>1
    <2>3. t[g[k]].passes
      BY <1>4
    <2> QED BY <2>1, <2>2, <2>3
  <1>9. ASSUME NEW n \in 1 .. Len(s), Passes(s[n], c, w)
        PROVE  \E k \in 1 .. Len(u) : h[k] = n
    <2>1. PICK j \in 1 .. Len(t) : f[j] = n
      BY <1>2, <1>9 DEF Passes
    <2>2. c => t[j].passes
      BY <1>6, <1>9, <2>1 DEF Passes
    <2>3. PICK k \in 1 .. Len(u) : g[k] = j
      BY <1>4, <2>2
    <2> QED BY <1>7, <2>1, <2>3
  <1> QED BY <1>4, <1>5, <1>8, <1>9 DEF u

----------------------------------------------------------------------------
(* A new row.                                                               *)

LEMMA InsertedIs ==
  ASSUME NEW s \in Seq(Row), NEW n \in 1 .. Len(s) + 1, NEW x \in Row
  PROVE  /\ InsertAt(s, n, x) \in Seq(Row) /\ Len(InsertAt(s, n, x)) = Len(s) + 1
         /\ InsertAt(s, n, x)[n] = x
         /\ \A j \in 1 .. Len(s) :
              InsertAt(s, n, x)[IF j < n THEN j ELSE j + 1] = s[j]
  <1> DEFINE a == SubSeq(s, 1, n - 1)
             b == SubSeq(s, n, Len(s))
             t == InsertAt(s, n, x)
  <1>1. Len(s) \in Nat /\ n \in Nat /\ n - 1 \in 0 .. Len(s) /\ n - 1 \in Nat
    OBVIOUS
  <1>2. /\ a \in Seq(Row) /\ Len(a) = n - 1
        /\ \A j \in 1 .. n - 1 : a[j] = s[j]
    BY <1>1
  <1>3. /\ b \in Seq(Row) /\ Len(b) = Len(s) - n + 1
        /\ \A j \in 1 .. Len(s) - n + 1 : b[j] = s[n - 1 + j]
    BY <1>1
  <1>4. t = a \o <<x>> \o b
    BY DEF InsertAt
  <1> HIDE DEF a, b, t
  <1> DEFINE c == a \o <<x>>
  <1>5. <<x>> \in Seq(Row) /\ Len(<<x>>) = 1 /\ <<x>>[1] = x
    OBVIOUS
  <1>6. /\ c \in Seq(Row) /\ Len(c) = n /\ c[n] = x
        /\ \A j \in 1 .. n - 1 : c[j] = s[j]
    BY <1>1, <1>2, <1>5
  <1> HIDE DEF c
  <1>7. t = c \o b
    BY <1>4 DEF c
  <1>8. /\ t \in Seq(Row) /\ Len(t) = Len(s) + 1
        /\ \A j \in 1 .. n : t[j] = c[j]
        /\ \A j \in 1 .. Len(s) - n + 1 : t[n + j] = b[j]
    BY <1>1, <1>3, <1>6, <1>7
  <1>9. ASSUME NEW j \in 1 .. Len(s)
        PROVE  t[IF j < n THEN j ELSE j + 1] = s[j]
    <2>1. CASE j < n
      BY <1>1, <1>6, <1>8, <2>1
    <2>2. CASE ~(j < n)
      <3> DEFINE k == j - n + 1
      <3>1. k \in 1 .. Len(s) - n + 1 /\ n + k = j + 1 /\ n - 1 + k = j
        BY <1>1, <2>2
      <3> HIDE DEF k
      <3>2. t[n + k] = b[k] /\ b[k] = s[n - 1 + k]
        BY <1>3, <1>8, <3>1
      <3> QED BY <2>2, <3>1, <3>2
    <2> QED BY <2>1, <2>2
  <1> QED BY <1>1, <1>6, <1>8, <1>9 DEF t

\* What was shown is shown still, and not before the place it had.
LEMMA ShownStill ==
  ASSUME NEW s \in Seq(Row), NEW n \in 1 .. Len(s) + 1, NEW x \in Row,
         NEW c \in BOOLEAN, NEW w \in BOOLEAN,
         NEW k \in 1 .. Len(ShownOf(s, c, w))
  PROVE  \E j \in 1 .. Len(ShownOf(InsertAt(s, n, x), c, w)) :
           j >= k /\ ShownOf(InsertAt(s, n, x), c, w)[j] = ShownOf(s, c, w)[k]
  <1> DEFINE t == InsertAt(s, n, x)
             u == ShownOf(s, c, w)
             v == ShownOf(t, c, w)
             e(j) == IF j < n THEN j ELSE j + 1
  <1>1. /\ t \in Seq(Row) /\ Len(t) = Len(s) + 1
        /\ \A j \in 1 .. Len(s) : t[e(j)] = s[j]
    BY InsertedIs
  <1> HIDE DEF t
  <1>2. PICK h : /\ Picks(h, s, u) /\ \A j \in 1 .. Len(u) : Passes(s[h[j]], c, w)
    BY ShownOfRows
  <1>3. PICK g : /\ Picks(g, t, v)
                 /\ \A j \in 1 .. Len(v) : Passes(t[g[j]], c, w)
                 /\ \A j \in 1 .. Len(t) : Passes(t[j], c, w) =>
                      \E l \in 1 .. Len(v) : g[l] = j
    <2>1. t \in Seq(Row)
      BY <1>1
    <2> QED BY <2>1, ShownOfRows, ZenonT(30)
  <1>4. u \in Seq(Row) /\ v \in Seq(Row)
    BY <1>1, ShownOfRows
  <1>5. Len(u) \in Nat /\ Len(v) \in Nat /\ Len(s) \in Nat /\ n \in Nat
    BY <1>4
  <1> HIDE DEF u, v
  <1>6. /\ \A j \in 1 .. Len(u) : h[j] \in 1 .. Len(s) /\ u[j] = s[h[j]]
        /\ \A j, l \in 1 .. Len(u) : j < l => h[j] < h[l]
    BY <1>2 DEF Picks
  <1>7. /\ \A j \in 1 .. Len(v) : g[j] \in 1 .. Len(t) /\ v[j] = t[g[j]]
        /\ \A j, l \in 1 .. Len(v) : j < l => g[j] < g[l]
    BY <1>3 DEF Picks
  <1>8. ASSUME NEW j \in 1 .. Len(u)
        PROVE  \E l \in 1 .. Len(v) : g[l] = e(h[j])
    <2>1. e(h[j]) \in 1 .. Len(t) /\ t[e(h[j])] = s[h[j]]
      <3>1. h[j] \in 1 .. Len(s)
        BY <1>6
      <3>2. e(h[j]) \in 1 .. Len(t)
        BY <1>1, <1>5, <3>1
      <3> QED BY <1>1, <3>1, <3>2
    <2>2. Passes(t[e(h[j])], c, w)
      BY <1>2, <2>1
    <2> HIDE DEF e
    <2> QED BY <1>3, <2>1, <2>2
  <1> DEFINE m == [j \in 1 .. Len(u) |-> CHOOSE l \in 1 .. Len(v) : g[l] = e(h[j])]
  <1>9. \A j \in 1 .. Len(u) : m[j] \in 1 .. Len(v) /\ g[m[j]] = e(h[j])
    <2> HIDE DEF e
    <2> QED BY <1>8
  <1>10. m \in [1 .. Len(u) -> Nat \ {0}]
    <2>1. \A j \in 1 .. Len(u) : m[j] \in Nat \ {0}
      <3> HIDE DEF m
      <3> QED BY <1>5, <1>9
    <2>2. m = [j \in 1 .. Len(u) |-> m[j]]
      OBVIOUS
    <2> HIDE DEF m
    <2> QED BY <2>1, <2>2
  <1> HIDE DEF m
  <1>11. ASSUME NEW j \in 1 .. Len(u), NEW l \in 1 .. Len(u), j < l
         PROVE  m[j] < m[l]
    <2>1. h[j] < h[l] /\ h[j] \in Nat /\ h[l] \in Nat
      BY <1>5, <1>6, <1>11
    <2>2. e(h[j]) < e(h[l])
      BY <1>5, <2>1
    <2> HIDE DEF e
    <2>3. g[m[j]] < g[m[l]]
      BY <1>9, <2>2
    <2>4. m[j] \in 1 .. Len(v) /\ m[l] \in 1 .. Len(v)
      BY <1>9
    <2>5. g[m[j]] \in Nat /\ g[m[l]] \in Nat
      BY <1>1, <1>5, <1>7, <2>4, SMTT(30)
    <2>6. ~(m[l] < m[j]) /\ m[l] # m[j]
      <3>1. m[l] < m[j] => g[m[l]] < g[m[j]]
        BY <1>7, <2>4
      <3> QED BY <2>3, <2>5, <3>1
    <2> QED BY <1>5, <2>4, <2>6
  <1>12. k \in 1 .. Len(u)
    BY DEF u
  <1>13. m[k] >= k
    BY <1>5, <1>10, <1>11, <1>12, UpIsAhead
  <1>14. v[m[k]] = u[k]
    <2>1. h[k] \in 1 .. Len(s) /\ m[k] \in 1 .. Len(v) /\ g[m[k]] = e(h[k])
      BY <1>6, <1>9, <1>12
    <2>2. v[m[k]] = t[e(h[k])] /\ u[k] = s[h[k]]
      BY <1>6, <1>7, <1>12, <2>1
    <2> QED BY <1>1, <2>1, <2>2
  <1> QED BY <1>9, <1>12, <1>13, <1>14 DEF u, v, t

----------------------------------------------------------------------------
(* The inductive invariant.                                                 *)

\* Rows have ids of their own, issued by the counter.
Stored ==
  /\ lastId \in 0 .. MaxRows /\ rows \in Seq(Row)
  /\ \A j, k \in DOMAIN rows : rows[j].id = rows[k].id => j = k
  /\ \A j \in DOMAIN rows : rows[j].id \in 1 .. lastId

Typed ==
  /\ pc \in {"idle", "count", "rows", "end", "exported"}
  /\ kind \in Kind /\ offset \in Nat /\ size \in Nat /\ wide \in BOOLEAN
  /\ total \in 0 .. MaxRows /\ i \in 1 .. MaxRows + 1
  /\ cnt \in 0 .. MaxRows /\ sz \in 0 .. MaxRows
  /\ page \in Seq(Row) /\ \A k \in DOMAIN page : page[k].id \in 1 .. lastId
  /\ got \in Seq(Row) /\ files \in Seq(Seq(Row))
  /\ first \in BOOLEAN /\ steady \in BOOLEAN /\ faults \in 0 .. MaxFaults

\* Between two loops the locals are as the next begins with them.
Between ==
  /\ pc = "exported" => kind = "export"
  /\ steady => kind # "export"
  /\ pc \in {"idle", "count"} => total = 0 /\ i = 1 /\ cnt = 0 /\ sz = 0
  /\ pc = "count" => page = <<>>
  /\ pc = "end" /\ total = 0 => page = <<>>

Places(w) == InOrder(Visibles(w))

\* How many of the list the loop has come past.
Past == IF kind = "users" THEN cnt + sz ELSE cnt

\* The loop has come past those whose places lie before i, and has given those
\* after the offset.
Reading(w) ==
  /\ total = Len(Found(w)) /\ i \in 1 .. Len(Found(w)) + 1
  /\ Past <= Len(Shown(w))
  /\ \A k \in 1 .. Len(Shown(w)) : Places(w)[k] < i <=> k <= Past
  /\ sz <= size
  /\ IF cnt < offset THEN sz = 0 ELSE Past = offset + sz
  /\ Len(page) = sz
  /\ \A k \in 1 .. sz : page[k] = Shown(w)[offset + k]

\* The page is full, or the list is at its end.
Cut(w) ==
  /\ Len(page) <= size
  /\ Len(page) = size \/ offset + Len(page) >= Len(Shown(w))
  /\ \A k \in DOMAIN page :
       offset + k <= Len(Shown(w)) /\ page[k] = Shown(w)[offset + k]

LoopInv ==
  \A w \in BOOLEAN : wide = w =>
    /\ pc = "rows" => Reading(w)
    /\ pc = "end" /\ faults = 0 => total = Len(Found(w)) /\ Cut(w)

\* A client misses nothing but what lies after place m.
Had(b) == \E j \in DOMAIN got : got[j].id = b
Ahead(w, m) ==
  \A b \in before :
    Had(b) \/ \E k \in 1 .. Len(Shown(w)) : k > m /\ Shown(w)[k].id = b

ClientInv ==
  steady /\ faults = 0 => \A w \in BOOLEAN :
    /\ pc \in {"rows", "end"} /\ offset = 0 /\ wide = w => Ahead(w, offset)
    /\ pc \in {"count", "rows", "end"} /\ offset > 0 /\ first = w => Ahead(w, offset)
    /\ pc = "idle" /\ size > 0 /\ first = w =>
         /\ Ahead(w, offset + size)
         /\ page = <<>> => \A b \in before : Had(b)

\* The list does not fit one file: the query that counts some counts as many.
Long ==
  \/ FileSize <= Len(Found(FALSE))
  \/ Found(FALSE) = <<>> /\ FileSize <= Len(Found(TRUE))

\* An export that came to a second file never finds the last.
ExportInv ==
  kind = "export" /\ faults = 0 =>
    /\ pc \in {"count", "rows", "end"} =>
         /\ size = FileSize
         /\ (offset = 0 /\ files = <<>>) \/ Long
         /\ wide => Found(FALSE) = <<>>
    /\ \A w \in BOOLEAN :
         pc = "exported" /\ wide = w => files = <<page>> /\ page = Shown(w)

IInv == Stored /\ Typed /\ Between /\ LoopInv /\ ClientInv /\ ExportInv

----------------------------------------------------------------------------
(* The lists of a state.                                                    *)

LEMMA FewRows ==
  ASSUME Stored
  PROVE  /\ Len(rows) \in Nat /\ Len(rows) <= lastId /\ lastId <= MaxRows
         /\ Cardinality(Ids(rows)) = Len(rows)
  <1> DEFINE n == Len(rows)
             S == Ids(rows)
             m == [j \in 1 .. n |-> rows[j].id]
  <1>1. n \in Nat /\ DOMAIN rows = 1 .. n /\ lastId \in Nat /\ lastId <= MaxRows
    BY PagingAssumption DEF Stored
  <1>2. S = {rows[j].id : j \in 1 .. n} /\ S \subseteq 1 .. lastId
    BY <1>1 DEF Stored, Ids
  <1> HIDE DEF S
  <1>3. /\ \A j \in 1 .. n : m[j] = rows[j].id
        /\ m \in [1 .. n -> S]
    BY <1>2
  <1>4. \A j, k \in 1 .. n : m[j] = m[k] => j = k
    BY <1>1, <1>3 DEF Stored
  <1>5. \A x \in S : \E j \in 1 .. n : m[j] = x
    BY <1>2, <1>3
  <1> HIDE DEF m
  <1>6. m \in Bijection(1 .. n, S)
    BY <1>3, <1>4, <1>5 DEF Bijection, Injection, Surjection, IsInjective
  <1> HIDE DEF n
  <1>7. IsFiniteSet(1 .. n) /\ Cardinality(1 .. n) = n
    BY <1>1, FS_Interval
  <1>8. Cardinality(S) = n
    <2>1. ExistsBijection(1 .. n, S)
      BY <1>6, Zenon DEF ExistsBijection
    <2> QED BY <1>7, <2>1, FS_Bijection
  <1>9. IsFiniteSet(1 .. lastId) /\ Cardinality(1 .. lastId) = lastId
    BY <1>1, FS_Interval
  <1>10. Cardinality(S) <= lastId
    BY <1>2, <1>9, FS_Subset
  <1> QED BY <1>1, <1>8, <1>10 DEF S, n

LEMMA Lists ==
  ASSUME Stored, kind \in Kind, NEW w \in BOOLEAN
  PROVE  /\ Found(w) \in Seq(Row) /\ Len(Found(w)) \in Nat /\ Len(Found(w)) <= MaxRows
         /\ Shown(w) \in Seq(Row) /\ Len(Shown(w)) \in Nat /\ Len(Shown(w)) <= Len(Found(w))
         /\ \A k \in 1 .. Len(Shown(w)) :
              /\ Places(w)[k] \in 1 .. Len(Found(w))
              /\ Shown(w)[k] = Found(w)[Places(w)[k]]
              /\ Cards => Found(w)[Places(w)[k]].passes
         /\ \A j, k \in 1 .. Len(Shown(w)) : j < k => Places(w)[j] < Places(w)[k]
         /\ \A n \in 1 .. Len(Found(w)) : (Cards => Found(w)[n].passes) =>
              \E k \in 1 .. Len(Shown(w)) : Places(w)[k] = n
  <1> DEFINE f == Found(w)
             u == Shown(w)
             at == Places(w)
  <1>1. rows \in Seq(Row) /\ Cards \in BOOLEAN /\ MaxRows \in Nat /\ lastId \in Nat
    BY PagingAssumption DEF Stored, Cards
  <1>2. f \in Seq(Row) /\ Len(f) <= Len(rows)
    BY <1>1, FoundIs, OfTheRows
  <1>3. u = Kept(f, VisiblesOf(f, Cards)) /\ at = InOrder(VisiblesOf(f, Cards))
    <2>1. Visibles(w) = VisiblesOf(f, Cards)
      BY OfTheRows
    <2> QED BY <2>1 DEF Shown, Places
  <1> HIDE DEF f, u, at
  <1>4. /\ u \in Seq(Row) /\ Len(u) <= Len(f) /\ Picks(at, f, u)
        /\ \A k \in 1 .. Len(u) : Cards => f[at[k]].passes
        /\ \A n \in 1 .. Len(f) : (Cards => f[n].passes) => \E k \in 1 .. Len(u) : at[k] = n
    BY <1>2, <1>3, ShownIs
  <1>5. Len(f) \in Nat /\ Len(u) \in Nat /\ Len(f) <= MaxRows
    <2>1. Len(rows) <= lastId /\ lastId <= MaxRows /\ Len(rows) \in Nat
      BY FewRows
    <2>2. Len(f) \in Nat /\ Len(u) \in Nat
      BY <1>2, <1>4
    <2> QED BY <1>1, <1>2, <2>1, <2>2
  <1>6. \A k \in 1 .. Len(u) : at[k] \in 1 .. Len(f) /\ u[k] = f[at[k]]
    BY <1>4 DEF Picks
  <1>7. \A j, k \in 1 .. Len(u) : j < k => at[j] < at[k]
    BY <1>4 DEF Picks
  <1> QED BY <1>2, <1>4, <1>5, <1>6, <1>7 DEF f, u, at

\* A row that is shown is the next of the list.
LEMMA NextShown ==
  ASSUME Stored, kind \in Kind, NEW w \in BOOLEAN, NEW n \in 1 .. Len(Found(w)),
         Cards => Found(w)[n].passes, NEW p \in Nat, p <= Len(Shown(w)),
         \A k \in 1 .. Len(Shown(w)) : Places(w)[k] < n <=> k <= p
  PROVE  /\ p + 1 <= Len(Shown(w)) /\ Shown(w)[p + 1] = Found(w)[n]
         /\ \A k \in 1 .. Len(Shown(w)) : Places(w)[k] < n + 1 <=> k <= p + 1
  <1> DEFINE f == Found(w)
             u == Shown(w)
             at == Places(w)
  <1>1. /\ Len(f) \in Nat /\ Len(u) \in Nat
        /\ \A k \in 1 .. Len(u) : at[k] \in 1 .. Len(f) /\ u[k] = f[at[k]]
        /\ \A j, k \in 1 .. Len(u) : j < k => at[j] < at[k]
        /\ \A k \in 1 .. Len(u) : at[k] < n <=> k <= p
        /\ n \in 1 .. Len(f)
    BY Lists
  <1>2. PICK m \in 1 .. Len(u) : at[m] = n
    BY Lists
  <1> HIDE DEF f, u, at
  <1>3. m = p + 1
    <2>1. ~(m <= p)
      BY <1>1, <1>2
    <2>2. ASSUME m > p + 1 PROVE FALSE
      <3>1. p + 1 \in 1 .. Len(u) /\ p + 1 < m
        BY <1>1, <1>2, <2>2
      <3>2. at[p + 1] < at[m]
        BY <1>1, <1>2, <3>1
      <3>3. p + 1 <= p
        BY <1>1, <1>2, <3>1, <3>2
      <3> QED BY <3>3
    <2> QED BY <1>1, <1>2, <2>1, <2>2
  <1>4. ASSUME NEW k \in 1 .. Len(u)
        PROVE  at[k] < n + 1 <=> k <= p + 1
    <2>1. CASE k <= p
      BY <1>1, <2>1
    <2>2. CASE k = m
      BY <1>1, <1>2, <1>3, <2>2
    <2>3. CASE k > m
      <3>1. at[m] < at[k] /\ at[k] \in Nat
        BY <1>1, <2>3
      <3> QED BY <1>1, <1>2, <1>3, <2>3, <3>1
    <2> QED BY <1>1, <1>3, <2>1, <2>2, <2>3
  <1> QED BY <1>1, <1>2, <1>3, <1>4 DEF f, u, at

\* A row that falls is none of the list.
LEMMA NotShown ==
  ASSUME Stored, kind \in Kind, NEW w \in BOOLEAN, NEW n \in 1 .. Len(Found(w)),
         Cards, ~Found(w)[n].passes, NEW p \in Nat,
         \A k \in 1 .. Len(Shown(w)) : Places(w)[k] < n <=> k <= p
  PROVE  \A k \in 1 .. Len(Shown(w)) : Places(w)[k] < n + 1 <=> k <= p
  <1> SUFFICES ASSUME NEW k \in 1 .. Len(Shown(w))
               PROVE  Places(w)[k] < n + 1 <=> k <= p
    OBVIOUS
  <1>1. Places(w)[k] \in 1 .. Len(Found(w)) /\ Len(Found(w)) \in Nat
    BY Lists
  <1>2. Found(w)[Places(w)[k]].passes
    BY Lists
  <1>3. Places(w)[k] # n
    BY <1>2
  <1> QED BY <1>1, <1>3

----------------------------------------------------------------------------
(* The invariant holds at the start, and every step keeps it.               *)

LEMMA InitKeeps == Init => IInv
  <1> SUFFICES ASSUME Init PROVE IInv
    OBVIOUS
  <1>1. MaxRows \in Nat /\ MaxFaults \in Nat
    BY PagingAssumption
  <1>2. PICK e \in [1 .. lastId -> BOOLEAN] : \E p \in [1 .. lastId -> BOOLEAN] :
          rows = [n \in 1 .. lastId |-> [id |-> n, exact |-> e[n], passes |-> p[n]]]
    BY DEF Init
  <1>3. PICK p \in [1 .. lastId -> BOOLEAN] :
          rows = [n \in 1 .. lastId |-> [id |-> n, exact |-> e[n], passes |-> p[n]]]
    BY <1>2
  <1>4. lastId \in 0 .. MaxRows /\ lastId \in Nat /\ lastId <= MaxRows
    BY <1>1 DEF Init
  <1>5. \A n \in 1 .. lastId : n \in 1 .. MaxRows /\ e[n] \in BOOLEAN /\ p[n] \in BOOLEAN
    BY <1>1, <1>4
  <1>6. \A n \in 1 .. lastId : rows[n] \in Row /\ rows[n].id = n
    BY <1>3, <1>5 DEF Row
  <1>7. rows \in Seq(Row) /\ DOMAIN rows = 1 .. lastId
    BY <1>3, <1>4, <1>6
  <1>8. Stored
    BY <1>4, <1>6, <1>7 DEF Stored
  <1>9. Typed /\ Between
    <2>1. <<>> \in Seq(Row) /\ <<>> \in Seq(Seq(Row)) /\ DOMAIN <<>> = {}
      OBVIOUS
    <2>2. /\ pc = "idle" /\ kind = "cards" /\ offset = 0 /\ size = 0 /\ wide = FALSE
          /\ total = 0 /\ i = 1 /\ cnt = 0 /\ sz = 0 /\ page = <<>> /\ files = <<>>
          /\ got = <<>> /\ first = FALSE /\ steady = FALSE /\ faults = 0
      BY DEF Init
    <2>3. 0 \in 0 .. MaxRows /\ 1 \in 1 .. MaxRows + 1 /\ 0 \in 0 .. MaxFaults
      BY <1>1
    <2>4. page \in Seq(Row) /\ \A k \in DOMAIN page : page[k].id \in 1 .. lastId
      BY <2>1, <2>2
    <2>5. Between
      BY <2>2 DEF Between
    <2>6. Typed
      BY <2>1, <2>2, <2>3, <2>4 DEF Typed, Kind
    <2> QED BY <2>5, <2>6
  <1> QED BY <1>8, <1>9 DEF Init, IInv, LoopInv, ClientInv, ExportInv

\* What a step that leaves the rows alone leaves of the lists.
LEMMA ListsStay ==
  ASSUME rows' = rows, kind' = kind, NEW w
  PROVE  /\ Found(w)' = Found(w) /\ Shown(w)' = Shown(w) /\ Places(w)' = Places(w)
  BY RowsAsTheyWere, Zenon DEF Places

LEMMA StoredStays ==
  ASSUME Stored, UNCHANGED table PROVE Stored'
  BY DEF Stored, table

\* What is ahead of a client, if the rows, and what it has, are the same.
LEMMA AheadStays ==
  ASSUME rows' = rows, kind' = kind, got' = got, before' = before,
         NEW w, NEW m \in Nat, NEW m2 \in Nat, m2 <= m, Ahead(w, m)
  PROVE  /\ \A b \in before : Had(b)' <=> Had(b)
         /\ \A b \in before' :
              Had(b)' \/ \E k \in 1 .. Len(Shown(w)') : k > m2 /\ Shown(w)'[k].id = b
  <1>1. \A b : Had(b)' <=> Had(b)
    BY DEF Had
  <1>2. Shown(w)' = Shown(w)
    BY ListsStay
  <1> HIDE DEF Ahead
  <1>3. ASSUME NEW b \in before
        PROVE  Had(b)' \/ \E k \in 1 .. Len(Shown(w)') : k > m2 /\ Shown(w)'[k].id = b
    <2>1. CASE Had(b)
      BY <1>1, <2>1
    <2>2. CASE ~Had(b)
      <3>1. PICK k \in 1 .. Len(Shown(w)) : k > m /\ Shown(w)[k].id = b
        BY <2>2 DEF Ahead
      <3>2. k \in Int /\ k > m2
        BY <3>1
      <3> QED BY <1>2, <3>1, <3>2
    <2> QED BY <2>1, <2>2
  <1> QED BY <1>1, <1>3

LEMMA StartKeeps ==
  ASSUME IInv, NEW k \in Kind, NEW ofs \in Nat, NEW n \in Nat, Start(k, ofs, n)
  PROVE  /\ Stored' /\ LoopInv' /\ rows' = rows
         /\ pc' = "count" /\ offset' = ofs /\ size' = n /\ kind' = k /\ wide' = FALSE
         /\ got' \in Seq(Row) /\ files' \in Seq(Seq(Row)) /\ first' \in BOOLEAN
            /\ steady' \in BOOLEAN => Typed'
         /\ (steady' => kind' # "export") => Between'
         /\ faults' = faults
  <1>1. MaxRows \in Nat
    BY PagingAssumption
  <1>2. /\ pc = "idle" /\ pc' = "count" /\ kind' = k /\ offset' = ofs /\ size' = n
        /\ wide' = FALSE /\ page' = <<>>
        /\ total' = 0 /\ i' = 1 /\ cnt' = 0 /\ sz' = 0
        /\ rows' = rows /\ lastId' = lastId /\ faults' = faults
    BY DEF Start, LoopInit, table
  <1>3. Stored'
    BY <1>2 DEF IInv, Stored
  <1>4. LoopInv'
    BY <1>2 DEF LoopInv
  <1>5. <<>> \in Seq(Row) /\ DOMAIN <<>> = {}
    OBVIOUS
  <1>6. page' \in Seq(Row) /\ \A j \in DOMAIN page' : page'[j].id \in 1 .. lastId'
    BY <1>2, <1>5
  <1>7. 0 \in 0 .. MaxRows /\ 1 \in 1 .. MaxRows + 1
    BY <1>1
  <1>8. faults' \in 0 .. MaxFaults
    BY <1>2 DEF IInv, Typed
  <1>9. ASSUME got' \in Seq(Row), files' \in Seq(Seq(Row)), first' \in BOOLEAN,
               steady' \in BOOLEAN
        PROVE  Typed'
    BY <1>2, <1>6, <1>7, <1>8, <1>9 DEF Typed
  <1>10. (steady' => kind' # "export") => Between'
    BY <1>2 DEF Between
  <1> QED BY <1>2, <1>3, <1>4, <1>9, <1>10

LEMMA FirstPageKeeps ==
  ASSUME IInv, NEW k \in Kind \ {"export"}, NEW n \in Sizes, FirstPage(k, n)
  PROVE  IInv'
  <1>1. PageSize(k, n) \in Nat
    BY PagingAssumption DEF PageSize
  <1>2. Start(k, 0, PageSize(k, n)) /\ k \in Kind /\ k # "export"
    BY DEF FirstPage
  <1>3. got' = <<>> /\ first' = FALSE /\ steady' = TRUE /\ files' = files
    BY DEF FirstPage
  <1>4. <<>> \in Seq(Row) /\ files \in Seq(Seq(Row))
    BY DEF IInv, Typed
  <1>5. /\ Stored' /\ LoopInv' /\ Typed' /\ Between'
        /\ pc' = "count" /\ offset' = 0 /\ kind' = k
    BY <1>1, <1>2, <1>3, <1>4, StartKeeps
  <1>6. ClientInv'
    BY <1>5 DEF ClientInv
  <1>7. ExportInv'
    BY <1>2, <1>5 DEF ExportInv
  <1> QED BY <1>5, <1>6, <1>7 DEF IInv

LEMMA NextPageKeeps ==
  ASSUME IInv, NextPage
  PROVE  IInv'
  <1>1. /\ kind \in Kind /\ offset \in Nat /\ size \in Nat /\ offset + size \in Nat
        /\ got \in Seq(Row) /\ files \in Seq(Seq(Row)) /\ first \in BOOLEAN
        /\ steady \in BOOLEAN
    BY DEF IInv, Typed
  <1>2. /\ kind # "export" /\ size > 0 /\ Start(kind, offset + size, size)
        /\ got' = got /\ before' = before /\ first' = first /\ steady' = steady
        /\ files' = files /\ pc = "idle"
    BY DEF NextPage, client, Start
  <1>3. /\ Stored' /\ LoopInv' /\ Typed' /\ Between' /\ rows' = rows
        /\ pc' = "count" /\ offset' = offset + size /\ kind' = kind /\ faults' = faults
    BY <1>1, <1>2, StartKeeps
  <1>4. ClientInv'
    <2> SUFFICES ASSUME steady', faults' = 0, NEW w \in BOOLEAN, first' = w
                 PROVE  Ahead(w, offset)'
      BY <1>3 DEF ClientInv
    <2>1. Ahead(w, offset + size)
      BY <1>2, <1>3 DEF IInv, ClientInv
    <2>2. offset + size <= offset + size
      BY <1>1
    <2>3. \A b \in before' :
            Had(b)' \/ \E k \in 1 .. Len(Shown(w)') :
              k > offset + size /\ Shown(w)'[k].id = b
      BY <1>1, <1>2, <1>3, <2>1, <2>2, AheadStays, ZenonT(30)
    <2> QED BY <1>3, <2>3 DEF Ahead
  <1>5. ExportInv'
    BY <1>2, <1>3 DEF ExportInv
  <1> QED BY <1>3, <1>4, <1>5 DEF IInv

LEMMA ExportKeeps ==
  ASSUME IInv, Export
  PROVE  IInv'
  <1>1. FileSize \in Nat /\ "export" \in Kind /\ <<>> \in Seq(Row) /\ <<>> \in Seq(Seq(Row))
    BY PagingAssumption DEF Kind
  <1>2. /\ Start("export", 0, FileSize) /\ files' = <<>>
        /\ got' = <<>> /\ first' = FALSE /\ steady' = FALSE
    BY DEF Export
  <1>3. /\ Stored' /\ LoopInv' /\ Typed' /\ Between'
        /\ pc' = "count" /\ offset' = 0 /\ size' = FileSize /\ wide' = FALSE
    BY <1>1, <1>2, StartKeeps
  <1>4. ClientInv'
    BY <1>2 DEF ClientInv
  <1>5. ExportInv'
    BY <1>2, <1>3 DEF ExportInv
  <1> QED BY <1>3, <1>4, <1>5 DEF IInv

\* The client and the files, as the rows and the request, stay as they are.
LEMMA QuietStep ==
  ASSUME IInv, UNCHANGED <<table, request, files, client>>, pc = "rows",
         pc' \in {"rows", "end"}, wide' = wide, faults' = faults
  PROVE  Stored' /\ ClientInv' /\ ExportInv'
  <1>1. /\ rows' = rows /\ kind' = kind /\ offset' = offset /\ size' = size
        /\ files' = files /\ got' = got /\ before' = before /\ first' = first
        /\ steady' = steady
    BY DEF table, request, client
  <1>2. offset \in Nat /\ kind \in Kind /\ wide \in BOOLEAN
    BY DEF IInv, Typed
  <1>3. Stored'
    BY StoredStays DEF IInv
  <1>4. ClientInv'
    <2> SUFFICES ASSUME steady', faults' = 0, NEW w \in BOOLEAN,
                        (offset' = 0 /\ wide' = w) \/ (offset' > 0 /\ first' = w)
                 PROVE  Ahead(w, offset)'
      BY DEF ClientInv
    <2>1. Ahead(w, offset)
      BY <1>1, <1>2 DEF IInv, ClientInv
    <2>2. offset <= offset
      BY <1>2
    <2>3. \A b \in before' :
            Had(b)' \/ \E k \in 1 .. Len(Shown(w)') : k > offset /\ Shown(w)'[k].id = b
      BY <1>1, <1>2, <2>1, <2>2, AheadStays
    <2> QED BY <1>1, <2>3 DEF Ahead
  <1>5. ExportInv'
    <2> SUFFICES ASSUME kind' = "export", faults' = 0
                 PROVE  /\ size' = FileSize
                        /\ (offset' = 0 /\ files' = <<>>) \/ Long'
                        /\ wide' => Found(FALSE)' = <<>>
      BY DEF ExportInv
    <2>1. Found(FALSE)' = Found(FALSE) /\ Found(TRUE)' = Found(TRUE)
      BY <1>1, ListsStay
    <2>2. /\ size = FileSize
          /\ (offset = 0 /\ files = <<>>) \/ Long
          /\ wide => Found(FALSE) = <<>>
      BY <1>1 DEF IInv, ExportInv
    <2> QED BY <1>1, <2>1, <2>2 DEF Long
  <1> QED BY <1>3, <1>4, <1>5

LEMMA CountKeeps ==
  ASSUME IInv, Count
  PROVE  IInv'
  <1>1. /\ pc = "count" /\ pc' = "rows" /\ total' = Len(Found(wide))
        /\ rows' = rows /\ lastId' = lastId /\ kind' = kind /\ offset' = offset
        /\ size' = size /\ wide' = wide /\ i' = i /\ cnt' = cnt /\ sz' = sz
        /\ page' = page /\ files' = files /\ got' = got /\ first' = first
        /\ steady' = steady /\ faults' = faults
        /\ before' = IF offset = 0 THEN Ids(Shown(wide)) ELSE before
    BY DEF Count, table, request
  <1>2. /\ total = 0 /\ i = 1 /\ cnt = 0 /\ sz = 0 /\ page = <<>>
        /\ offset \in Nat /\ size \in Nat /\ wide \in BOOLEAN /\ kind \in Kind
    BY <1>1 DEF IInv, Typed, Between
  <1>3. /\ Len(Found(wide)) \in Nat /\ Len(Found(wide)) <= MaxRows
        /\ Shown(wide) \in Seq(Row) /\ Len(Shown(wide)) \in Nat
        /\ \A k \in 1 .. Len(Shown(wide)) : Places(wide)[k] \in 1 .. Len(Found(wide))
    BY <1>2, Lists DEF IInv
  <1>4. MaxRows \in Nat
    BY PagingAssumption
  <1>5. Stored'
    BY <1>1 DEF IInv, Stored
  <1>6. total' \in 0 .. MaxRows
    BY <1>1, <1>3, <1>4
  <1>7. Typed' /\ Between'
    BY <1>1, <1>6 DEF IInv, Typed, Between
  <1>8. LoopInv'
    <2> SUFFICES ASSUME NEW w \in BOOLEAN, wide = w PROVE Reading(w)'
      BY <1>1 DEF LoopInv
    <2>1. Found(w)' = Found(w) /\ Shown(w)' = Shown(w) /\ Places(w)' = Places(w)
      BY <1>1, ListsStay
    <2>2. \A k \in 1 .. Len(Shown(w)) : Places(w)[k] < 1 <=> k <= 0
      BY <1>3
    <2>3. Past' = 0
      BY <1>1, <1>2 DEF Past
    <2>4. Len(page) = 0 /\ 1 \in 1 .. Len(Found(w)) + 1
      BY <1>2, <1>3
    <2> QED BY <1>1, <1>2, <1>3, <2>1, <2>2, <2>3, <2>4 DEF Reading
  <1>9. ClientInv'
    <2> SUFFICES ASSUME steady', faults' = 0, NEW w \in BOOLEAN,
                        (offset' = 0 /\ wide' = w) \/ (offset' > 0 /\ first' = w)
                 PROVE  Ahead(w, offset)'
      BY <1>1 DEF ClientInv
    <2>1. CASE offset = 0
      <3>1. wide = w /\ before' = Ids(Shown(w)) /\ Shown(w)' = Shown(w) /\ offset' = 0
        BY <1>1, <2>1, ListsStay
      <3>2. ASSUME NEW b \in Ids(Shown(w))
            PROVE  \E k \in 1 .. Len(Shown(w)) : k > 0 /\ Shown(w)[k].id = b
        <4>1. DOMAIN Shown(w) = 1 .. Len(Shown(w))
          BY <1>3, <3>1
        <4>2. PICK k \in DOMAIN Shown(w) : Shown(w)[k].id = b
          BY DEF Ids
        <4> QED BY <4>1, <4>2
      <3> QED BY <3>1, <3>2 DEF Ahead
    <2>2. CASE offset # 0
      <3>1. before' = before /\ Ahead(w, offset)
        BY <1>1, <1>2, <2>2 DEF IInv, ClientInv
      <3>2. offset <= offset
        BY <1>2
      <3>3. \A b \in before' :
              Had(b)' \/ \E k \in 1 .. Len(Shown(w)') : k > offset /\ Shown(w)'[k].id = b
        BY <1>1, <1>2, <3>1, <3>2, AheadStays
      <3> QED BY <1>1, <3>3 DEF Ahead
    <2> QED BY <2>1, <2>2
  <1>10. ExportInv'
    <2>1. Found(FALSE)' = Found(FALSE) /\ Found(TRUE)' = Found(TRUE)
      BY <1>1, ListsStay
    <2> QED BY <1>1, <2>1 DEF IInv, ExportInv, Long
  <1> QED BY <1>5, <1>7, <1>8, <1>9, <1>10 DEF IInv

\* What the loop knows of the row it comes to.
LEMMA AtRow ==
  ASSUME IInv, pc = "rows"
  PROVE  /\ wide \in BOOLEAN /\ kind \in Kind /\ Stored /\ Reading(wide)
         /\ Found(wide) \in Seq(Row) /\ Shown(wide) \in Seq(Row)
         /\ Len(Found(wide)) \in Nat /\ Len(Found(wide)) <= MaxRows /\ MaxRows \in Nat
         /\ Len(Shown(wide)) \in Nat /\ Len(Shown(wide)) <= Len(Found(wide))
         /\ total \in Nat /\ i \in Nat /\ cnt \in Nat /\ sz \in Nat
         /\ offset \in Nat /\ size \in Nat /\ Past \in Nat /\ page \in Seq(Row)
  <1>1. /\ wide \in BOOLEAN /\ kind \in Kind /\ Stored /\ offset \in Nat /\ size \in Nat
        /\ page \in Seq(Row)
    BY DEF IInv, Typed
  <1>2. MaxRows \in Nat
    BY PagingAssumption
  <1>3. total \in Nat /\ i \in Nat /\ cnt \in Nat /\ sz \in Nat
    BY <1>2 DEF IInv, Typed
  <1>4. Reading(wide)
    BY <1>1 DEF IInv, LoopInv
  <1>5. Past \in Nat
    BY <1>3 DEF Past
  <1> QED BY <1>1, <1>2, <1>3, <1>4, <1>5, Lists

LEMMA DropRowKeeps ==
  ASSUME IInv, DropRow
  PROVE  IInv'
  <1>1. /\ pc = "rows" /\ pc' = pc /\ i' = i + 1 /\ wide' = wide /\ faults' = faults
        /\ total' = total /\ cnt' = cnt /\ sz' = sz /\ page' = page
        /\ UNCHANGED <<table, request, files, client>>
        /\ i <= Len(Found(wide)) /\ Cards /\ ~Found(wide)[i].passes
    BY DEF DropRow, Row1
  <1>2. /\ rows' = rows /\ lastId' = lastId /\ kind' = kind /\ offset' = offset
        /\ size' = size /\ got' = got /\ first' = first /\ steady' = steady
        /\ files' = files
    BY <1>1 DEF table, request, client
  <1>3. Stored' /\ ClientInv' /\ ExportInv'
    BY <1>1, QuietStep
  <1>4. i \in 1 .. Len(Found(wide)) /\ i + 1 \in 1 .. Len(Found(wide)) + 1
        /\ i + 1 \in 1 .. MaxRows + 1
    BY <1>1, AtRow DEF Reading
  <1>5. Typed' /\ Between'
    BY <1>1, <1>2, <1>4 DEF IInv, Typed, Between
  <1>6. LoopInv'
    <2> SUFFICES ASSUME NEW w \in BOOLEAN, wide = w PROVE Reading(w)'
      BY <1>1 DEF LoopInv
    <2>1. Found(w)' = Found(w) /\ Shown(w)' = Shown(w) /\ Places(w)' = Places(w)
      BY <1>2, ListsStay
    <2>2. Past' = Past
      BY <1>1, <1>2 DEF Past
    <2>3. Reading(w)
      BY <1>1, AtRow
    <2>4. /\ Stored /\ kind \in Kind /\ i \in 1 .. Len(Found(w)) /\ Past \in Nat
          /\ ~Found(w)[i].passes
      BY <1>1, <1>4, AtRow
    <2>5. \A k \in 1 .. Len(Shown(w)) : Places(w)[k] < i <=> k <= Past
      BY <2>3 DEF Reading
    <2>6. \A k \in 1 .. Len(Shown(w)) : Places(w)[k] < i + 1 <=> k <= Past
      BY <1>1, <2>4, <2>5, NotShown
    <2> QED BY <1>1, <1>2, <1>4, <2>1, <2>2, <2>3, <2>6 DEF Reading
  <1> QED BY <1>3, <1>5, <1>6 DEF IInv

\* The next of the list is at i.
LEMMA RowIsNext ==
  ASSUME IInv, Visible
  PROVE  /\ pc = "rows" /\ i \in 1 .. Len(Found(wide))
         /\ i + 1 \in 1 .. Len(Found(wide)) + 1 /\ i + 1 \in 1 .. MaxRows + 1
         /\ Past + 1 <= Len(Shown(wide)) /\ Shown(wide)[Past + 1] = Found(wide)[i]
         /\ \A k \in 1 .. Len(Shown(wide)) : Places(wide)[k] < i + 1 <=> k <= Past + 1
  <1>1. pc = "rows" /\ i <= Len(Found(wide)) /\ (Cards => Found(wide)[i].passes)
    BY DEF Visible, Row1
  <1>2. /\ i \in 1 .. Len(Found(wide)) /\ i + 1 \in 1 .. Len(Found(wide)) + 1
        /\ i + 1 \in 1 .. MaxRows + 1
    BY <1>1, AtRow DEF Reading
  <1>3. /\ Past <= Len(Shown(wide)) /\ Past \in Nat /\ Stored /\ kind \in Kind
        /\ wide \in BOOLEAN
        /\ \A k \in 1 .. Len(Shown(wide)) : Places(wide)[k] < i <=> k <= Past
    BY <1>1, AtRow DEF Reading
  <1> QED BY <1>1, <1>2, <1>3, NextShown

LEMMA SkipRowKeeps ==
  ASSUME IInv, SkipRow
  PROVE  IInv'
  <1>1. /\ Visible /\ pc = "rows" /\ pc' = pc /\ i' = i + 1 /\ cnt' = cnt + 1
        /\ wide' = wide /\ faults' = faults /\ cnt < offset
        /\ total' = total /\ sz' = sz /\ page' = page
        /\ UNCHANGED <<table, request, files, client>>
    BY DEF SkipRow, Visible, Off
  <1>2. /\ rows' = rows /\ lastId' = lastId /\ kind' = kind /\ offset' = offset
        /\ size' = size /\ got' = got /\ first' = first /\ steady' = steady
        /\ files' = files
    BY <1>1 DEF table, request, client
  <1>3. Stored' /\ ClientInv' /\ ExportInv'
    BY <1>1, QuietStep
  <1>4. Reading(wide) /\ sz = 0 /\ Past = cnt /\ Past' = cnt + 1
    <2>1. Reading(wide) /\ sz = 0 /\ cnt \in Nat
      BY <1>1, AtRow DEF Reading
    <2> QED BY <1>1, <1>2, <2>1 DEF Past
  <1>5. cnt + 1 \in 0 .. MaxRows
    BY <1>1, <1>4, AtRow, RowIsNext
  <1>6. Typed' /\ Between'
    BY <1>1, <1>2, <1>5, RowIsNext DEF IInv, Typed, Between
  <1>7. LoopInv'
    <2> SUFFICES ASSUME NEW w \in BOOLEAN, wide = w PROVE Reading(w)'
      BY <1>1 DEF LoopInv
    <2>1. Found(w)' = Found(w) /\ Shown(w)' = Shown(w) /\ Places(w)' = Places(w)
      BY <1>2, ListsStay
    <2>2. /\ i + 1 \in 1 .. Len(Found(w)) + 1 /\ cnt + 1 <= Len(Shown(w))
          /\ \A k \in 1 .. Len(Shown(w)) : Places(w)[k] < i + 1 <=> k <= cnt + 1
      BY <1>1, <1>4, RowIsNext
    <2>3. Reading(w) /\ cnt \in Nat /\ offset \in Nat
      BY <1>1, <1>4, AtRow
    <2>4. cnt + 1 < offset \/ cnt + 1 = offset + 0
      BY <1>1, <2>3
    <2> QED BY <1>1, <1>2, <1>4, <2>1, <2>2, <2>3, <2>4 DEF Reading
  <1> QED BY <1>3, <1>6, <1>7 DEF IInv

LEMMA TakeRowKeeps ==
  ASSUME IInv, TakeRow
  PROVE  IInv'
  <1>1. /\ Visible /\ pc = "rows" /\ pc' = pc /\ i' = i + 1 /\ sz' = sz + 1
        /\ cnt' = (IF kind = "users" THEN cnt ELSE cnt + 1)
        /\ wide' = wide /\ faults' = faults /\ ~(cnt < offset) /\ ~(sz >= size)
        /\ total' = total /\ page' = Append(page, Found(wide)[i])
        /\ UNCHANGED <<table, request, files, client>>
    BY DEF TakeRow, Visible, Off, Full, Row1
  <1>2. /\ rows' = rows /\ lastId' = lastId /\ kind' = kind /\ offset' = offset
        /\ size' = size /\ got' = got /\ first' = first /\ steady' = steady
        /\ files' = files
    BY <1>1 DEF table, request, client
  <1>3. Stored' /\ ClientInv' /\ ExportInv'
    BY <1>1, QuietStep
  <1>4. /\ Reading(wide) /\ Past = offset + sz
        /\ cnt \in Nat /\ sz \in Nat /\ offset \in Nat /\ size \in Nat /\ Past \in Nat
        /\ Len(page) = sz /\ page \in Seq(Row)
    BY <1>1, AtRow DEF Reading
  <1>5. Past' = Past + 1
    BY <1>1, <1>2, <1>4 DEF Past
  <1>6. /\ Past + 1 <= Len(Shown(wide)) /\ Len(Shown(wide)) <= MaxRows
        /\ Found(wide)[i] \in Row /\ Shown(wide)[Past + 1] = Found(wide)[i]
    <2>1. \A n \in 1 .. Len(Found(wide)) : Found(wide)[n] \in Row
      BY <1>1, AtRow, SMTT(30)
    <2>2. /\ i \in 1 .. Len(Found(wide)) /\ Past + 1 <= Len(Shown(wide))
          /\ Shown(wide)[Past + 1] = Found(wide)[i]
      BY <1>1, RowIsNext
    <2>3. Len(Shown(wide)) <= MaxRows
      BY <1>1, AtRow
    <2> QED BY <2>1, <2>2, <2>3
  <1>7. cnt' \in 0 .. MaxRows /\ sz' \in 0 .. MaxRows
    <2>1. cnt \in 0 .. MaxRows /\ MaxRows \in Nat
      BY PagingAssumption DEF IInv, Typed
    <2>2. sz + 1 <= MaxRows
      BY <1>1, <1>4, <1>6, AtRow
    <2>3. kind # "users" => cnt + 1 <= MaxRows
      BY <1>1, <1>4, <1>6, AtRow DEF Past
    <2> QED BY <1>1, <1>4, <2>1, <2>2, <2>3
  <1> DEFINE r == Found(wide)[i]
  <1>8. /\ page' \in Seq(Row) /\ Len(page') = sz + 1
        /\ \A k \in 1 .. sz : page'[k] = page[k]
        /\ page'[sz + 1] = r
    <2>1. page' = Append(page, r) /\ r \in Row
      BY <1>1, <1>6
    <2> HIDE DEF r
    <2> QED BY <1>4, <2>1
  <1>9. r.id \in 1 .. lastId
    <2>1. PICK f : Picks(f, rows, Found(wide))
      <3>1. Found(wide) = FoundOf(rows, Cards, wide)
        BY OfTheRows
      <3>2. rows \in Seq(Row) /\ Cards \in BOOLEAN /\ wide \in BOOLEAN
        BY DEF IInv, Stored, Typed, Cards
      <3> QED BY <3>1, <3>2, FoundIs
    <2>2. i \in 1 .. Len(Found(wide))
      BY <1>1, RowIsNext
    <2>3. f[i] \in 1 .. Len(rows) /\ r = rows[f[i]]
      BY <2>1, <2>2 DEF Picks
    <2>4. DOMAIN rows = 1 .. Len(rows)
      BY DEF IInv, Stored
    <2> HIDE DEF r
    <2> QED BY <2>3, <2>4 DEF IInv, Stored
  <1>10. \A k \in DOMAIN page' : page'[k].id \in 1 .. lastId
    <2>1. DOMAIN page' = 1 .. sz + 1 /\ DOMAIN page = 1 .. sz
      BY <1>4, <1>8
    <2>2. \A k \in 1 .. sz + 1 : k = sz + 1 \/ k \in 1 .. sz
      BY <1>4
    <2>3. \A k \in DOMAIN page : page[k].id \in 1 .. lastId
      BY DEF IInv, Typed
    <2> HIDE DEF r
    <2> QED BY <1>8, <1>9, <2>1, <2>2, <2>3
  <1>11. Typed' /\ Between'
    <2>1. i + 1 \in 1 .. MaxRows + 1
      BY <1>1, RowIsNext
    <2> QED BY <1>1, <1>2, <1>7, <1>8, <1>10, <2>1 DEF IInv, Typed, Between
  <1>12. LoopInv'
    <2> SUFFICES ASSUME NEW w \in BOOLEAN, wide = w PROVE Reading(w)'
      BY <1>1 DEF LoopInv
    <2>1. Found(w)' = Found(w) /\ Shown(w)' = Shown(w) /\ Places(w)' = Places(w)
      BY <1>2, ListsStay
    <2>2. /\ i + 1 \in 1 .. Len(Found(w)) + 1 /\ Past + 1 <= Len(Shown(w))
          /\ Shown(w)[Past + 1] = r
          /\ \A k \in 1 .. Len(Shown(w)) : Places(w)[k] < i + 1 <=> k <= Past + 1
      BY <1>1, RowIsNext
    <2>3. Reading(w)
      BY <1>4
    <2>4. ~(cnt' < offset) /\ Past + 1 = offset + (sz + 1) /\ sz + 1 <= size
      BY <1>1, <1>4
    <2>5. \A k \in 1 .. sz + 1 : page'[k] = Shown(w)[offset + k]
      <3>1. \A k \in 1 .. sz + 1 : k = sz + 1 \/ k \in 1 .. sz
        BY <1>4
      <3>2. \A k \in 1 .. sz : page[k] = Shown(w)[offset + k]
        BY <2>3 DEF Reading
      <3> HIDE DEF r
      <3> QED BY <1>8, <2>2, <2>4, <3>1, <3>2
    <2> HIDE DEF r
    <2> QED BY <1>1, <1>2, <1>5, <1>8, <2>1, <2>2, <2>3, <2>4, <2>5 DEF Reading
  <1> QED BY <1>3, <1>11, <1>12 DEF IInv

\* What is left of the list when the loop ends is cut off.
LEMMA LoopEndsKeeps ==
  ASSUME IInv, LoopEnds
  PROVE  IInv'
  <1>1. /\ pc = "rows" /\ pc' = "end" /\ i' = i /\ wide' = wide /\ faults' = faults
        /\ total' = total /\ cnt' = cnt /\ sz' = sz /\ page' = page
        /\ UNCHANGED <<table, request, files, client>>
        /\ i > Len(Found(wide)) \/ (~(cnt < offset) /\ sz >= size)
    BY DEF LoopEnds, locals, Off, Full
  <1>2. /\ rows' = rows /\ lastId' = lastId /\ kind' = kind /\ offset' = offset
        /\ size' = size /\ got' = got /\ first' = first /\ steady' = steady
        /\ files' = files
    BY <1>1 DEF table, request, client
  <1>3. Stored' /\ ClientInv' /\ ExportInv'
    BY <1>1, QuietStep
  <1>4. /\ Reading(wide) /\ wide \in BOOLEAN /\ kind \in Kind /\ Stored
        /\ Len(Found(wide)) \in Nat /\ Len(Shown(wide)) \in Nat
        /\ Len(Shown(wide)) <= Len(Found(wide)) /\ page \in Seq(Row)
        /\ i \in Nat /\ cnt \in Nat /\ sz \in Nat /\ offset \in Nat /\ size \in Nat
        /\ Past \in Nat
    BY <1>1, AtRow
  <1>5. /\ total = Len(Found(wide)) /\ Past <= Len(Shown(wide)) /\ sz <= size
        /\ IF cnt < offset THEN sz = 0 ELSE Past = offset + sz
        /\ Len(page) = sz /\ DOMAIN page = 1 .. sz
        /\ \A k \in 1 .. sz : page[k] = Shown(wide)[offset + k]
        /\ \A k \in 1 .. Len(Shown(wide)) : Places(wide)[k] < i <=> k <= Past
    BY <1>4 DEF Reading
  <1>6. offset + sz <= Len(Shown(wide)) \/ sz = 0
    BY <1>4, <1>5
  <1>7. sz = size \/ offset + sz >= Len(Shown(wide))
    <2>1. CASE ~(cnt < offset) /\ sz >= size
      BY <1>4, <1>5, <2>1
    <2>2. CASE i > Len(Found(wide))
      <3>1. Past >= Len(Shown(wide))
        <4>1. CASE Len(Shown(wide)) = 0
          BY <1>4, <4>1
        <4>2. CASE Len(Shown(wide)) # 0
          <5> DEFINE n == Len(Shown(wide))
          <5>1. n \in 1 .. n
            BY <1>4, <4>2
          <5>2. Places(wide)[n] \in 1 .. Len(Found(wide))
            BY <1>4, <5>1, Lists
          <5>3. Places(wide)[n] < i
            BY <1>4, <2>2, <5>2
          <5> QED BY <1>5, <5>1, <5>3
        <4> QED BY <4>1, <4>2
      <3>2. cnt < offset => Past < offset
        BY <1>4, <1>5 DEF Past
      <3> QED BY <1>4, <1>5, <3>1, <3>2
    <2> QED BY <1>1, <2>1, <2>2
  <1>8. total = 0 => page = <<>>
    BY <1>4, <1>5, <1>6
  <1>9. Typed' /\ Between'
    BY <1>1, <1>2, <1>8 DEF IInv, Typed, Between
  <1>10. LoopInv'
    <2> SUFFICES ASSUME NEW w \in BOOLEAN, wide = w
                 PROVE  total' = Len(Found(w)') /\ Cut(w)'
      BY <1>1 DEF LoopInv
    <2>1. Found(w)' = Found(w) /\ Shown(w)' = Shown(w)
      BY <1>2, ListsStay
    <2>2. \A k \in DOMAIN page :
            offset + k <= Len(Shown(w)) /\ page[k] = Shown(w)[offset + k]
      BY <1>4, <1>5, <1>6
    <2> QED BY <1>1, <1>2, <1>5, <1>7, <2>1, <2>2 DEF Cut
  <1> QED BY <1>3, <1>9, <1>10 DEF IInv

LEMMA LoopFaultKeeps ==
  ASSUME IInv, LoopFault
  PROVE  IInv'
  <1>1. /\ pc \in {"count", "rows"} /\ pc' = "end" /\ faults' = faults + 1
        /\ faults < MaxFaults
        /\ i' = i /\ wide' = wide /\ total' = total /\ cnt' = cnt /\ sz' = sz /\ page' = page
        /\ UNCHANGED <<table, request, files, client>>
    BY DEF LoopFault, locals
  <1>2. /\ rows' = rows /\ lastId' = lastId /\ kind' = kind /\ offset' = offset
        /\ size' = size /\ got' = got /\ first' = first /\ steady' = steady
        /\ files' = files
    BY <1>1 DEF table, request, client
  <1>3. faults' \in 0 .. MaxFaults /\ faults' # 0
    <2>1. faults \in 0 .. MaxFaults /\ MaxFaults \in Nat
      BY PagingAssumption DEF IInv, Typed
    <2> QED BY <1>1, <2>1
  <1>4. total = 0 => page = <<>>
    <2>1. CASE pc = "count"
      BY <2>1 DEF IInv, Between
    <2>2. CASE pc = "rows"
      <3>1. /\ Len(Found(wide)) \in Nat /\ Len(Shown(wide)) \in Nat
            /\ Len(Shown(wide)) <= Len(Found(wide)) /\ page \in Seq(Row)
            /\ cnt \in Nat /\ sz \in Nat /\ offset \in Nat /\ Past \in Nat
        BY <2>2, AtRow
      <3>2. /\ total = Len(Found(wide)) /\ Past <= Len(Shown(wide))
            /\ IF cnt < offset THEN sz = 0 ELSE Past = offset + sz
            /\ Len(page) = sz
        BY <2>2, AtRow DEF Reading
      <3> QED BY <3>1, <3>2
    <2> QED BY <1>1, <2>1, <2>2
  <1>5. Stored'
    BY <1>1, StoredStays DEF IInv
  <1>6. Typed' /\ Between'
    BY <1>1, <1>2, <1>3, <1>4 DEF IInv, Typed, Between
  <1>7. LoopInv' /\ ClientInv' /\ ExportInv'
    BY <1>1, <1>3 DEF LoopInv, ClientInv, ExportInv
  <1> QED BY <1>5, <1>6, <1>7 DEF IInv

LEMMA WidenKeeps ==
  ASSUME IInv, Widen
  PROVE  IInv'
  <1>1. /\ pc = "end" /\ pc' = "count" /\ total = 0 /\ wide = FALSE /\ wide' = TRUE
        /\ total' = 0 /\ i' = 1 /\ cnt' = 0 /\ sz' = 0 /\ page' = page
        /\ faults' = faults /\ UNCHANGED <<table, request, files, client>>
    BY DEF Widen, LoopInit, None, IInv, Typed
  <1>2. /\ rows' = rows /\ lastId' = lastId /\ kind' = kind /\ offset' = offset
        /\ size' = size /\ got' = got /\ before' = before /\ first' = first
        /\ steady' = steady /\ files' = files
    BY <1>1 DEF table, request, client
  <1>3. MaxRows \in Nat /\ page = <<>> /\ offset \in Nat
    BY <1>1, PagingAssumption DEF IInv, Typed, Between
  <1>4. Stored'
    BY <1>1, StoredStays DEF IInv
  <1>5. 0 \in 0 .. MaxRows /\ 1 \in 1 .. MaxRows + 1
    BY <1>3
  <1>6. Typed' /\ Between'
    BY <1>1, <1>2, <1>3, <1>5 DEF IInv, Typed, Between
  <1>7. LoopInv'
    BY <1>1 DEF LoopInv
  <1>8. ClientInv'
    <2> SUFFICES ASSUME steady', faults' = 0, NEW w \in BOOLEAN, offset' > 0, first' = w
                 PROVE  Ahead(w, offset)'
      BY <1>1 DEF ClientInv
    <2>1. Ahead(w, offset)
      BY <1>1, <1>2 DEF IInv, ClientInv
    <2>2. offset <= offset
      BY <1>3
    <2>3. \A b \in before' :
            Had(b)' \/ \E k \in 1 .. Len(Shown(w)') : k > offset /\ Shown(w)'[k].id = b
      BY <1>2, <1>3, <2>1, <2>2, AheadStays
    <2> QED BY <1>2, <2>3 DEF Ahead
  <1>9. ExportInv'
    <2> SUFFICES ASSUME kind' = "export", faults' = 0
                 PROVE  /\ size' = FileSize
                        /\ (offset' = 0 /\ files' = <<>>) \/ Long'
                        /\ Found(FALSE)' = <<>>
      BY <1>1 DEF ExportInv
    <2>1. Found(FALSE)' = Found(FALSE) /\ Found(TRUE)' = Found(TRUE)
      BY <1>2, ListsStay
    <2>2. size = FileSize /\ ((offset = 0 /\ files = <<>>) \/ Long)
      BY <1>1, <1>2 DEF IInv, ExportInv
    <2>3. Len(Found(FALSE)) = 0
      BY <1>1 DEF IInv, LoopInv
    <2>4. Found(FALSE) \in Seq(Row)
      BY Lists DEF IInv, Typed
    <2>5. Found(FALSE) = <<>>
      BY <2>3, <2>4, EmptySeq
    <2> QED BY <1>2, <2>1, <2>2, <2>5 DEF Long
  <1> QED BY <1>4, <1>6, <1>7, <1>8, <1>9 DEF IInv

\* What was ahead of the client and not in the page is after it.
LEMMA AnswerKeeps ==
  ASSUME IInv, Answer
  PROVE  IInv'
  <1>1. /\ pc = "end" /\ kind # "export" /\ pc' = "idle" /\ got' = got \o page
        /\ first' = (IF offset = 0 THEN wide ELSE first)
        /\ steady' = (steady /\ first' = wide)
        /\ wide' = FALSE /\ total' = 0 /\ i' = 1 /\ cnt' = 0 /\ sz' = 0 /\ page' = page
        /\ rows' = rows /\ lastId' = lastId /\ kind' = kind /\ offset' = offset
        /\ size' = size /\ before' = before /\ files' = files /\ faults' = faults
    BY DEF Answer, LoopInit, table, request
  <1>2. /\ MaxRows \in Nat /\ offset \in Nat /\ size \in Nat /\ wide \in BOOLEAN
        /\ page \in Seq(Row) /\ got \in Seq(Row) /\ first \in BOOLEAN /\ steady \in BOOLEAN
        /\ kind \in Kind
    BY PagingAssumption DEF IInv, Typed
  <1>3. Stored'
    BY <1>1 DEF IInv, Stored
  <1>4. 0 \in 0 .. MaxRows /\ 1 \in 1 .. MaxRows + 1
    BY <1>2
  <1>5. got' \in Seq(Row) /\ first' \in BOOLEAN /\ steady' \in BOOLEAN
    BY <1>1, <1>2
  <1>6. Typed' /\ Between'
    BY <1>1, <1>4, <1>5 DEF IInv, Typed, Between
  <1>7. LoopInv' /\ ExportInv'
    BY <1>1 DEF LoopInv, ExportInv
  <1>8. /\ \A j \in DOMAIN got : j \in DOMAIN got' /\ got'[j] = got[j]
        /\ \A j \in DOMAIN page : Len(got) + j \in DOMAIN got' /\ got'[Len(got) + j] = page[j]
    BY <1>1, <1>2
  <1>9. \A b : Had(b) => Had(b)'
    BY <1>8 DEF Had
  <1>10. \A j \in DOMAIN page : \E l \in DOMAIN got' : got'[l].id = page[j].id
    BY <1>8
  <1>11. ClientInv'
    <2> SUFFICES ASSUME steady', faults' = 0, size' > 0, NEW w \in BOOLEAN, first' = w
                 PROVE  /\ Ahead(w, offset + size)'
                        /\ page' = <<>> => \A b \in before' : Had(b)'
      BY <1>1 DEF ClientInv
    <2>1. steady /\ wide = w /\ (offset = 0 \/ first = w)
      BY <1>1
    <2>2. Ahead(w, offset) /\ Cut(w)
      BY <1>1, <1>2, <2>1 DEF IInv, ClientInv, LoopInv
    <2>3. Shown(w)' = Shown(w)
      BY <1>1, ListsStay
    <2>4. Shown(w) \in Seq(Row) /\ Len(Shown(w)) \in Nat
      BY <1>2, Lists DEF IInv
    <2>5. /\ Len(page) <= size /\ Len(page) \in Nat /\ DOMAIN page = 1 .. Len(page)
          /\ Len(page) = size \/ offset + Len(page) >= Len(Shown(w))
          /\ \A k \in DOMAIN page : page[k] = Shown(w)[offset + k]
      BY <1>2, <2>2 DEF Cut
    <2>6. ASSUME NEW b \in before
          PROVE  Had(b)' \/ (page # <<>> /\ \E k \in 1 .. Len(Shown(w)) :
                               k > offset + size /\ Shown(w)[k].id = b)
      <3>1. CASE Had(b)
        BY <1>9, <3>1
      <3>2. CASE ~Had(b)
        <4>1. PICK k \in 1 .. Len(Shown(w)) : k > offset /\ Shown(w)[k].id = b
          BY <2>2, <3>2 DEF Ahead
        <4> DEFINE n == Len(page)
        <4>0. /\ k \in Nat /\ offset \in Nat /\ size \in Nat /\ n \in Nat
              /\ k <= Len(Shown(w)) /\ Len(Shown(w)) \in Nat /\ DOMAIN page = 1 .. n
              /\ n = size \/ offset + n >= Len(Shown(w))
          <5>1. k \in Nat /\ k <= Len(Shown(w))
            BY <2>4, <4>1
          <5> QED BY <1>2, <2>4, <2>5, <5>1
        <4> HIDE DEF n
        <4>2. CASE k - offset <= n
          <5>1. k - offset \in DOMAIN page /\ offset + (k - offset) = k
            BY <4>0, <4>1, <4>2
          <5>2. page[k - offset].id = b
            BY <2>5, <4>1, <5>1
          <5>3. \E l \in DOMAIN got' : got'[l].id = b
            BY <1>10, <5>1, <5>2
          <5> QED BY <5>3 DEF Had
        <4>3. CASE k - offset > n
          <5>1. n = size /\ k > offset + size
            BY <4>0, <4>1, <4>3
          <5>2. page # <<>>
            BY <1>1, <1>2, <5>1 DEF n
          <5> QED BY <4>1, <5>1, <5>2
        <4> QED BY <4>0, <4>1, <4>2, <4>3
      <3> QED BY <3>1, <3>2
    <2>7. Ahead(w, offset + size)'
      BY <1>1, <2>3, <2>6 DEF Ahead
    <2> QED BY <1>1, <2>6, <2>7
  <1> QED BY <1>3, <1>6, <1>7, <1>11 DEF IInv

\* The last file is the first one: what it lacks to be full, the list lacks too.
LEMMA LastIsWhole ==
  ASSUME IInv, ExportFile, faults = 0, LastFile
  PROVE  files = <<>> /\ page = Shown(wide)
  <1>1. /\ pc = "end" /\ kind = "export" /\ (wide \/ total # 0) /\ total < size
    BY DEF ExportFile, None, LastFile
  <1>2. /\ wide \in BOOLEAN /\ Stored /\ offset \in Nat /\ page \in Seq(Row)
        /\ FileSize \in Nat /\ FileSize # 0 /\ kind \in Kind
    BY PagingAssumption DEF IInv, Typed
  <1>3. /\ size = FileSize
        /\ (offset = 0 /\ files = <<>>) \/ Long
        /\ wide => Found(FALSE) = <<>>
    BY <1>1 DEF IInv, ExportInv
  <1>4. total = Len(Found(wide)) /\ Cut(wide)
    BY <1>1, <1>2 DEF IInv, LoopInv
  <1>5. ~Long
    <2>1. Len(<<>>) = 0
      OBVIOUS
    <2> DEFINE f == Len(Found(FALSE))
               e == Len(Found(TRUE))
    <2>2. /\ f \in Nat /\ e \in Nat
          /\ Found(FALSE) = <<>> => f = 0
          /\ Long <=> (FileSize <= f) \/ (Found(FALSE) = <<>> /\ FileSize <= e)
      <3>1. \A w \in BOOLEAN : Len(Found(w)) \in Nat
        BY <1>2, Lists
      <3>2. f \in Nat /\ e \in Nat
        BY <3>1, Zenon
      <3>3. Found(FALSE) = <<>> => f = 0
        BY <2>1, Zenon
      <3>4. Long <=> (FileSize <= f) \/ (Found(FALSE) = <<>> /\ FileSize <= e)
        BY DEF Long
      <3> HIDE DEF f, e
      <3> QED BY <3>2, <3>3, <3>4
    <2>3. total < FileSize
      BY <1>1, <1>3
    <2>4. IF wide THEN Found(FALSE) = <<>> /\ total = e ELSE total = f /\ total # 0
      <3>1. wide = TRUE \/ wide = FALSE
        BY <1>2
      <3>2. CASE wide = TRUE
        BY <1>3, <1>4, <3>2, Zenon
      <3>3. CASE wide = FALSE
        BY <1>1, <1>4, <3>3, Zenon
      <3> QED BY <3>1, <3>2, <3>3
    <2> HIDE DEF f, e
    <2>5. CASE wide
      <3>1. /\ Found(FALSE) = <<>> /\ total = e
        BY <2>4, <2>5
      <3>2. f = 0
        BY <2>2, <3>1
      <3>3. ~(FileSize <= f) /\ ~(FileSize <= e)
        BY <1>2, <2>2, <2>3, <3>1, <3>2
      <3> QED BY <2>2, <3>3
    <2>6. CASE ~wide
      <3>1. total = f /\ total # 0
        BY <2>4, <2>6
      <3>2. ~(FileSize <= f) /\ f # 0
        BY <1>2, <2>2, <2>3, <3>1
      <3> QED BY <2>2, <3>2
    <2> QED BY <2>5, <2>6
  <1> DEFINE u == Shown(wide)
             n == Len(page)
  <1>6. offset = 0 /\ files = <<>>
    BY <1>3, <1>5
  <1>7. u \in Seq(Row) /\ Len(u) \in Nat /\ Len(u) <= Len(Found(wide)) /\ Len(Found(wide)) \in Nat
    BY <1>2, Lists
  <1>8. /\ n \in Nat /\ DOMAIN page = 1 .. n
        /\ n = size \/ n >= Len(u)
        /\ \A k \in 1 .. n : k <= Len(u) /\ page[k] = u[k]
    <2>1. /\ n = size \/ offset + n >= Len(u)
          /\ \A k \in DOMAIN page : offset + k <= Len(u) /\ page[k] = u[offset + k]
      BY <1>4 DEF Cut
    <2>2. n \in Nat /\ DOMAIN page = 1 .. n
      BY <1>2
    <2> HIDE DEF n, u
    <2>3. \A k \in 1 .. n : offset + k = k
      BY <1>6, <2>2
    <2>4. offset + n = n
      BY <1>6, <2>2
    <2>5. n = size \/ n >= Len(u)
      BY <2>1, <2>4
    <2>6. \A k \in 1 .. n : k <= Len(u) /\ page[k] = u[k]
      <3> TAKE k \in 1 .. n
      <3>1. offset + k <= Len(u) /\ page[k] = u[offset + k]
        BY <2>1, <2>2
      <3> QED BY <2>3, <3>1
    <2> QED BY <2>2, <2>5, <2>6
  <1> HIDE DEF n, u
  <1>9. n = Len(u)
    <2>1. n # 0 => n \in 1 .. n
      BY <1>8
    <2> QED BY <1>1, <1>2, <1>3, <1>4, <1>7, <1>8, <2>1
  <1>10. page = u
    BY <1>2, <1>7, <1>8, <1>9, SeqEqual DEF n
  <1> QED BY <1>6, <1>10 DEF u

LEMMA ExportFileKeeps ==
  ASSUME IInv, ExportFile
  PROVE  IInv'
  <1>1. /\ pc = "end" /\ kind = "export" /\ kind' = kind /\ faults' = faults
        /\ rows' = rows /\ lastId' = lastId /\ size' = size
        /\ got' = got /\ before' = before /\ first' = first /\ steady' = steady
        /\ files' = IF Len(files) < MaxFiles THEN Append(files, page) ELSE files
    BY DEF ExportFile, table, client, request
  <1>2. /\ MaxRows \in Nat /\ offset \in Nat /\ wide \in BOOLEAN /\ page \in Seq(Row)
        /\ files \in Seq(Seq(Row)) /\ FileSize \in Nat /\ MaxFiles \in Nat \ {0}
    BY PagingAssumption DEF IInv, Typed
  <1>3. Stored'
    BY <1>1 DEF IInv, Stored
  <1>4. files' \in Seq(Seq(Row))
    BY <1>1, <1>2
  <1>5. ~steady /\ ClientInv'
    BY <1>1 DEF IInv, Between, ClientInv
  <1>6. CASE LastFile
    <2>1. /\ pc' = "exported" /\ offset' = offset /\ wide' = wide /\ total' = total
          /\ i' = i /\ cnt' = cnt /\ sz' = sz /\ page' = page
      BY <1>6 DEF ExportFile, request, locals
    <2>2. Typed' /\ Between'
      BY <1>1, <1>4, <1>5, <2>1 DEF IInv, Typed, Between
    <2>3. LoopInv'
      BY <2>1 DEF LoopInv
    <2>4. ExportInv'
      <3> SUFFICES ASSUME faults = 0, NEW w \in BOOLEAN, wide = w
                   PROVE  files' = <<page>> /\ page = Shown(w)'
        BY <1>1, <2>1 DEF ExportInv
      <3>1. files = <<>> /\ page = Shown(w)
        BY <1>6, LastIsWhole
      <3>2. Shown(w)' = Shown(w)
        BY <1>1, ListsStay
      <3>3. Append(<<>>, page) = <<page>> /\ Len(<<>>) = 0
        OBVIOUS
      <3> QED BY <1>1, <1>2, <3>1, <3>2, <3>3
    <2> QED BY <1>3, <1>5, <2>2, <2>3, <2>4 DEF IInv
  <1>7. CASE ~LastFile
    <2>1. /\ pc' = "count" /\ wide' = FALSE /\ page' = <<>> /\ total' = 0 /\ i' = 1
          /\ cnt' = 0 /\ sz' = 0
          /\ offset' = IF Len(files) < MaxFiles THEN offset + FileSize ELSE offset
      BY <1>7 DEF ExportFile, LoopInit
    <2>2. <<>> \in Seq(Row) /\ DOMAIN <<>> = {} /\ 0 \in 0 .. MaxRows /\ 1 \in 1 .. MaxRows + 1
      BY <1>2
    <2>3. offset' \in Nat
      BY <1>2, <2>1
    <2>4. page' \in Seq(Row) /\ \A k \in DOMAIN page' : page'[k].id \in 1 .. lastId'
      BY <2>1, <2>2
    <2>5. Typed' /\ Between'
      BY <1>1, <1>4, <1>5, <2>1, <2>2, <2>3, <2>4 DEF IInv, Typed, Between
    <2>6. LoopInv'
      BY <2>1 DEF LoopInv
    <2>7. ExportInv'
      <3> SUFFICES ASSUME faults = 0 PROVE size' = FileSize /\ Long'
        BY <1>1, <2>1 DEF ExportInv
      <3>1. size = FileSize /\ (wide => Found(FALSE) = <<>>)
        BY <1>1 DEF IInv, ExportInv
      <3>2. total = Len(Found(wide))
        BY <1>1, <1>2 DEF IInv, LoopInv
      <3>3. FileSize <= Len(Found(wide))
        <4>1. total \in 0 .. MaxRows /\ ~(total < FileSize)
          BY <1>7, <3>1 DEF LastFile, IInv, Typed
        <4> QED BY <1>2, <3>2, <4>1
      <3>4. Long
        <4>1. CASE wide
          <5>1. wide = TRUE
            BY <1>2, <4>1
          <5> QED BY <3>1, <3>3, <5>1 DEF Long
        <4>2. CASE ~wide
          <5>1. wide = FALSE
            BY <1>2, <4>2
          <5> QED BY <3>3, <5>1 DEF Long
        <4> QED BY <4>1, <4>2
      <3>5. Found(FALSE)' = Found(FALSE) /\ Found(TRUE)' = Found(TRUE)
        BY <1>1, ListsStay
      <3> QED BY <1>1, <3>1, <3>4, <3>5 DEF Long
    <2> QED BY <1>3, <1>5, <2>5, <2>6, <2>7 DEF IInv
  <1> QED BY <1>6, <1>7

LEMMA ExportedKeeps ==
  ASSUME IInv, Exported
  PROVE  IInv'
  <1>1. /\ pc = "exported" /\ pc' = "idle" /\ files' = <<>> /\ page' = <<>>
        /\ wide' = FALSE /\ total' = 0 /\ i' = 1 /\ cnt' = 0 /\ sz' = 0
        /\ rows' = rows /\ lastId' = lastId /\ kind' = kind /\ offset' = offset
        /\ size' = size /\ got' = got /\ first' = first /\ steady' = steady
        /\ faults' = faults
    BY DEF Exported, LoopInit, table, request, client
  <1>2. MaxRows \in Nat
    BY PagingAssumption
  <1>3. /\ <<>> \in Seq(Row) /\ <<>> \in Seq(Seq(Row)) /\ DOMAIN <<>> = {}
        /\ 0 \in 0 .. MaxRows /\ 1 \in 1 .. MaxRows + 1
    BY <1>2
  <1>4. Stored'
    BY <1>1 DEF IInv, Stored
  <1>5. ~steady
    BY <1>1 DEF IInv, Between
  <1>6. page' \in Seq(Row) /\ \A k \in DOMAIN page' : page'[k].id \in 1 .. lastId'
    BY <1>1, <1>3
  <1>7. Typed' /\ Between'
    BY <1>1, <1>3, <1>5, <1>6 DEF IInv, Typed, Between
  <1>8. LoopInv' /\ ClientInv' /\ ExportInv'
    BY <1>1, <1>5 DEF LoopInv, ClientInv, ExportInv
  <1> QED BY <1>4, <1>7, <1>8 DEF IInv

LEMMA RowAddedKeeps ==
  ASSUME IInv, RowAdded
  PROVE  IInv'
  <1>1. /\ pc = "idle" /\ pc' = pc /\ lastId < MaxRows /\ lastId' = lastId + 1
        /\ kind' = kind /\ offset' = offset /\ size' = size /\ wide' = wide
        /\ total' = total /\ i' = i /\ cnt' = cnt /\ sz' = sz /\ page' = page
        /\ files' = files /\ got' = got /\ before' = before /\ first' = first
        /\ steady' = steady /\ faults' = faults
    BY DEF RowAdded, request, locals, client
  <1>2. PICK n \in 1 .. Len(rows) + 1 : \E e, p \in BOOLEAN :
          rows' = InsertAt(rows, n, [id |-> lastId + 1, exact |-> e, passes |-> p])
    BY DEF RowAdded
  <1>3. PICK e \in BOOLEAN, p \in BOOLEAN :
          rows' = InsertAt(rows, n, [id |-> lastId + 1, exact |-> e, passes |-> p])
    BY <1>2
  <1> DEFINE x == [id |-> lastId + 1, exact |-> e, passes |-> p]
             at(j) == IF j < n THEN j ELSE j + 1
  <1>4. /\ MaxRows \in Nat /\ lastId \in Nat /\ lastId + 1 \in 1 .. MaxRows
        /\ rows \in Seq(Row) /\ Len(rows) \in Nat /\ DOMAIN rows = 1 .. Len(rows)
    BY <1>1, PagingAssumption DEF IInv, Stored
  <1>5. x \in Row /\ x.id = lastId + 1
    BY <1>4 DEF Row
  <1>6. rows' = InsertAt(rows, n, x)
    BY <1>3
  <1> HIDE DEF x
  <1>7. /\ rows' \in Seq(Row) /\ Len(rows') = Len(rows) + 1 /\ rows'[n] = x
        /\ \A j \in 1 .. Len(rows) : rows'[at(j)] = rows[j]
    BY <1>4, <1>5, <1>6, InsertedIs
  <1>8. DOMAIN rows' = 1 .. Len(rows) + 1
    BY <1>7
  <1>9. \A l \in 1 .. Len(rows) + 1 : l = n \/ \E j \in 1 .. Len(rows) : l = at(j)
    <2> SUFFICES ASSUME NEW l \in 1 .. Len(rows) + 1, l # n
                 PROVE  \E j \in 1 .. Len(rows) : l = at(j)
      OBVIOUS
    <2>1. CASE l < n
      <3>1. l \in 1 .. Len(rows) /\ l = at(l)
        BY <1>4, <2>1
      <3> QED BY <3>1
    <2>2. CASE l > n
      <3>1. l - 1 \in 1 .. Len(rows) /\ l = at(l - 1)
        BY <1>4, <2>2
      <3> QED BY <3>1
    <2> QED BY <1>4, <2>1, <2>2
  <1> HIDE DEF at
  <1>10. /\ \A j \in 1 .. Len(rows) : rows[j].id \in 1 .. lastId
         /\ \A j, k \in 1 .. Len(rows) : rows[j].id = rows[k].id => j = k
    BY <1>4 DEF IInv, Stored
  <1>11. \A l \in 1 .. Len(rows) + 1 : rows'[l].id \in 1 .. lastId + 1
    <2> SUFFICES ASSUME NEW l \in 1 .. Len(rows) + 1
                 PROVE  rows'[l].id \in 1 .. lastId + 1
      OBVIOUS
    <2>1. CASE l = n
      BY <1>4, <1>5, <1>7, <2>1
    <2>2. CASE l # n
      <3>1. PICK j \in 1 .. Len(rows) : l = at(j)
        BY <1>9, <2>2
      <3>2. rows'[l].id = rows[j].id /\ rows[j].id \in 1 .. lastId
        BY <1>7, <1>10, <3>1
      <3> QED BY <1>4, <3>2
    <2> QED BY <2>1, <2>2
  <1>12. ASSUME NEW l \in 1 .. Len(rows) + 1, NEW m \in 1 .. Len(rows) + 1,
                rows'[l].id = rows'[m].id
         PROVE  l = m
    <2>1. \A j \in 1 .. Len(rows) : rows'[at(j)].id # rows'[n].id
      BY <1>4, <1>5, <1>7, <1>10
    <2>2. CASE l = n
      BY <1>9, <1>12, <2>1, <2>2
    <2>3. CASE m = n
      BY <1>9, <1>12, <2>1, <2>3
    <2>4. CASE l # n /\ m # n
      <3>1. PICK j \in 1 .. Len(rows) : l = at(j)
        BY <1>9, <2>4
      <3>2. PICK k \in 1 .. Len(rows) : m = at(k)
        BY <1>9, <2>4
      <3>3. j = k
        BY <1>7, <1>10, <1>12, <3>1, <3>2
      <3> QED BY <3>1, <3>2, <3>3
    <2> QED BY <2>2, <2>3, <2>4
  <1>13. Stored'
    BY <1>1, <1>4, <1>7, <1>8, <1>11, <1>12 DEF Stored
  <1>14. \A k \in DOMAIN page : page[k].id \in 1 .. lastId + 1
    <2>1. \A k \in DOMAIN page : page[k].id \in 1 .. lastId
      BY DEF IInv, Typed
    <2> QED BY <1>4, <2>1
  <1>15. Typed' /\ Between'
    BY <1>1, <1>14 DEF IInv, Typed, Between
  <1>16. LoopInv' /\ ExportInv'
    BY <1>1 DEF LoopInv, ExportInv
  <1>17. ClientInv'
    <2> SUFFICES ASSUME steady, faults = 0, NEW w \in BOOLEAN, size > 0, first = w
                 PROVE  /\ Ahead(w, offset + size)'
                        /\ page' = <<>> => \A b \in before' : Had(b)'
      BY <1>1 DEF ClientInv
    <2>1. /\ Ahead(w, offset + size)
          /\ page = <<>> => \A b \in before : Had(b)
      BY <1>1 DEF IInv, ClientInv
    <2>2. \A b : Had(b)' <=> Had(b)
      BY <1>1 DEF Had
    <2> DEFINE u == Shown(w)
               v == Shown(w)'
               m == offset + size
    <2>3. /\ u = ShownOf(rows, Cards, w) /\ v = ShownOf(InsertAt(rows, n, x), Cards, w)
          /\ Cards \in BOOLEAN
      <3>1. Cards' = Cards /\ Cards \in BOOLEAN
        BY <1>1 DEF Cards
      <3>2. v = ShownOf(rows', Cards', w)
        BY OfTheRowsAfter
      <3>3. u = ShownOf(rows, Cards, w)
        BY OfTheRows
      <3> QED BY <1>6, <3>1, <3>2, <3>3
    <2>4. m \in Nat /\ m' = m
      BY <1>1 DEF IInv, Typed
    <2>5. Len(u) \in Nat /\ Len(v) \in Nat
      <3>1. u \in Seq(Row) /\ v \in Seq(Row)
        <4>1. InsertAt(rows, n, x) \in Seq(Row)
          BY <1>6, <1>7
        <4> QED BY <1>4, <2>3, <4>1, ShownOfRows
      <3> HIDE DEF u, v
      <3> QED BY <3>1
    <2> HIDE DEF u, v
    <2>6. \A k \in 1 .. Len(u) : \E j \in 1 .. Len(v) : j >= k /\ v[j] = u[k]
      BY <1>4, <1>5, <2>3, ShownStill, ZenonT(30)
    <2>7. ASSUME NEW b \in before
          PROVE  Had(b) \/ \E j \in 1 .. Len(v) : j > m /\ v[j].id = b
      <3>1. CASE Had(b)
        BY <3>1
      <3>2. CASE ~Had(b)
        <4>1. PICK k \in 1 .. Len(u) : k > m /\ u[k].id = b
          BY <2>1, <3>2 DEF Ahead, u
        <4>2. PICK j \in 1 .. Len(v) : j >= k /\ v[j] = u[k]
          BY <2>6
        <4>3. j > m
          <5> HIDE DEF m
          <5> QED BY <2>4, <2>5, <4>1, <4>2
        <4> QED BY <4>1, <4>2, <4>3
      <3> QED BY <3>1, <3>2
    <2>8. Ahead(w, offset + size)'
      BY <1>1, <2>2, <2>7 DEF Ahead, v
    <2> QED BY <1>1, <2>1, <2>2, <2>8
  <1> QED BY <1>13, <1>15, <1>16, <1>17 DEF IInv

LEMMA RowGoneKeeps ==
  ASSUME IInv, RowGone
  PROVE  IInv'
  <1>1. /\ pc = "idle" /\ pc' = pc /\ lastId' = lastId /\ steady' = FALSE
        /\ kind' = kind /\ offset' = offset /\ size' = size /\ wide' = wide
        /\ total' = total /\ i' = i /\ cnt' = cnt /\ sz' = sz /\ page' = page
        /\ files' = files /\ got' = got /\ first' = first /\ faults' = faults
    BY DEF RowGone, request, locals
  <1>2. PICK n \in DOMAIN rows : rows' = RemoveAt(rows, n)
    BY DEF RowGone
  <1>3. rows \in Seq(Row) /\ Len(rows) \in Nat /\ DOMAIN rows = 1 .. Len(rows)
    BY DEF IInv, Stored
  <1> DEFINE a == SubSeq(rows, 1, n - 1)
             b == SubSeq(rows, n + 1, Len(rows))
             from(k) == IF k < n THEN k ELSE k + 1
  <1>4. /\ a \in Seq(Row) /\ Len(a) = n - 1
        /\ \A k \in 1 .. n - 1 : a[k] = rows[k]
    BY <1>3
  <1>5. /\ b \in Seq(Row) /\ Len(b) = Len(rows) - n
        /\ \A k \in 1 .. Len(rows) - n : b[k] = rows[n + k]
    BY <1>3
  <1>6. rows' = a \o b
    BY <1>2 DEF RemoveAt
  <1> HIDE DEF a, b
  <1>7. /\ rows' \in Seq(Row) /\ Len(rows') = Len(rows) - 1
        /\ \A k \in 1 .. n - 1 : rows'[k] = a[k]
        /\ \A k \in 1 .. Len(rows) - n : rows'[n - 1 + k] = b[k]
    <2>1. n \in Nat /\ n >= 1 /\ n <= Len(rows)
      BY <1>3
    <2>2. a \o b \in Seq(Row) /\ Len(a \o b) = Len(a) + Len(b)
      BY <1>4, <1>5, ConcatProperties
    <2>3. Len(a) + Len(b) = Len(rows) - 1
      BY <1>3, <1>4, <1>5, <2>1
    <2>4. \A k \in 1 .. n - 1 : (a \o b)[k] = a[k]
      BY <1>3, <1>4, <1>5, <2>1
    <2>5. \A k \in 1 .. Len(rows) - n : (a \o b)[n - 1 + k] = b[k]
      <3> TAKE k \in 1 .. Len(rows) - n
      <3>1. /\ n - 1 + k \in 1 .. Len(a) + Len(b)
            /\ ~(n - 1 + k <= Len(a)) /\ n - 1 + k - Len(a) = k
        BY <1>3, <1>4, <1>5, <2>1, SMTT(30)
      <3>2. \A j \in 1 .. Len(a) + Len(b) : (a \o b)[j] =
              IF j <= Len(a) THEN a[j] ELSE b[j - Len(a)]
        BY <1>4, <1>5, ConcatProperties
      <3> DEFINE m == n - 1 + k
      <3> HIDE DEF m
      <3>3. (a \o b)[m] = b[m - Len(a)]
        BY <3>1, <3>2 DEF m
      <3>4. m - Len(a) = k
        BY <3>1 DEF m
      <3> QED BY <3>3, <3>4, Zenon DEF m
    <2> QED BY <1>6, <2>2, <2>3, <2>4, <2>5
  <1>8. DOMAIN rows' = 1 .. Len(rows) - 1
    BY <1>7
  <1>9. ASSUME NEW k \in 1 .. Len(rows) - 1
        PROVE  from(k) \in 1 .. Len(rows) /\ rows'[k] = rows[from(k)]
    <2>1. CASE k < n
      BY <1>3, <1>4, <1>7, <2>1
    <2>2. CASE ~(k < n)
      <3> DEFINE j == k - n + 1
      <3>1. j \in 1 .. Len(rows) - n /\ n - 1 + j = k /\ n + j = k + 1
            /\ k + 1 \in 1 .. Len(rows)
        BY <1>3, <2>2
      <3> HIDE DEF j
      <3>2. rows'[n - 1 + j] = b[j] /\ b[j] = rows[n + j]
        BY <1>5, <1>7, <3>1
      <3> QED BY <2>2, <3>1, <3>2
    <2> QED BY <2>1, <2>2
  <1>10. \A j, k \in 1 .. Len(rows) - 1 : from(j) = from(k) => j = k
    BY <1>3
  <1> HIDE DEF from
  <1>11. Stored'
    <2>1. /\ \A j \in 1 .. Len(rows) : rows[j].id \in 1 .. lastId
          /\ \A j, k \in 1 .. Len(rows) : rows[j].id = rows[k].id => j = k
          /\ lastId \in 0 .. MaxRows
      BY <1>3 DEF IInv, Stored
    <2>2. \A k \in 1 .. Len(rows) - 1 : rows'[k].id \in 1 .. lastId
      BY <1>9, <2>1
    <2>3. \A j, k \in 1 .. Len(rows) - 1 : rows'[j].id = rows'[k].id => j = k
      <3> SUFFICES ASSUME NEW j \in 1 .. Len(rows) - 1, NEW k \in 1 .. Len(rows) - 1,
                          rows'[j].id = rows'[k].id
                   PROVE  j = k
        OBVIOUS
      <3>1. /\ from(j) \in 1 .. Len(rows) /\ from(k) \in 1 .. Len(rows)
            /\ rows[from(j)].id = rows[from(k)].id
        BY <1>9
      <3>2. from(j) = from(k)
        BY <2>1, <3>1, Zenon
      <3> QED BY <1>10, <3>2
    <2> QED BY <1>1, <1>7, <1>8, <2>1, <2>2, <2>3 DEF Stored
  <1>12. Typed' /\ Between'
    BY <1>1 DEF IInv, Typed, Between
  <1>13. LoopInv' /\ ClientInv' /\ ExportInv'
    BY <1>1 DEF LoopInv, ClientInv, ExportInv
  <1> QED BY <1>11, <1>12, <1>13 DEF IInv

LEMMA NextKeeps == IInv /\ [Next]_vars => IInv'
  <1> SUFFICES ASSUME IInv, [Next]_vars PROVE IInv'
    OBVIOUS
  <1>1. CASE Loop
    BY <1>1, CountKeeps, DropRowKeeps, SkipRowKeeps, TakeRowKeeps, LoopEndsKeeps,
       WidenKeeps, AnswerKeeps, ExportFileKeeps DEF Loop
  <1>2. CASE LoopFault
    BY <1>2, LoopFaultKeeps
  <1>3. CASE Exported
    BY <1>3, ExportedKeeps
  <1>4. CASE \E k \in Kind \ {"export"}, n \in Sizes : FirstPage(k, n)
    BY <1>4, FirstPageKeeps
  <1>5. CASE NextPage
    BY <1>5, NextPageKeeps
  <1>6. CASE Export
    BY <1>6, ExportKeeps
  <1>7. CASE RowAdded
    BY <1>7, RowAddedKeeps
  <1>8. CASE RowGone
    BY <1>8, RowGoneKeeps
  <1>9. CASE UNCHANGED vars
    <2>1. /\ rows' = rows /\ lastId' = lastId /\ pc' = pc
          /\ kind' = kind /\ offset' = offset /\ size' = size /\ wide' = wide
          /\ total' = total /\ i' = i /\ cnt' = cnt /\ sz' = sz /\ page' = page
          /\ files' = files /\ got' = got /\ before' = before /\ first' = first
          /\ steady' = steady /\ faults' = faults
      BY <1>9 DEF vars, table, request, locals, client
    <2>2. Stored' /\ Typed' /\ Between'
      BY <2>1 DEF IInv, Stored, Typed, Between
    <2>3. \A w : Found(w)' = Found(w) /\ Shown(w)' = Shown(w) /\ Places(w)' = Places(w)
      BY <2>1, ListsStay
    <2>4. Past' = Past
      BY <2>1 DEF Past
    <2>5. LoopInv'
      BY <2>1, <2>3, <2>4 DEF IInv, LoopInv, Reading, Cut
    <2>6. ClientInv'
      <3>1. \A b : Had(b)' <=> Had(b)
        BY <2>1 DEF Had
      <3> QED BY <2>1, <2>3, <3>1 DEF IInv, ClientInv, Ahead
    <2>7. ExportInv'
      BY <2>1, <2>3 DEF IInv, ExportInv, Long
    <2> QED BY <2>2, <2>5, <2>6, <2>7 DEF IInv
  <1> QED BY <1>1, <1>2, <1>3, <1>4, <1>5, <1>6, <1>7, <1>8, <1>9 DEF Next

LEMMA Invariance == Spec => []IInv
  BY InitKeeps, NextKeeps, PTL DEF Spec

----------------------------------------------------------------------------
(* The theorems.                                                            *)

\* Whatever rows there are, and whatever throws, the counters of loadCards and
\* of the loops of getBox, lsUser and lsJournal stay within the rows; and a page
\* made without a throw is the slice of the list that its offset and its size cut
\* out, in spite of the rows that fall and of the two ways of counting.
THEOREM PagesAreSlices == Spec => []PagingInvariant
  <1>1. IInv => TypeOK
    <2> SUFFICES ASSUME IInv PROVE TypeOK
      OBVIOUS
    <2>1. rows \in Seq(Row) /\ Cardinality(Ids(rows)) = Len(rows)
      BY FewRows DEF IInv, Stored
    <2>2. Ids(page) \subseteq 1 .. lastId
      BY DEF IInv, Typed, Ids
    <2> QED BY <2>1, <2>2 DEF IInv, Typed, TypeOK
  <1>2. IInv => PageIsSlice
    <2> SUFFICES ASSUME IInv, pc = "end", faults = 0
                 PROVE  page = SubSeq(Shown(wide), offset + 1,
                                      Upto(Shown(wide), offset + size))
      BY DEF PageIsSlice
    <2> DEFINE u == Shown(wide)
               n == Len(page)
               m == Upto(u, offset + size)
    <2>1. /\ wide \in BOOLEAN /\ Stored /\ offset \in Nat /\ size \in Nat
          /\ page \in Seq(Row) /\ kind \in Kind
      BY DEF IInv, Typed
    <2>2. u \in Seq(Row) /\ Len(u) \in Nat
      BY <2>1, Lists
    <2>3. Cut(wide)
      BY <2>1 DEF IInv, LoopInv
    <2>4. /\ n \in Nat /\ n <= size /\ DOMAIN page = 1 .. n
          /\ n = size \/ offset + n >= Len(u)
          /\ \A k \in 1 .. n : offset + k <= Len(u) /\ page[k] = u[offset + k]
      BY <2>1, <2>3 DEF Cut
    <2> HIDE DEF u, n
    <2>5. m \in Nat /\ m <= Len(u) /\ (m = Len(u) \/ m = offset + size)
          /\ m <= offset + size
      BY <2>1, <2>2 DEF Upto
    <2> HIDE DEF m
    <2>6. n # 0 => offset + n <= Len(u)
      <3>1. n # 0 => n \in 1 .. n
        BY <2>4
      <3> QED BY <2>4, <3>1
    <2>7. n = 0 \/ m = offset + n
      <3>1. CASE offset + size <= Len(u)
        <4>1. m = offset + size
          BY <2>1, <2>2, <3>1 DEF m, Upto
        <4> QED BY <2>1, <2>2, <2>4, <2>6, <3>1, <4>1
      <3>2. CASE Len(u) < offset + size
        <4>1. m = Len(u)
          BY <2>1, <2>2, <3>2 DEF m, Upto
        <4> QED BY <2>1, <2>2, <2>4, <2>6, <3>2, <4>1
      <3> QED BY <2>1, <2>2, <3>1, <3>2
    <2>8. n = 0 => m <= offset
      BY <2>1, <2>2, <2>4, <2>5
    <2> DEFINE t == SubSeq(u, offset + 1, m)
    <2>9. /\ t \in Seq(Row) /\ Len(t) = n
          /\ \A k \in 1 .. n : t[k] = u[offset + k]
      <3>1. CASE n = 0
        BY <2>1, <2>2, <2>5, <2>8, <3>1
      <3>2. CASE n # 0
        BY <2>1, <2>2, <2>4, <2>5, <2>6, <2>7, <3>2
      <3> QED BY <3>1, <3>2
    <2> HIDE DEF t
    <2>10. page = t
      BY <2>1, <2>4, <2>9, SeqEqual DEF n
    <2> QED BY <2>10 DEF t, m, u
  <1> QED BY <1>1, <1>2, Invariance, PTL DEF PagingInvariant

\* A client that pages to the end has seen all that was there when it began,
\* whatever rows came in between and wherever they came to lie, when none went
\* and no page was of the widened query but all.
THEOREM NoneIsSkipped == Spec => []NothingSkipped
  <1>1. IInv => NothingSkipped
    <2> SUFFICES ASSUME IInv, pc = "idle", steady, page = <<>>, size > 0, faults = 0
                 PROVE  before \subseteq Ids(got)
      BY DEF NothingSkipped
    <2>1. first \in BOOLEAN
      BY DEF IInv, Typed
    <2>2. \A b \in before : Had(b)
      BY <2>1 DEF IInv, ClientInv
    <2> QED BY <2>2 DEF Had, Ids
  <1> QED BY <1>1, Invariance, PTL

\* An export that ends without a throw has every card of the list in its files,
\* once, however many cards there are and go into a file.
THEOREM ExportsAreWhole == Spec => []ExportWhole
  <1>1. IInv => ExportWhole
    <2> SUFFICES ASSUME IInv, pc = "exported", faults = 0
                 PROVE  FlattenSeq(files) = Shown(wide)
      BY DEF ExportWhole
    <2>1. wide \in BOOLEAN /\ kind = "export"
      BY DEF IInv, Typed, Between
    <2>2. files = <<page>> /\ page = Shown(wide)
      BY <2>1 DEF IInv, ExportInv
    <2> QED BY <2>2, FlattenOne
  <1> QED BY <1>1, Invariance, PTL
=============================================================================
