--------------------------- MODULE OperatorProofs ----------------------------
(***************************************************************************)
(* Facts about the operators the models are built from: numbers, finite    *)
(* sets and sums, and box ids.                                             *)
(* Induction over data is done with smallest counterexamples: the          *)
(* induction theorems of the library take an operator, which the provers   *)
(* do not instantiate, but a set of counterexamples they do.               *)
(***************************************************************************)
EXTENDS BoxPath, FiniteSetsExt, FiniteSetTheorems, TLAPS

\* A family of parts of a finite set has a smallest one.
LEMMA SmallestPart ==
  ASSUME NEW S, IsFiniteSet(S), NEW T, T \subseteq SUBSET S, T # {}
  PROVE  \E m \in T : \A y \in T : y \subseteq m => y = m
  <1>1. FiniteSubsetsOf(S) = SUBSET S
    BY FS_FiniteSubsetsOfFinite
  <1>2. IsWellFoundedOn(StrictSubsetOrdering(S), SUBSET S)
    BY <1>1, FS_StrictSubsetOrderingWellFounded
  <1>3. PICK m \in T : \A y \in T : <<y, m>> \notin StrictSubsetOrdering(S)
    BY <1>2, WFMin
  <1> QED BY <1>3 DEF StrictSubsetOrdering

\* Numbers have a least one.
LEMMA LeastNumber ==
  ASSUME NEW T \in SUBSET Nat, T # {}
  PROVE  \E m \in T : \A y \in T : m <= y
  <1>1. PICK n \in T : TRUE
    OBVIOUS
  <1> DEFINE S == 0 .. n
             F == {u \in SUBSET S : \E x \in T : \A y : y \in u <=> y \in T /\ y <= x}
  <1>2. IsFiniteSet(S)
    BY <1>1, FS_Interval
  <1>3. F \subseteq SUBSET S /\ F # {}
    <2> DEFINE u == {y \in T : y <= n}
    <2>1. \A y \in u : y \in S
      BY <1>1
    <2>2. u \in SUBSET S /\ \A y : y \in u <=> y \in T /\ y <= n
      BY <2>1
    <2> HIDE DEF S, u
    <2> QED BY <2>2, <1>1
  <1>4. PICK m \in F : \A y \in F : y \subseteq m => y = m
    <2> HIDE DEF S, F
    <2> QED BY <1>2, <1>3, SmallestPart
  <1>5. PICK x \in T : \A y : y \in m <=> y \in T /\ y <= x
    BY <1>4
  <1>6. ASSUME NEW y \in T, y < x PROVE FALSE
    <2> DEFINE u == {z \in T : z <= y}
    <2>1. x \in m /\ x \notin u /\ \A z \in u : z \in m
      BY <1>5, <1>6
    <2>2. u \in F
      BY <2>1
    <2> HIDE DEF F, u
    <2> QED BY <2>1, <2>2, <1>4
  <1>7. \A y \in T : x <= y
    BY <1>6
  <1> QED BY <1>7

\* The elements of a set of numbers, the least first.
Sorted(s, S) == /\ s \in [1 .. Cardinality(S) -> S]
                /\ \A i, j \in DOMAIN s : i < j => s[i] < s[j]

\* The least id, before the others in order.
LEMMA SortedExists ==
  ASSUME NEW S, IsFiniteSet(S)
  PROVE  S \subseteq Nat => \E s : Sorted(s, S)
  <1> DEFINE Bad == {T \in SUBSET S : T \subseteq Nat /\ ~\E s : Sorted(s, T)}
  <1> SUFFICES ASSUME Bad # {} PROVE FALSE
    OBVIOUS
  <1>1. PICK T \in Bad : \A U \in Bad : U \subseteq T => U = T
    <2>1. Bad \subseteq SUBSET S /\ Bad # {} /\ IsFiniteSet(S)
      OBVIOUS
    <2> HIDE DEF Bad
    <2>2. \E m \in Bad : \A y \in Bad : y \subseteq m => y = m
      BY <2>1, SmallestPart
    <2> QED BY <2>2
  <1>2. T \in SUBSET Nat /\ IsFiniteSet(T)
    BY FS_Subset
  <1>3. CASE T = {}
    <2> DEFINE s == [i \in 1 .. 0 |-> 0]
    <2>1. Sorted(s, {})
      BY FS_EmptySet DEF Sorted
    <2> QED BY <1>3, <2>1
  <1>4. CASE T # {}
    <2>1. PICK x \in T : \A y \in T : x <= y
      BY <1>2, <1>4, LeastNumber
    <2> DEFINE U == T \ {x}
               n == Cardinality(U)
    <2>2. U \notin Bad /\ U \in SUBSET S
      BY <1>1, <2>1
    <2>3. PICK u : Sorted(u, U)
      BY <2>2
    <2>4. n \in Nat /\ Cardinality(T) = n + 1
      <3>1. IsFiniteSet(U) /\ n = Cardinality(T) - 1
        BY <1>2, <2>1, FS_RemoveElement
      <3>2. Cardinality(T) \in Nat /\ Cardinality(U) \in Nat
        BY <1>2, <3>1, FS_CardinalityType
      <3> QED BY <3>1, <3>2
    <2> DEFINE s == [i \in 1 .. n + 1 |-> IF i = 1 THEN x ELSE u[i - 1]]
    <2>5. /\ u \in [1 .. n -> U]
          /\ \A i, j \in 1 .. n : i < j => u[i] < u[j]
      BY <2>3 DEF Sorted
    <2> HIDE DEF n
    <2>6. \A i \in 2 .. n + 1 : i - 1 \in 1 .. n /\ s[i] = u[i - 1] /\ s[i] \in U
      BY <2>4, <2>5
    <2>7. s \in [1 .. n + 1 -> T]
      <3>1. \A i \in 1 .. n + 1 : i = 1 \/ i \in 2 .. n + 1
        BY <2>4
      <3>2. s[1] = x /\ x \in T /\ \A y \in U : y \in T
        BY <2>1, <2>4
      <3>3. \A i \in 1 .. n + 1 : s[i] \in T
        BY <2>6, <3>1, <3>2
      <3>4. s = [i \in 1 .. n + 1 |-> s[i]]
        OBVIOUS
      <3> HIDE DEF s, U
      <3> QED BY <3>3, <3>4
    <2>8. \A y \in U : x < y
      BY <1>2, <2>1
    <2>9. ASSUME NEW i \in 1 .. n + 1, NEW j \in 1 .. n + 1, i < j
          PROVE  s[i] < s[j]
      <3>1. j \in 2 .. n + 1
        BY <2>4, <2>9
      <3>2. CASE i = 1
        BY <2>4, <2>6, <2>8, <3>1, <3>2
      <3>3. CASE i # 1
        <4>1. i \in 2 .. n + 1 /\ i - 1 < j - 1
          BY <2>4, <2>9, <3>3
        <4> QED BY <2>5, <2>6, <3>1, <4>1
      <3> QED BY <3>2, <3>3
    <2>10. Sorted(s, T)
      <3> HIDE DEF s
      <3> QED BY <2>4, <2>7, <2>9 DEF Sorted
    <2> QED BY <1>1, <2>10
  <1> QED BY <1>3, <1>4

\* Every element once.
LEMMA SortedIs ==
  ASSUME NEW S \in SUBSET Nat, IsFiniteSet(S), NEW s, Sorted(s, S)
  PROVE  /\ Cardinality(S) \in Nat
         /\ \A x \in S : \E i \in 1 .. Cardinality(S) : s[i] = x
         /\ \A i, j \in 1 .. Cardinality(S) : s[i] = s[j] => i = j
  <1> DEFINE n == Cardinality(S)
  <1>1. n \in Nat /\ IsFiniteSet(1 .. n) /\ Cardinality(1 .. n) = n
    BY FS_CardinalityType, FS_Interval
  <1> HIDE DEF n
  <1>2. /\ s \in [1 .. n -> S] /\ DOMAIN s = 1 .. n
        /\ \A i, j \in 1 .. n : i < j => s[i] < s[j]
    BY <1>1 DEF Sorted, n
  <1>3. \A i, j \in 1 .. n : s[i] = s[j] => i = j
    <2> SUFFICES ASSUME NEW i \in 1 .. n, NEW j \in 1 .. n, s[i] = s[j], i # j
                 PROVE  FALSE
      OBVIOUS
    <2>1. s[i] \in Nat /\ s[j] \in Nat
      BY <1>2
    <2>2. i < j \/ j < i
      BY <1>1
    <2> QED BY <1>2, <2>1, <2>2
  <1>4. s \in Injection(1 .. n, S)
    BY <1>2, <1>3 DEF Injection, IsInjective
  <1>5. s \in Surjection(1 .. n, S)
    BY <1>1, <1>4, FS_Injection DEF n
  <1>6. \A x \in S : \E i \in 1 .. n : s[i] = x
    BY <1>5 DEF Surjection
  <1> QED BY <1>1, <1>3, <1>6 DEF n

\* Max, which is a CHOOSE, of a part of an interval.
LEMMA MaxIs ==
  ASSUME NEW k \in Nat, NEW s \in SUBSET (1 .. k)
  PROVE  /\ s # {} => Max(s) \in s
         /\ k \in s => Max(s) = k
  <1>1. ASSUME s # {} PROVE \E x \in s : \A y \in s : x >= y
    <2> DEFINE T == {n \in Nat : \A y \in s : n >= y}
    <2>1. k \in T /\ T \subseteq Nat
      OBVIOUS
    <2> HIDE DEF T
    <2>2. PICK m \in T : \A n \in T : m <= n
      BY <2>1, LeastNumber
    <2> USE DEF T
    <2>3. m \in s
      <3> SUFFICES ASSUME m \notin s PROVE FALSE
        OBVIOUS
      <3>1. \A y \in s : y \in Nat /\ y >= 1 /\ m >= y /\ m # y
        BY <2>2
      <3>2. m \in Nat /\ m # 0
        <4>1. PICK y \in s : TRUE
          BY <1>1
        <4> QED BY <3>1, <4>1
      <3>4. m - 1 \in Nat /\ \A y \in s : m - 1 >= y
        BY <3>2, <3>1
      <3>3. m - 1 \in T
        BY <3>4
      <3> HIDE DEF T
      <3> QED BY <3>3, <2>1, <2>2
    <2> QED BY <2>2, <2>3
  <1>2. ASSUME k \in s PROVE \A x \in s : (\A y \in s : x >= y) => x = k
    BY <1>2
  <1> QED BY <1>1, <1>2 DEF Max


----------------------------------------------------------------------------
(* Sums.  MapThenSumSet is CHOOSE g : g solves an equation, in which a      *)
(* CHOOSE takes the elements in turn.  Sum is the same for the weights in a *)
(* function.                                                                *)

AnyOf(s) == CHOOSE x \in s : TRUE

Adds(g, w, S) ==
  g = [s \in SUBSET S |-> IF s = {} THEN 0 ELSE w[AnyOf(s)] + g[s \ {AnyOf(s)}]]

Sum(w, S) == (CHOOSE g : Adds(g, w, S))[S]

LEMMA AnyOfIn ==
  ASSUME NEW s, s # {}
  PROVE  AnyOf(s) \in s
  BY DEF AnyOf

\* Solutions agree on the parts they share.
LEMMA SumUnique ==
  ASSUME NEW S, IsFiniteSet(S), NEW R, NEW Q, S \subseteq R, S \subseteq Q,
         NEW w, NEW v, \A x \in S : w[x] = v[x],
         NEW g, Adds(g, w, R), NEW h, Adds(h, v, Q)
  PROVE  g[S] = h[S]
  <1> DEFINE Bad == {s \in SUBSET S : g[s] # h[s]}
  <1> SUFFICES ASSUME Bad # {} PROVE FALSE
    OBVIOUS
  <1>1. PICK m \in Bad : \A y \in Bad : y \subseteq m => y = m
    <2>1. Bad \subseteq SUBSET S
      OBVIOUS
    <2> HIDE DEF Bad
    <2> QED BY <2>1, SmallestPart
  <1>2. m \in SUBSET S /\ m \in SUBSET R /\ m \in SUBSET Q /\ g[m] # h[m]
    BY <1>1
  <1>3. m # {}
    BY <1>2 DEF Adds
  <1>4. AnyOf(m) \in m
    BY <1>3, AnyOfIn
  <1>5. g[m \ {AnyOf(m)}] = h[m \ {AnyOf(m)}]
    <2>1. m \ {AnyOf(m)} \in SUBSET S /\ m \ {AnyOf(m)} \subseteq m /\ m \ {AnyOf(m)} # m
      BY <1>2, <1>4
    <2> QED BY <1>1, <2>1
  <1>6. g[m] = w[AnyOf(m)] + g[m \ {AnyOf(m)}] /\ h[m] = v[AnyOf(m)] + h[m \ {AnyOf(m)}]
    <2> HIDE DEF Bad
    <2> QED BY <1>2, <1>3 DEF Adds
  <1>7. w[AnyOf(m)] = v[AnyOf(m)]
    BY <1>2, <1>4
  <1> HIDE DEF Bad
  <1> QED BY <1>2, <1>5, <1>6, <1>7

\* There is a solution: one for a set without an element, extended.
LEMMA SumExists ==
  ASSUME NEW S, IsFiniteSet(S), NEW w
  PROVE  \E g : Adds(g, w, S)
  <1> DEFINE Bad == {s \in SUBSET S : ~\E g : Adds(g, w, s)}
  <1> SUFFICES ASSUME Bad # {} PROVE FALSE
    OBVIOUS
  <1>1. PICK m \in Bad : \A y \in Bad : y \subseteq m => y = m
    <2>1. Bad \subseteq SUBSET S
      OBVIOUS
    <2> HIDE DEF Bad
    <2> QED BY <2>1, SmallestPart
  <1>2. \A s \in SUBSET m : s # m => \E g : Adds(g, w, s)
    BY <1>1
  <1>3. \A s \in SUBSET m : IsFiniteSet(s)
    BY <1>1, FS_Subset
  <1> DEFINE sol(s) == CHOOSE g : Adds(g, w, s)
             h == [s \in SUBSET m |-> IF s = {} THEN 0
                                      ELSE w[AnyOf(s)] + sol(s \ {AnyOf(s)})[s \ {AnyOf(s)}]]
  <1>4. \A s \in SUBSET m : s # m => Adds(sol(s), w, s)
    <2> HIDE DEF Bad
    <2> QED BY <1>2
  <1>5. ASSUME NEW s \in SUBSET m, s # m
        PROVE  sol(s)[s] = h[s]
    <2>1. Adds(sol(s), w, s)
      BY <1>4, <1>5
    <2>2. CASE s = {}
      BY <2>1, <2>2 DEF Adds
    <2>3. CASE s # {}
      <3> DEFINE r == s \ {AnyOf(s)}
      <3>1. AnyOf(s) \in s
        BY <2>3, AnyOfIn
      <3>2. r \in SUBSET m /\ r # m /\ r \subseteq s /\ r \in SUBSET s /\ IsFiniteSet(r)
        BY <1>3, <3>1
      <3>3. Adds(sol(r), w, r)
        BY <1>4, <3>2
      <3>4. sol(s)[r] = sol(r)[r]
        <4> HIDE DEF sol, r, Bad
        <4> QED BY <2>1, <3>2, <3>3, SumUnique
      <3>5. s \in SUBSET s
        OBVIOUS
      <3>6. sol(s)[s] = w[AnyOf(s)] + sol(s)[r]
        <4> HIDE DEF sol, Bad
        <4> QED BY <2>1, <2>3, <3>5 DEF Adds
      <3> HIDE DEF sol, Bad
      <3> QED BY <2>3, <3>4, <3>6
    <2> QED BY <2>2, <2>3
  <1>6. ASSUME NEW s \in SUBSET m
        PROVE  h[s] = IF s = {} THEN 0 ELSE w[AnyOf(s)] + h[s \ {AnyOf(s)}]
    <2>1. s # {} => s \ {AnyOf(s)} \in SUBSET m /\ s \ {AnyOf(s)} # m
      BY AnyOfIn
    <2>2. s # {} => sol(s \ {AnyOf(s)})[s \ {AnyOf(s)}] = h[s \ {AnyOf(s)}]
      <3> HIDE DEF sol, h, Bad
      <3> QED BY <1>5, <2>1
    <2> HIDE DEF sol
    <2> QED BY <2>2
  <1>7. Adds(h, w, m)
    <2>1. h = [s \in SUBSET m |-> h[s]]
      OBVIOUS
    <2> HIDE DEF h, sol, Bad
    <2> QED BY <1>6, <2>1 DEF Adds
  <1> QED BY <1>1, <1>7

\* The sum of nothing; and of equal weights.
LEMMA SumOfNone ==
  ASSUME NEW w
  PROVE  Sum(w, {}) = 0
  <1>1. \E g : Adds(g, w, {})
    BY SumExists, FS_EmptySet
  <1>2. {} \in SUBSET {}
    OBVIOUS
  <1> QED BY <1>1, <1>2 DEF Sum, Adds

LEMMA SumOfEqual ==
  ASSUME NEW S, IsFiniteSet(S), NEW w, NEW v, \A x \in S : w[x] = v[x]
  PROVE  Sum(w, S) = Sum(v, S)
  <1>1. Adds(CHOOSE g : Adds(g, w, S), w, S) /\ Adds(CHOOSE g : Adds(g, v, S), v, S)
    BY SumExists
  <1> QED BY <1>1, SumUnique DEF Sum

\* In the order of the CHOOSE, an element can be taken out.
LEMMA SumFirst ==
  ASSUME NEW S, IsFiniteSet(S), S # {}, NEW w
  PROVE  Sum(w, S) = w[AnyOf(S)] + Sum(w, S \ {AnyOf(S)})
  <1> DEFINE r == S \ {AnyOf(S)}
             g == CHOOSE h : Adds(h, w, S)
             k == CHOOSE h : Adds(h, w, r)
  <1>1. IsFiniteSet(r)
    BY FS_Subset
  <1>2. Adds(g, w, S) /\ Adds(k, w, r)
    <2> HIDE DEF r
    <2> QED BY <1>1, SumExists
  <1>3. g[r] = k[r]
    <2>1. r \subseteq S /\ r \subseteq r
      OBVIOUS
    <2> HIDE DEF g, k, r
    <2> QED BY <1>1, <1>2, <2>1, SumUnique
  <1>4. g[S] = w[AnyOf(S)] + g[r]
    <2>1. S \in SUBSET S
      OBVIOUS
    <2> HIDE DEF g, k
    <2> QED BY <1>2, <2>1 DEF Adds
  <1> QED BY <1>3, <1>4 DEF Sum

\* In any order it can, when the weights are numbers; the sum is one too.
LEMMA SumIsInt ==
  ASSUME NEW S, IsFiniteSet(S), NEW w, NEW N, N = Nat \/ N = Int, \A x \in S : w[x] \in N
  PROVE  Sum(w, S) \in N
  <1> DEFINE Bad == {s \in SUBSET S : Sum(w, s) \notin N}
  <1> SUFFICES ASSUME Bad # {} PROVE FALSE
    OBVIOUS
  <1>1. PICK m \in Bad : \A y \in Bad : y \subseteq m => y = m
    <2>1. Bad \subseteq SUBSET S
      OBVIOUS
    <2> HIDE DEF Bad
    <2> QED BY <2>1, SmallestPart
  <1>2. m \in SUBSET S /\ Sum(w, m) \notin N /\ IsFiniteSet(m)
    BY <1>1, FS_Subset
  <1>3. m # {}
    BY <1>2, SumOfNone
  <1>4. AnyOf(m) \in m /\ w[AnyOf(m)] \in N
    BY <1>2, <1>3, AnyOfIn
  <1>5. Sum(w, m \ {AnyOf(m)}) \in N
    <2>1. m \ {AnyOf(m)} \in SUBSET S /\ m \ {AnyOf(m)} \subseteq m /\ m \ {AnyOf(m)} # m
      BY <1>2, <1>4
    <2> QED BY <1>1, <2>1
  <1>6. Sum(w, m) = w[AnyOf(m)] + Sum(w, m \ {AnyOf(m)})
    <2> HIDE DEF Bad
    <2> QED BY <1>2, <1>3, SumFirst
  <1> HIDE DEF Bad
  <1> QED BY <1>2, <1>4, <1>5, <1>6

LEMMA SumWithout ==
  ASSUME NEW S, IsFiniteSet(S), NEW w, \A x \in S : w[x] \in Int, NEW e \in S
  PROVE  Sum(w, S) = w[e] + Sum(w, S \ {e})
  <1> DEFINE Bad == {s \in SUBSET S : \E x \in s : Sum(w, s) # w[x] + Sum(w, s \ {x})}
  <1> SUFFICES ASSUME Bad # {} PROVE FALSE
    OBVIOUS
  <1>1. PICK m \in Bad : \A y \in Bad : y \subseteq m => y = m
    <2>1. Bad \subseteq SUBSET S
      OBVIOUS
    <2> HIDE DEF Bad
    <2> QED BY <2>1, SmallestPart
  <1>2. PICK x \in m : Sum(w, m) # w[x] + Sum(w, m \ {x})
    BY <1>1
  <1> DEFINE y == AnyOf(m)
  <1>3. m \in SUBSET S /\ y \in m /\ m # {}
    BY <1>1, <1>2, AnyOfIn
  <1>4. \A s \in SUBSET S : IsFiniteSet(s) /\ Sum(w, s) \in Int
    <2> HIDE DEF Bad
    <2>1. ASSUME NEW s \in SUBSET S PROVE IsFiniteSet(s) /\ Sum(w, s) \in Int
      <3>1. IsFiniteSet(s) /\ \A z \in s : w[z] \in Int
        BY FS_Subset
      <3> QED BY <3>1, SumIsInt
    <2> QED BY <2>1
  <1>5. Sum(w, m) = w[y] + Sum(w, m \ {y})
    <2> HIDE DEF Bad
    <2> QED BY <1>3, <1>4, SumFirst
  <1>6. x # y
    BY <1>2, <1>5
  <1>7. Sum(w, m \ {y}) = w[x] + Sum(w, (m \ {y}) \ {x})
    <2>1. m \ {y} \in SUBSET S /\ m \ {y} \subseteq m /\ m \ {y} # m /\ x \in m \ {y}
      BY <1>3, <1>6
    <2> HIDE DEF y
    <2> QED BY <1>1, <2>1
  <1>8. Sum(w, m \ {x}) = w[y] + Sum(w, (m \ {x}) \ {y})
    <2>1. m \ {x} \in SUBSET S /\ m \ {x} \subseteq m /\ m \ {x} # m /\ y \in m \ {x}
      BY <1>3, <1>6
    <2> HIDE DEF y
    <2> QED BY <1>1, <2>1
  <1>9. (m \ {y}) \ {x} = (m \ {x}) \ {y} /\ (m \ {y}) \ {x} \in SUBSET S
    BY <1>3
  <1>10. w[x] \in Int /\ w[y] \in Int /\ Sum(w, (m \ {y}) \ {x}) \in Int
    <2> HIDE DEF Bad, y
    <2> QED BY <1>3, <1>4, <1>9
  <1> DEFINE r == (m \ {y}) \ {x}
  <1>11. Sum(w, m \ {x}) = w[y] + Sum(w, r) /\ Sum(w, m \ {y}) = w[x] + Sum(w, r)
    <2> HIDE DEF Bad, y
    <2> QED BY <1>7, <1>8, <1>9
  <1> HIDE DEF Bad, y, r
  <1>12. Sum(w, m) = w[x] + Sum(w, m \ {x})
    <2> USE DEF r
    <2>1. Sum(w, r) \in Int
      BY <1>10
    <2> HIDE DEF r
    <2> QED BY <1>5, <1>10, <1>11, <2>1
  <1> QED BY <1>2, <1>12

----------------------------------------------------------------------------
(* Remainders, by a modulus of any size.                                    *)

LEMMA DivMod ==
  ASSUME NEW M \in Nat \ {0}, NEW a \in Int
  PROVE  /\ a = M * (a \div M) + (a % M)
         /\ a % M \in 0 .. M - 1 /\ a \div M \in Int
  OBVIOUS

\* Quotient and remainder are unique.
LEMMA ModIs ==
  ASSUME NEW M \in Nat \ {0}, NEW k \in Int, NEW r \in 0 .. M - 1
  PROVE  (M * k + r) % M = r
  <1> DEFINE a == M * k + r
  <1>1. a \in Int
    OBVIOUS
  <1> HIDE DEF a
  <1>2. a = M * (a \div M) + (a % M) /\ a % M \in 0 .. M - 1 /\ a \div M \in Int
    BY <1>1, DivMod
  <1>3. ASSUME NEW l \in Int, NEW s \in 0 .. M - 1, M * k + r = M * l + s PROVE s = r
    BY <1>3
  <1>4. M * k + r = M * (a \div M) + (a % M)
    BY <1>2 DEF a
  <1>5. a % M = r
    BY <1>2, <1>3, <1>4
  <1> QED BY <1>5 DEF a

\* A sum modulo M may be reduced on the way.
LEMMA ModAdd ==
  ASSUME NEW M \in Nat \ {0}, NEW a \in Int, NEW b \in Int
  PROVE  ((a % M) + b) % M = (a + b) % M
  <1> DEFINE k == a \div M
             c == (a % M) + b
             l == c \div M
             s == c % M
  <1>1. a = M * k + (a % M) /\ a % M \in Int /\ k \in Int
    BY DivMod
  <1>2. c \in Int
    BY <1>1
  <1>3. c = M * l + s /\ s \in 0 .. M - 1 /\ l \in Int
    <2> HIDE DEF c
    <2> QED BY <1>2, DivMod
  <1>4. a + b = M * k + c
    BY <1>1
  <1>5. M * k + c = M * (k + l) + s
    <2> HIDE DEF k, c, l, s
    <2> QED BY <1>1, <1>2, <1>3
  <1>6. (M * (k + l) + s) % M = s
    <2> HIDE DEF k, c, l, s
    <2> QED BY <1>1, <1>3, ModIs
  <1>7. (a + b) % M = s
    <2> HIDE DEF k, c, l, s
    <2> QED BY <1>4, <1>5, <1>6
  <1> QED BY <1>7

\* One wrap changes no remainder.
LEMMA ModAgain ==
  ASSUME NEW M \in Nat \ {0}, NEW a \in Int
  PROVE  (a + M) % M = a % M
  <1>1. M % M = 0
    BY ModIs
  <1>2. ((M % M) + a) % M = (M + a) % M
    <2>1. M \in Int
      OBVIOUS
    <2> QED BY <2>1, ModAdd
  <1>3. M + a = a + M /\ 0 + a = a
    OBVIOUS
  <1> QED BY <1>1, <1>2, <1>3

----------------------------------------------------------------------------
(* Box ids: the range every SQL clause tests is nesting, for words of any   *)
(* width, and renaming stays in the new root.                               *)

\* getBoxDepth counts the numbers of a path: they are positive up to the
\* depth and zero after it, and a path has at least one.
LEMMA DepthOfPath ==
  ASSUME NEW b \in Path
  PROVE  /\ BoxDepth(b) \in 1 .. 4
         /\ \A i \in 1 .. 4 : i <= BoxDepth(b) <=> b[i] # 0
  BY HalfAssumption DEF BoxDepth, Path, Box, Word, W

\* The words of a path are in range; the first is not negative as a signed one.
LEMMA WordsOfPath ==
  ASSUME NEW b \in Path
  PROVE  /\ b = [i \in 1 .. 4 |-> b[i]]
         /\ b[1] \in 1 .. Half - 1
         /\ \A i \in 1 .. 4 : b[i] \in 0 .. W - 1
         /\ Signed(b[1]) = b[1]
  BY HalfAssumption DEF Path, Box, Word, W, Signed

\* The upper end of the range of a path; the clamp does not touch it.
LEMMA LastOfPath ==
  ASSUME NEW b \in Path
  PROVE  /\ SqlLastBox(b) = LastBox(b)
         /\ \A i \in 1 .. 4 :
              LastBox(b)[i] = IF b[i] # 0 THEN b[i] ELSE W - 1
  <1>1. \A i \in 1 .. 4 : LastBox(b)[i] = IF b[i] # 0 THEN b[i] ELSE W - 1
    BY DepthOfPath DEF LastBox
  <1>2. LastBox(b)[1] # AllOnes[1]
    BY <1>1, WordsOfPath, HalfAssumption DEF AllOnes, W
  <1>3. SqlLastBox(b) = LastBox(b)
    BY <1>2 DEF SqlLastBox
  <1> QED BY <1>1, <1>3

\* A path is in the range box .. lastBox(box) of another exactly when it is
\* nested in it: getQuantity, getBox, removePackagesFromBox and the clause of
\* a query reach the whole subtree of a box and nothing else.
THEOREM RangeIsNestingForPaths ==
  ASSUME NEW x \in Path, NEW outer \in Path
  PROVE  InRange(x, outer) <=> Inside(x, outer)
  <1> DEFINE last == SqlLastBox(outer)
  <1>1. /\ \A i \in 1 .. 4 : last[i] = IF outer[i] # 0 THEN outer[i] ELSE W - 1
        /\ last[1] = outer[1] /\ Signed(last[1]) = outer[1]
    BY LastOfPath, WordsOfPath
  <1>2. /\ \A i \in 1 .. 4 : x[i] \in 0 .. W - 1 /\ outer[i] \in 0 .. W - 1
        /\ Signed(x[1]) = x[1] /\ Signed(outer[1]) = outer[1]
        /\ x[1] # 0 /\ outer[1] # 0 /\ W \in Nat
    BY WordsOfPath, HalfAssumption DEF W
  <1>3. \A i \in 2 .. 4 : (outer[i] # 0 => outer[i - 1] # 0)
    BY DEF Path
  <1>4. outer[4] # 0 => outer[3] # 0
    BY <1>3
  <1>5. outer[3] # 0 => outer[2] # 0
    BY <1>3
  <1>6. Inside(x, outer) <=> \A i \in 1 .. 4 : outer[i] # 0 => x[i] = outer[i]
    BY DepthOfPath DEF Inside
  <1> HIDE DEF last
  <1>7. InRange(x, outer) <=> BoxLE(outer, x) /\ BoxLE(x, last)
    BY DEF InRange, last
  <1>8. BoxLE(outer, x) /\ BoxLE(x, last) <=>
          \A i \in 1 .. 4 : outer[i] # 0 => x[i] = outer[i]
    BY <1>1, <1>2, <1>4, <1>5, SMTT(60) DEF BoxLE
  <1> QED BY <1>6, <1>7, <1>8

\* The mask by which a listing picks its packages (isBoxInBoxes) agrees.
THEOREM MaskIsNestingForPaths ==
  ASSUME NEW x \in Path, NEW outer \in Path
  PROVE  IsBoxInBoxes(x, outer) <=> Inside(x, outer)
  BY DepthOfPath DEF IsBoxInBoxes, Inside

\* A query finds what was put exactly into the box it names.
LEMMA InOwnRange ==
  ASSUME NEW b \in Path
  PROVE  InRange(b, b)
  BY RangeIsNestingForPaths DEF Inside

\* The id renameBox makes: the numbers of the new root, then those that followed
\* the old one, as many as still fit.
LEMMA RenamedWords ==
  ASSUME NEW src \in Path, NEW root \in Path, NEW dest \in Path,
         BoxDepth(root) < 4, BoxDepth(dest) < 4
  PROVE  \E r :
           /\ RenameBox(src, root, dest) = {r} /\ r = [i \in 1 .. 4 |-> r[i]]
           /\ \A i \in 1 .. 4 :
                r[i] = IF i <= BoxDepth(dest) THEN dest[i]
                       ELSE IF i - BoxDepth(dest) + BoxDepth(root) <= 4
                            THEN src[i - BoxDepth(dest) + BoxDepth(root)] ELSE 0
  <1> DEFINE ds == BoxDepth(root)
             dd == BoxDepth(dest)
             left == [i \in 1 .. 4 |-> IF i + ds <= 4 THEN src[i + ds] ELSE 0]
             right == [i \in 1 .. 4 |-> IF i > dd THEN left[i - dd] ELSE 0]
             r == BoxOr(dest, right)
  <1>1. ds \in 1 .. 3 /\ dd \in 1 .. 3
    BY DepthOfPath
  <1>2. RenameBox(src, root, dest) = {r}
    <2>1. ShiftedLeft(src, ds) = {left}
      BY <1>1 DEF ShiftedLeft
    <2>2. ShiftedRight(left, dd) = {right}
      BY <1>1 DEF ShiftedRight
    <2> HIDE DEF left, right
    <2> QED BY <2>1, <2>2 DEF RenameBox
  <1>3. \A i \in 1 .. 4 :
          right[i] = IF i > dd /\ i - dd + ds <= 4 THEN src[i - dd + ds] ELSE 0
    BY <1>1
  <1>4. \A i \in 1 .. 4 : i <= dd <=> dest[i] # 0
    BY DepthOfPath
  <1>5. r = [i \in 1 .. 4 |-> r[i]]
    BY DEF BoxOr
  <1>6. \A i \in 1 .. 4 : r[i] = IF i <= dd THEN dest[i] ELSE right[i]
    <2> HIDE DEF ds, dd, left, right
    <2> QED BY <1>1, <1>3, <1>4 DEF BoxOr
  <1>7. \A i \in 1 .. 4 : r[i] = IF i <= dd THEN dest[i]
                               ELSE IF i - dd + ds <= 4 THEN src[i - dd + ds] ELSE 0
    <2> HIDE DEF ds, dd, left, right, r
    <2> QED BY <1>1, <1>3, <1>6
  <1> HIDE DEF r, left, right
  <1> QED BY <1>2, <1>5, <1>7

\* Within the depth the shift is defined for, a box has one new name.
LEMMA RenamedIsOne ==
  ASSUME NEW src \in Path, NEW root \in Path, NEW dest \in Path,
         BoxDepth(root) < 4, BoxDepth(dest) < 4
  PROVE  \E r : RenameBox(src, root, dest) = {r}
  <1>1. PICK r :
           /\ RenameBox(src, root, dest) = {r} /\ r = [i \in 1 .. 4 |-> r[i]]
           /\ \A i \in 1 .. 4 :
                r[i] = IF i <= BoxDepth(dest) THEN dest[i]
                       ELSE IF i - BoxDepth(dest) + BoxDepth(root) <= 4
                            THEN src[i - BoxDepth(dest) + BoxDepth(root)] ELSE 0
    BY RenamedWords
  <1> QED BY <1>1, Zenon

\* Renaming (chBox '/') puts every box of the old root into the new one, at an
\* id that is a path again, when neither root has all four numbers.  Beyond
\* that the shift is undefined.
THEOREM RenameStaysInside ==
  ASSUME NEW src \in Path, NEW root \in Path, NEW dest \in Path,
         BoxDepth(root) < 4, BoxDepth(dest) < 4,
         NEW r \in RenameBox(src, root, dest)
  PROVE  r \in Path /\ Inside(r, dest)
  <1> DEFINE ds == BoxDepth(root)
             dd == BoxDepth(dest)
  <1>1. ds \in 1 .. 3 /\ dd \in 1 .. 3
    BY DepthOfPath
  <1>2. /\ r = [i \in 1 .. 4 |-> r[i]]
        /\ \A i \in 1 .. 4 : r[i] = IF i <= dd THEN dest[i]
                                 ELSE IF i - dd + ds <= 4 THEN src[i - dd + ds] ELSE 0
    BY RenamedWords
  <1>3. \A i \in 1 .. 4 : src[i] \in Word /\ dest[i] \in Word
    BY WordsOfPath DEF Word
  <1>4. \A i \in 1 .. 4 : i <= dd <=> dest[i] # 0
    BY DepthOfPath
  <1> HIDE DEF ds, dd
  <1>5. r \in Box
    <2>1. \A i \in 1 .. 4 : r[i] \in Word
      <3>1. 0 \in Word
        BY HalfAssumption DEF Word, W
      <3>2. ASSUME NEW i \in 1 .. 4 PROVE r[i] \in Word
        <4>1. CASE i <= dd
          BY <1>2, <1>3, <4>1
        <4>2. CASE i > dd /\ i - dd + ds <= 4
          <5>1. i - dd + ds \in 1 .. 4
            BY <1>1, <4>2
          <5>2. r[i] = src[i - dd + ds]
            BY <1>1, <1>2, <4>2
          <5> QED BY <1>3, <5>1, <5>2
        <4>3. CASE i > dd /\ ~(i - dd + ds <= 4)
          BY <1>1, <1>2, <3>1, <4>3
        <4> QED BY <1>1, <4>1, <4>2, <4>3
      <3> QED BY <3>2
    <2> QED BY <1>2, <2>1 DEF Box
  <1>6. r[1] \in 1 .. Half - 1
    BY <1>1, <1>2, WordsOfPath
  <1>7. ASSUME NEW i \in 2 .. 4, r[i] # 0
        PROVE  r[i - 1] # 0
    <2>1. CASE i - 1 <= dd
      BY <2>1, <1>1, <1>2, <1>4
    <2>2. CASE i - 1 > dd
      <3>1. i - dd + ds <= 4 /\ src[i - dd + ds] # 0
        BY <2>2, <1>1, <1>2, <1>7
      <3>2. src[(i - dd + ds) - 1] # 0
        BY <3>1, <2>2, <1>1 DEF Path
      <3> QED BY <3>1, <3>2, <2>2, <1>1, <1>2
    <2> QED BY <2>1, <2>2, <1>1
  <1>8. Inside(r, dest)
    BY <1>1, <1>2 DEF Inside, dd
  <1> QED BY <1>5, <1>6, <1>7, <1>8 DEF Path

\* Two places with a box in common lie one in the other.
LEMMA PlacesNest ==
  ASSUME NEW b \in Path, NEW x \in Path, NEW y \in Path, Inside(b, x), Inside(b, y)
  PROVE  Inside(x, y) \/ Inside(y, x)
  <1>1. BoxDepth(x) \in 1 .. 4 /\ BoxDepth(y) \in 1 .. 4
    BY DepthOfPath
  <1> QED BY <1>1 DEF Inside

\* But for a move into itself, renaming changes the id of every box of the root.
LEMMA RenamedDiffers ==
  ASSUME NEW src \in Path, NEW root \in Path, NEW dest \in Path,
         BoxDepth(root) < 4, BoxDepth(dest) < 4,
         Inside(src, root), ~Inside(dest, root)
  PROVE  src \notin RenameBox(src, root, dest)
  <1> SUFFICES ASSUME src \in RenameBox(src, root, dest) PROVE FALSE
    OBVIOUS
  <1> DEFINE ds == BoxDepth(root)
             dd == BoxDepth(dest)
             e == BoxDepth(src)
  <1>1. ds \in 1 .. 3 /\ dd \in 1 .. 3 /\ e \in 1 .. 4
    BY DepthOfPath
  <1>2. \A i \in 1 .. 4 : src[i] = IF i <= dd THEN dest[i]
                                 ELSE IF i - dd + ds <= 4 THEN src[i - dd + ds] ELSE 0
    BY RenamedWords
  <1>3. \A i \in 1 .. 4 : i <= e <=> src[i] # 0
    BY DepthOfPath
  <1>4. \A i \in 1 .. ds : src[i] = root[i] /\ root[i] # 0
    BY <1>1, DepthOfPath DEF Inside
  <1>5. dd < ds
    <2>1. \E i \in 1 .. ds : dest[i] # root[i]
      BY DEF Inside
    <2> HIDE DEF ds, dd
    <2> QED BY <1>1, <1>2, <1>4, <2>1
  <1> HIDE DEF ds, dd, e
  <1>6. e >= ds
    BY <1>1, <1>3, <1>4
  <1>7. e - dd + ds \in Int /\ e - dd + ds > e /\ e > dd
    BY <1>1, <1>5, <1>6
  <1>8. src[e] # 0
    BY <1>1, <1>3
  <1>9. e - dd + ds <= 4 /\ src[e - dd + ds] # 0
    BY <1>1, <1>2, <1>7, <1>8
  <1> QED BY <1>1, <1>3, <1>7, <1>9
=============================================================================
