------------------------------- MODULE Ledger -------------------------------
(***************************************************************************)
(* What the stock promises its users (README, "Operations"): a remainder   *)
(* for each place a card has, and requests that change every matching      *)
(* place at once or do nothing.  Places are leaf boxes here: no place is   *)
(* part of another one.                                                    *)
(***************************************************************************)
EXTENDS Naturals

CONSTANTS Id, QMod, Queries, Items,
          Matches(_, _),   \* does a query name match a card's name
          Has(_, _),       \* do a card's properties satisfy a request's
          MaxStream        \* how many pushed cards one stream holds

VARIABLES cards,   \* the cards there are
          places   \* <<card, box>> -> remainder, for the places on the cards

vars == <<cards, places>>

With(f, k, v) == [x \in DOMAIN f \cup {k} |-> IF x = k THEN v ELSE f[x]]
At(c, b) == IF <<c, b>> \in DOMAIN places THEN places[<<c, b>>] ELSE 0

Least(a, b) == IF a < b THEN a ELSE b

Init == cards = [c \in {} |-> 0] /\ places = [l \in {} |-> 0]

Hit(r) == {c \in DOMAIN cards : /\ Matches(r.name, cards[c].name)
                                /\ Has(cards[c].props, r.props)
                                /\ <<c, r.box>> \in DOMAIN places}

\* Every hit card's place in the box gets a new remainder.
Change(r, New(_)) ==
  /\ places' = [l \in DOMAIN places |->
                  IF l \in Hit(r) \X {r.box} THEN New(places[l]) ELSE places[l]]
  /\ UNCHANGED cards

SetAll(r) == r.code = "SET" /\ Hit(r) # {} /\ Change(r, LAMBDA n : r.n)

SetNew(r) ==
  /\ r.code = "SET" /\ Hit(r) = {}
  /\ \E c \in Id \ DOMAIN cards :
       /\ cards' = With(cards, c, [name |-> r.name, props |-> r.props])
       /\ places' = With(places, <<c, r.box>>, r.n)

Add(r) == r.code = "ADD" /\ Change(r, LAMBDA n : (n + r.n) % QMod)

Sub(r) == r.code = "SUB" /\ Change(r, LAMBDA n : n - Least(n, r.n))

\* What leaves one place of a card arrives at another of the same card.
Move(r) ==
  /\ r.code = "MOV" /\ r.box # r.dest
  /\ places' =
       [l \in DOMAIN places \cup Hit(r) \X {r.dest} |->
          IF l[1] \notin Hit(r) THEN places[l]
          ELSE LET had == places[<<l[1], r.box>>]
                   gone == Least(had, r.n)
               IN  CASE l[2] = r.box -> had - gone
                     [] l[2] = r.dest -> (At(l[1], r.dest) + gone) % QMod
                     [] OTHER -> places[l]]
  /\ UNCHANGED cards

\* The states one pushed card leads to from s.
Pushed(s, i) ==
  LET found == {c \in DOMAIN s.cards : /\ s.cards[c].name = i.name
                                       /\ Has(s.cards[c].props, i.props)}
      Plus(c) == With(s.places, <<c, i.box>>,
                      (i.n + IF <<c, i.box>> \in DOMAIN s.places
                               THEN s.places[<<c, i.box>>] ELSE 0) % QMod)
      Minus(c) == With(s.places, <<c, i.box>>,
                       ((IF <<c, i.box>> \in DOMAIN s.places
                           THEN s.places[<<c, i.box>>] ELSE 0) + QMod - i.n)
                       % QMod)
  IN  {[s EXCEPT !.places = Plus(c)] : c \in found}
      \cup {[s EXCEPT !.places = Minus(c)] : c \in found}
      \cup IF found # {} THEN {}
           ELSE {[cards |-> With(s.cards, c, [name |-> i.name, props |-> i.props]),
                  places |-> Plus(c)] : c \in Id \ DOMAIN s.cards}

\* One more card, pushed in any of the states.
AfterOne(S) == UNION {Pushed(s, i) : s \in S, i \in Items}

\* The states a stream of at most MaxStream cards leads to.
Streams ==
  LET reach[k \in 0 .. MaxStream] ==
        IF k = 0 THEN {[cards |-> cards, places |-> places]}
        ELSE reach[k - 1] \cup AfterOne(reach[k - 1])
  IN  reach[MaxStream]

Push == \E s \in Streams : cards' = s.cards /\ places' = s.places

Next == \/ \E r \in Queries : SetAll(r) \/ SetNew(r) \/ Add(r) \/ Sub(r) \/ Move(r)
        \/ Push

Spec == Init /\ [][Next]_vars
=============================================================================
