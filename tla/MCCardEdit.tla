----------------------------- MODULE MCCardEdit ----------------------------
EXTENDS CardEdit

Room(n) == <<n, 0, 0, 0>>
V10 == <<"V", "10">>
V20 == <<"V", "20">>
P1W == <<"P", "1W">>

MCBoxes == {Room(1), Room(2)}
MCName == {"*", "n1"}
MCStar == "*"
MCProps == {<<>>, <<V10>>}

P(id, b, n) == [id |-> id, box |-> Room(b), qty |-> n]
MCPackLists ==
  {<<>>, <<P(0, 1, 1)>>, <<P(0, 1, 2), P(0, 2, 1)>>, <<P(0, 1, 0)>>,
   <<P(1, 1, 2), P(2, 2, 1)>>, <<P(1, 1, 0), P(0, 2, 2)>>, <<P(2, 1, 1)>>}

MCPropEdits == {<<>>, <<[id |-> 1, pair |-> V20], [id |-> 0, pair |-> P1W]>>,
                <<[id |-> 2, pair |-> P1W]>>}

\* Two cards, with a package in each box or in one; two properties or none.
Pack(c, b, n) == [card |-> c, box |-> Room(b), qty |-> n]
Prop(c, v) == [card |-> c, pair |-> v]
MCLayouts ==
  {[cards |-> <<"*", "n1">>, props |-> <<Prop(1, V10), Prop(1, P1W)>>,
    packs |-> <<Pack(1, 1, 1), Pack(1, 2, 1), Pack(2, 1, 2)>>],
   [cards |-> <<"n1", "*">>, props |-> <<Prop(2, V10)>>,
    packs |-> <<Pack(2, 1, 2)>>]}
=============================================================================
