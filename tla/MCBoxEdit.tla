----------------------------- MODULE MCBoxEdit -----------------------------
EXTENDS BoxEdit

B(w) == [i \in 1 .. 4 |-> IF i <= Len(w) THEN w[i] ELSE 0]

MCBoxes == {B(<<1>>), B(<<2>>)}
MCName == {"*"}
MCStar == "*"
NoProps == {<<>>}
MCSources == {NoBox, B(<<1>>), B(<<1, 1>>)}
MCTargets == {B(<<1>>), B(<<2>>), B(<<1, 2>>), B(<<2, 1, 1>>)}

\* Packages of one card in the room, in boxes of it and next to it.
MCLayouts ==
  {[p \in DOMAIN w |-> [card |-> 1, box |-> B(w[p])]] :
     w \in {<<<<1>>, <<1, 1>>, <<2>>>>,
            <<<<1, 1>>, <<1, 1, 3>>, <<1, 2>>>>,
            <<<<1, 1, 3, 1>>, <<1, 1>>, <<1, 1>>>>,
            <<<<1>>, <<2, 1>>>>,
            <<<<1, 1>>, <<1, 1, 1>>>>}}
=============================================================================
