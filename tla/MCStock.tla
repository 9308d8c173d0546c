------------------------------ MODULE MCStock ------------------------------
EXTENDS StockProperties

CONSTANTS n1, star

MCNames == {n1, star}
OneName == {star}
Flat == {<<1, 0, 0, 0>>, <<2, 0, 0, 0>>}
Nested == {<<1, 0, 0, 0>>, <<1, 1, 0, 0>>}
NoProps == {<<>>}
OneProp == {<<>>, <<<<"V", "10">>>>}
=============================================================================
