----------------------------- MODULE MCService ------------------------------
EXTENDS Service

CONSTANTS g1, g2, h1

MCGrpc == {g1, g2}
MCHttp == {h1}
=============================================================================
