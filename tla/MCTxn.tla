------------------------------- MODULE MCTxn --------------------------------
EXTENDS Txn

CONSTANTS a1, a2, mover, client, lister

MCThread == {a1, a2, mover, client, lister}
MCWork == [t \in MCThread |-> CASE t \in {a1, a2} -> "add"
                                [] t = mover -> "move"
                                [] t = client -> "login"
                                [] t = lister -> "list"]
=============================================================================
