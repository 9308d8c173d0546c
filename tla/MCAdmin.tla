------------------------------ MODULE MCAdmin ------------------------------
EXTENDS Admin

\* One account the plugin knows under the name of another, with its own
\* password.
MCPlugin == {<<"ann", "ldap">>}
A(n, p, r, t) == [name |-> n, password |-> p, rights |-> r, token |-> t]
MCAccounts == {A("ann", "key", 1, 1), A("ann", "ldap", 0, 0), A("bob", "key", 0, 1)}
MCLists == {<<>>, <<[id |-> 0, value |-> "v"]>>, <<[id |-> 0, value |-> "w"]>>,
            <<[id |-> 2, value |-> "w"], [id |-> 0, value |-> "v"]>>,
            <<[id |-> 1, value |-> "w"]>>,
            <<[id |-> 1, value |-> "w"], [id |-> 2, value |-> "v"]>>}
=============================================================================
