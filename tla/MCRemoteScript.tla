--------------------------- MODULE MCRemoteScript ---------------------------
EXTENDS RemoteScript

\* Training and the tests, with two attempts each.
MCClients == {[timeout |-> TRUE, attempts |-> 2, checked |-> FALSE],
              [timeout |-> FALSE, attempts |-> 2, checked |-> TRUE]}
=============================================================================
