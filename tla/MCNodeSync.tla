----------------------------- MODULE MCNodeSync -----------------------------
(* NodeSync for small sets of nodes, users and rows.                       *)
EXTENDS NodeSync
CONSTANTS u1, t1

Row(n, e, x) == [node |-> n, enabled |-> e, expire |-> x]

\* A user of every node without an expiry date, of node 2 with one, and what
\* housekeeping makes of the latter.
MCRows == {Row(Everywhere, TRUE, NoTime), Row(2, TRUE, 1), Row(2, FALSE, 1)}

MCTwoNodes == {2, 3}
MCUsers == {u1}
MCOneSpawned == {t1}
=============================================================================
