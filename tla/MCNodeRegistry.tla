--------------------------- MODULE MCNodeRegistry ---------------------------
(* NodeRegistry with two nodes and two servers, the second one faster.     *)
EXTENDS NodeRegistry
CONSTANTS n1, n2, a1, a2
MCNodes == {n1, n2}
MCAddresses == {a1, a2}
MCSpeed == [a \in MCAddresses |-> IF a = a1 THEN 2 ELSE 1]
=============================================================================
