--------------------------- MODULE MCEnforcement ---------------------------
(* Enforcement with users of the main panel, one of them on raw TCP, and a *)
(* user of a node.                                                         *)
EXTENDS Enforcement
CONSTANTS n1, u1, u2, u3, d1
MCNodes == {n1}
MCDates == {d1}
MCTwo == {u1, u2}
MCThree == {u1, u2, u3}
MCRaw == {u3}
MCNone == {}
MCHome == [u \in MCThree |-> IF u = u2 THEN n1 ELSE Main]
MCTwoHome == [u \in MCTwo |-> IF u = u2 THEN n1 ELSE Main]
MCGiven == [u \in MCThree |-> NoDate]
MCTwoGiven == [u \in MCTwo |-> d1]
=============================================================================
