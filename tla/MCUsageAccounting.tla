------------------------- MODULE MCUsageAccounting -------------------------
(* UsageAccounting for one node and small numbers of users and bytes.      *)
EXTENDS UsageAccounting
CONSTANTS n1, u1
MCNodes == {n1}
MCOneUser == {u1}
MCAllIncidents == {"exception", "restart", "reboot", "lost"}
=============================================================================
