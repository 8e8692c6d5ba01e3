------------------------------ MODULE MCBackup ------------------------------
(* Backup with one node, and users that may return to what they were.      *)
EXTENDS Backup
CONSTANTS n1, t0, t1
MCOneNode == {n1}
MCTables == {t0, t1}
=============================================================================
