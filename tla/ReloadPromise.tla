--------------------------- MODULE ReloadPromise ---------------------------
(***************************************************************************)
(* What the reload scheduler of app/main.py promises its callers, without  *)
(* saying how: a handler that has changed the database and asked for a     *)
(* reload may forget about it, because a configuration will be generated   *)
(* from a database at least that new.  Bursts may share one generation,    *)
(* but the last change of a burst is never dropped.                        *)
(***************************************************************************)
EXTENDS Naturals

CONSTANT MaxChanges  \* bound on the number of changes (for TLC)

VARIABLES
  db,    \* version of the database: the number of changes committed so far
  seen   \* version of the database the last generated configuration saw

vars == <<db, seen>>

Init ==
  /\ db = 0
  /\ seen = 0

\* A handler commits a change that the Xray configuration depends on.
Change ==
  /\ db < MaxChanges
  /\ db' = db + 1
  /\ UNCHANGED seen

\* Somebody generates a configuration from the database as it is now.
Generate ==
  /\ seen' = db
  /\ UNCHANGED db

\* A generation the callers are owed.
OwedGenerate == seen < db /\ Generate

Next == Change \/ Generate

Spec == Init /\ [][Next]_vars /\ WF_vars(OwedGenerate)
=============================================================================
