-------------------------- MODULE UsageAccounting --------------------------
(***************************************************************************)
(* From the bytes Xray carries to the used_up/used_down columns of the     *)
(* main panel: app/xray.py (get_xray_stats), app/tasks.py                  *)
(* (_periodic_flush, _report_usage_loop), app/nodes.py (report_usage) and  *)
(* the handlers api_node_usage and api_reset_user of app/main.py.          *)
(*                                                                         *)
(* Every panel, the main one and the remote nodes, runs the same flush on  *)
(* its own Xray.  Xray counts from its own start; the panel keeps the last *)
(* reading and counts differences.  A node hands its differences to the    *)
(* main panel in reports that are sent once and never repeated.            *)
(*                                                                         *)
(* Data abstracted: one counter per user stands for uplink and downlink,   *)
(* which the code treats alike; the used columns are kept apart by the     *)
(* panel that carried the traffic, their sum is what the code stores.      *)
(***************************************************************************)
EXTENDS Naturals

CONSTANTS
  Main,         \* the main panel
  Nodes,        \* the remote nodes
  Users,        \* uids
  NoReading,    \* no statsquery is under way
  Incidents,    \* kinds of incidents that may happen, see Happens
  MaxCarried,   \* bound on the units carried per panel and user
  MaxIncidents  \* bound on the number of incidents

ASSUME MainAssumption == Main \notin Nodes
ASSUME ReadingAssumption == NoReading \notin [Users -> Nat]
ASSUME BoundsAssumption == MaxCarried \in Nat /\ MaxIncidents \in Nat

Panels == {Main} \cup Nodes
Amounts == [Users -> Nat]
Zero == [u \in Users |-> 0]
Plus(a, b) == [u \in Users |-> a[u] + b[u]]
Only(S, a) == [u \in Users |-> IF u \in S THEN a[u] ELSE 0]

VARIABLES
  counter,    \* Xray: bytes carried since this process started
  previous,   \* _previous_stats
  reading,    \* output of the statsquery under way
  pending,    \* _pending_usage; always empty on the main panel
  report,     \* the report on its way to the main panel; Zero if there is none
  used,       \* main: used_up + used_down, by the panel that carried it
  carried,    \* history: bytes carried since the beginning
  forgiven,   \* history: usage removed by api_reset_user
  lost,       \* history: bytes lost in an incident, see Happens
  restarted,  \* history: panels whose Xray was restarted by a reload
  incidents   \* number of incidents so far

volatileVars == <<counter, previous, reading, pending>>
historyVars  == <<carried, forgiven, lost, restarted, incidents>>
vars == <<volatileVars, report, used, historyVars>>

TypeOK ==
  /\ counter \in [Panels -> Amounts]
  /\ previous \in [Panels -> Amounts]
  /\ reading \in [Panels -> Amounts \cup {NoReading}]
  /\ pending \in [Panels -> Amounts]
  /\ report \in [Panels -> Amounts]
  /\ used \in [Panels -> Amounts]
  /\ carried \in [Panels -> Amounts]
  /\ forgiven \in [Panels -> Amounts]
  /\ lost \in [Panels -> Amounts]
  /\ restarted \subseteq Panels
  /\ incidents \in Nat

Init ==
  /\ counter = [p \in Panels |-> Zero]
  /\ previous = [p \in Panels |-> Zero]
  /\ reading = [p \in Panels |-> NoReading]
  /\ pending = [p \in Panels |-> Zero]
  /\ report = [p \in Panels |-> Zero]
  /\ used = [p \in Panels |-> Zero]
  /\ carried = [p \in Panels |-> Zero]
  /\ forgiven = [p \in Panels |-> Zero]
  /\ lost = [p \in Panels |-> Zero]
  /\ restarted = {}
  /\ incidents = 0

-----------------------------------------------------------------------------
(* What has become of the bytes.                                           *)

\* get_xray_stats: a counter below its last value belongs to a new process.
Delta(new, old) == IF new < old THEN new ELSE new - old

Deltas(new, old) == [u \in Users |-> Delta(new[u], old[u])]

\* Bytes of the present process that are in no reading yet.
Fresh(p) ==
  IF reading[p] = NoReading THEN Deltas(counter[p], previous[p])
                            ELSE Deltas(counter[p], reading[p])

\* Bytes in a reading that has not been counted yet.
InReading(p) ==
  IF reading[p] = NoReading THEN Zero ELSE Deltas(reading[p], previous[p])

-----------------------------------------------------------------------------
(* Xray carries traffic of user u.                                         *)

Carry(p, u) ==
  /\ carried[p][u] < MaxCarried
  /\ counter' = [counter EXCEPT ![p][u] = @ + 1]
  /\ carried' = [carried EXCEPT ![p][u] = @ + 1]
  /\ UNCHANGED <<previous, reading, pending, report, used, forgiven, lost,
                 restarted, incidents>>

(* _periodic_flush, every 5 s.                                             *)

\* get_xray_stats up to its await: `xray api statsquery` reads the counters.
\* A query that fails returns {} and leaves everything as it is.
Query(p) ==
  /\ reading[p] = NoReading
  /\ reading' = [reading EXCEPT ![p] = counter[p]]
  /\ UNCHANGED <<counter, previous, pending, report, used, historyVars>>

\* Faulty: the deltas replace what the last flush left.
CreditReplaces(p, deltas) ==
  IF p = Main
  THEN used' = [used EXCEPT ![p] = deltas] /\ UNCHANGED pending
  ELSE pending' = [pending EXCEPT ![p] = deltas] /\ UNCHANGED used

\* Add the deltas to the users: on the main panel to their usage, on a node
\* to what it still has to report.
Credit(p, deltas) ==
  IF p = Main
  THEN used' = [used EXCEPT ![p] = Plus(@, deltas)] /\ UNCHANGED pending
  ELSE pending' = [pending EXCEPT ![p] = Plus(@, deltas)] /\ UNCHANGED used

\* The rest of get_xray_stats and of the flush, without an await between.
Count(p) ==
  /\ reading[p] # NoReading
  /\ Credit(p, Deltas(reading[p], previous[p]))
  /\ previous' = [previous EXCEPT ![p] = reading[p]]
  /\ reading' = [reading EXCEPT ![p] = NoReading]
  /\ UNCHANGED <<counter, report, historyVars>>

(***************************************************************************)
(* Incidents.  Each adds the bytes nobody will count any more to `lost`.   *)
(***************************************************************************)
Happens(kind) ==
  /\ kind \in Incidents
  /\ incidents < MaxIncidents
  /\ incidents' = incidents + 1

Lose(p, bytes) == lost' = [lost EXCEPT ![p] = Plus(@, bytes)]

\* The database raises within the flush: the remaining users' deltas are
\* dropped, the readings are remembered all the same.
CountPartly(p, done) ==
  /\ reading[p] # NoReading
  /\ Happens("exception")
  /\ Credit(p, Only(done, Deltas(reading[p], previous[p])))
  /\ Lose(p, Only(Users \ done, Deltas(reading[p], previous[p])))
  /\ previous' = [previous EXCEPT ![p] = reading[p]]
  /\ reading' = [reading EXCEPT ![p] = NoReading]
  /\ UNCHANGED <<counter, report, carried, forgiven, restarted>>

\* A reload restarts Xray: its counters start again, _previous_stats stays.
RestartXray(p) ==
  /\ Happens("restart")
  /\ Lose(p, Fresh(p))
  /\ counter' = [counter EXCEPT ![p] = Zero]
  /\ restarted' = restarted \cup {p}
  /\ UNCHANGED <<previous, reading, pending, report, used, carried, forgiven>>

\* The whole container restarts: what is only in memory is gone.
Reboot(p) ==
  /\ Happens("reboot")
  /\ Lose(p, Plus(Plus(Fresh(p), InReading(p)), pending[p]))
  /\ counter' = [counter EXCEPT ![p] = Zero]
  /\ previous' = [previous EXCEPT ![p] = Zero]
  /\ reading' = [reading EXCEPT ![p] = NoReading]
  /\ pending' = [pending EXCEPT ![p] = Zero]
  /\ UNCHANGED <<report, used, carried, forgiven, restarted>>

-----------------------------------------------------------------------------
(* Reports of the nodes.                                                   *)

\* Faulty: what has been sent stays pending until it is acknowledged.
SendReportKeepsPending(n) ==
  /\ pending[n] # Zero
  /\ report[n] = Zero
  /\ report' = [report EXCEPT ![n] = pending[n]]
  /\ UNCHANGED <<volatileVars, used, historyVars>>

\* _report_usage_loop, every 30 s: swap the pending usage for {} and send it.
\* The loop waits for the outcome and ignores it.
SendReport(n) ==
  /\ pending[n] # Zero
  /\ report[n] = Zero
  /\ report' = [report EXCEPT ![n] = pending[n]]
  /\ pending' = [pending EXCEPT ![n] = Zero]
  /\ UNCHANGED <<counter, previous, reading, used, historyVars>>

\* api_node_usage, on the main panel.
MergeReport(n) ==
  /\ report[n] # Zero
  /\ used' = [used EXCEPT ![n] = Plus(@, report[n])]
  /\ report' = [report EXCEPT ![n] = Zero]
  /\ UNCHANGED <<volatileVars, historyVars>>

\* The report does not arrive, or is refused.
LoseReport(n) ==
  /\ report[n] # Zero
  /\ Happens("lost")
  /\ Lose(n, report[n])
  /\ report' = [report EXCEPT ![n] = Zero]
  /\ UNCHANGED <<volatileVars, used, carried, forgiven, restarted>>

\* api_reset_user, on the main panel.
ResetUser(u) ==
  /\ forgiven' = [p \in Panels |-> [forgiven[p] EXCEPT ![u] = @ + used[p][u]]]
  /\ used' = [p \in Panels |-> [used[p] EXCEPT ![u] = 0]]
  /\ UNCHANGED <<volatileVars, report, carried, lost, restarted, incidents>>

-----------------------------------------------------------------------------
Flush(p) == Query(p) \/ Count(p)

Next ==
  \/ \E p \in Panels, u \in Users : Carry(p, u)
  \/ \E p \in Panels : Flush(p)
  \/ \E p \in Panels, done \in SUBSET Users : CountPartly(p, done)
  \/ \E p \in Panels : RestartXray(p) \/ Reboot(p)
  \/ \E n \in Nodes : SendReport(n) \/ MergeReport(n) \/ LoseReport(n)
  \/ \E u \in Users : ResetUser(u)

\* The two loops run for ever, and a report arrives unless it is lost.
Fairness ==
  /\ \A p \in Panels : WF_vars(Query(p)) /\ WF_vars(Count(p))
  /\ \A n \in Nodes : WF_vars(SendReport(n)) /\ WF_vars(MergeReport(n))

Spec == Init /\ [][Next]_vars /\ Fairness

-----------------------------------------------------------------------------
(* Properties.                                                             *)

Charged(p, u) == used[p][u] + forgiven[p][u]
Reporting(p, u) == pending[p][u] + report[p][u]
Unread(p, u) == Fresh(p)[u] + InReading(p)[u]
Known(p, u) == Charged(p, u) + Reporting(p, u) + Unread(p, u) + lost[p][u]

(***************************************************************************)
(* No byte is counted twice, whatever restarts, crashes, lost reports and  *)
(* resets happen between reading and charging: what has been charged, is   *)
(* on its way, is still unread or was lost is never more than was carried. *)
(***************************************************************************)
NeverOvercharged == \A p \in Panels, u \in Users : Known(p, u) <= carried[p][u]

(***************************************************************************)
(* On a panel whose Xray no reload has restarted, every byte is accounted  *)
(* for: charged, on its way, unread, or lost in an incident.               *)
(***************************************************************************)
NothingVanishes ==
  \A p \in Panels \ restarted, u \in Users : Known(p, u) = carried[p][u]

(***************************************************************************)
(* There, every byte is sooner or later charged to its user (or lost in an *)
(* incident).                                                              *)
(***************************************************************************)
EveryByteIsSettled ==
  \A p \in Panels, u \in Users, k \in 1..MaxCarried :
    (carried[p][u] >= k)
      ~> (p \in restarted \/ Charged(p, u) + lost[p][u] >= k)
=============================================================================
