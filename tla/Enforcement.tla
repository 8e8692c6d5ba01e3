---------------------------- MODULE Enforcement ----------------------------
(***************************************************************************)
(* Who is served although the quota is used up or the expiry date is past: *)
(* app/tasks.py (_check_quota in _periodic_flush, _housekeeping), the      *)
(* handlers of app/main.py that change a user, api_node_usage,             *)
(* app/nodes.py (sync_all) and the selection of clients by                 *)
(* generate_xray_config in app/xray.py.                                    *)
(*                                                                         *)
(* A panel serves the users its Xray process has loaded, which is what its *)
(* database said at the last reload.  How a reload and a push to a node    *)
(* really proceed is the matter of XrayReload and NodeSync: here a         *)
(* requested reload happens later in one step, and so does a push.         *)
(*                                                                         *)
(* Data abstracted: quotas take two values, and usage is the fact `over`   *)
(* (used >= quota); a date is only past or not.  A user keeps its panel,   *)
(* its transport and whether it has a quota at all, and a node keeps its   *)
(* database (NodeSync lets it lose it).                                    *)
(***************************************************************************)
EXTENDS Naturals

CONSTANTS
  Main,       \* the main panel
  Nodes,      \* the remote nodes
  Users,      \* uids
  Raw,        \* the users on a raw TCP inbound (transport "tcp")
  Limited,    \* the users with a quota (quota_bytes > 0)
  Home,       \* the panel each user is assigned to
  Dates,      \* expiry dates
  Given,      \* the dates the users are created with
  NoDate,     \* expire_at is None
  MaxEdits    \* bound on the changes made by the administrator

ASSUME MainAssumption == Main \notin Nodes
ASSUME RawAssumption == Raw \subseteq Users /\ Limited \subseteq Users
ASSUME HomeAssumption == Home \in [Users -> {Main} \cup Nodes]
ASSUME DateAssumption == NoDate \notin Dates /\ Given \in [Users -> Dates \cup {NoDate}]
ASSUME BoundAssumption == MaxEdits \in Nat

Panels == {Main} \cup Nodes

VARIABLES
  deleted,  \* main: users whose row has been removed
  enabled,  \* main: users whose column `enabled` is set
  over,     \* main: users whose usage has reached their quota
  roomy,    \* main: users with the larger of the two quotas
  date,     \* main: the expiry date of each user
  past,     \* dates that have passed
  traffic,  \* users with a quota who have carried traffic not counted yet
  hash,     \* main: the payload last pushed to each node, {} if never
  rows,     \* nodes: the users in the node's own database
  reload,   \* panels where a reload has been requested
  served,   \* users the Xray process of each panel has loaded
  auto,     \* history: users last disabled by the panel itself
  changes   \* number of changes made by the administrator

dateVars  == <<date, past>>
adminVars == <<deleted, enabled, over, roomy, dateVars, auto, changes>>
syncVars  == <<hash, rows>>
enforcementVars == <<adminVars, traffic, syncVars, reload, served>>

\* The users of a node: who has a row, who is enabled, and the dates.  What
\* main pushes has the quotas too, so that changing one changes the hash.
DatesOf  == [Users -> Dates \cup {NoDate}]
Rows     == [have : SUBSET Users, on : SUBSET Users, date : DatesOf]
Payloads == [have : SUBSET Users, on : SUBSET Users, date : DatesOf, roomy : SUBSET Users]

EnforcementTypeOK ==
  /\ deleted \subseteq Users
  /\ enabled \subseteq Users \ deleted
  /\ over \subseteq Limited
  /\ roomy \subseteq Limited
  /\ date \in DatesOf
  /\ past \subseteq Dates
  /\ traffic \subseteq Limited
  /\ hash \in [Nodes -> SUBSET Payloads]
  /\ rows \in [Nodes -> Rows]
  /\ reload \subseteq Panels
  /\ served \in [Panels -> SUBSET Users]
  /\ auto \subseteq Users \ (enabled \cup deleted)
  /\ changes \in Nat

At(p) == {u \in Users : Home[u] = p}

\* Faulty: every inbound lists the disabled users too.
EveryRow(row) == row.have

\* generate_xray_config: the lists of a raw TCP inbound take every user there
\* is, the others only the enabled users.  Quota and expiry do not matter.
Clients(row) == row.on \cup (row.have \cap Raw)

\* The rows of a panel's users as the main panel has them.
Payload(p) ==
  [have  |-> At(p) \ deleted,
   on    |-> At(p) \cap enabled,
   date  |-> [u \in Users |-> IF u \in At(p) \ deleted THEN date[u] ELSE NoDate],
   roomy |-> At(p) \cap roomy]

\* Users whose date is past, in main's table and as a node knows it.
Expired   == {u \in Users : date[u] \in past}
Lapsed(n) == {u \in Users : rows[n].date[u] \in past}

\* Users a panel would serve if it reloaded now.
Loadable(p) == IF p = Main THEN Clients(Payload(Main)) ELSE Clients(rows[p])

\* The users have been created and the main panel has loaded them; the nodes
\* have not been pushed to yet.
EnforcementInit ==
  /\ deleted = {}
  /\ enabled = Users
  /\ over = {}
  /\ roomy = {}
  /\ date = Given
  /\ past = {}
  /\ traffic = {}
  /\ hash = [n \in Nodes |-> {}]
  /\ rows = [n \in Nodes |->
       [have |-> {}, on |-> {}, date |-> [u \in Users |-> NoDate]]]
  /\ reload = {}
  /\ served = [p \in Panels |-> IF p = Main THEN At(Main) ELSE {}]
  /\ auto = {}
  /\ changes = 0

-----------------------------------------------------------------------------
(* The administrator.                                                      *)

\* Faulty: the change of a user does not request a reload.
ReloadForgotten == UNCHANGED reload

\* The handlers' call of _reload_xray, on the main panel.
RequestReload == reload' = reload \cup {Main}

\* api_toggle, and api_update_user with `enabled`.
Enable(u) ==
  /\ u \notin enabled \cup deleted
  /\ changes < MaxEdits
  /\ changes' = changes + 1
  /\ enabled' = enabled \cup {u}
  /\ auto' = auto \ {u}
  /\ RequestReload
  /\ UNCHANGED <<deleted, over, roomy, dateVars, traffic, syncVars, served>>

\* api_toggle, and api_update_user with `enabled`.
Disable(u) ==
  /\ u \in enabled
  /\ changes < MaxEdits
  /\ changes' = changes + 1
  /\ enabled' = enabled \ {u}
  /\ auto' = auto \ {u}
  /\ RequestReload
  /\ UNCHANGED <<deleted, over, roomy, dateVars, traffic, syncVars, served>>

\* api_delete_user: the row goes, with its usage and its dates.
Delete(u) ==
  /\ u \notin deleted
  /\ changes < MaxEdits
  /\ changes' = changes + 1
  /\ deleted' = deleted \cup {u}
  /\ enabled' = enabled \ {u}
  /\ over' = over \ {u}
  /\ roomy' = roomy \ {u}
  /\ date' = [date EXCEPT ![u] = NoDate]
  /\ auto' = auto \ {u}
  /\ RequestReload
  /\ UNCHANGED <<past, traffic, syncVars, served>>

\* api_update_user with another quota, which may already be used up, ...
ChangeQuota(u) ==
  /\ u \in Limited \ deleted
  /\ changes < MaxEdits
  /\ changes' = changes + 1
  /\ IF u \in roomy
     THEN roomy' = roomy \ {u} /\ over' \in {over, over \cup {u}}
     ELSE roomy' = roomy \cup {u} /\ over' \in {over, over \ {u}}
  /\ RequestReload
  /\ UNCHANGED <<deleted, enabled, dateVars, auto, traffic, syncVars, served>>

\* ... or with `expire_days`: another date, not past, or none.  Neither touches
\* `enabled`.
Renew(u, d) ==
  /\ u \notin deleted
  /\ d \notin past \cup {date[u]}
  /\ changes < MaxEdits
  /\ changes' = changes + 1
  /\ date' = [date EXCEPT ![u] = d]
  /\ RequestReload
  /\ UNCHANGED <<deleted, enabled, over, roomy, past, auto, traffic, syncVars, served>>

\* api_reset_user: usage becomes 0; no reload, no push.
ResetUsage(u) ==
  /\ u \in over
  /\ over' = over \ {u}
  /\ UNCHANGED <<deleted, enabled, auto, roomy, dateVars, changes, traffic,
                 syncVars, reload, served>>

\* A change of settings reloads Xray; so does a restart of the main panel or
\* of a node, which generates its configuration from its own database.
ReloadAnyway(p) ==
  /\ p \notin reload
  /\ reload' = reload \cup {p}
  /\ UNCHANGED <<adminVars, traffic, syncVars, served>>

-----------------------------------------------------------------------------
(* Traffic, quota and expiry.                                              *)

Carry(u) ==
  /\ u \in (Limited \cap served[Home[u]]) \ traffic
  /\ traffic' = traffic \cup {u}
  /\ UNCHANGED <<adminVars, syncVars, reload, served>>

\* The panel disables users itself: a column changes and nothing else.
AutoDisable(S) ==
  /\ enabled' = enabled \ S
  /\ auto' = auto \cup (S \cap enabled)

Counted(u) ==
  /\ u \in traffic
  /\ traffic' = traffic \ {u}
  /\ over' \in {over, over \cup ({u} \ deleted)}

\* Faulty: the main panel takes itself for a node.
FlushLocalAsNode(u) ==
  /\ Home[u] = Main
  /\ Counted(u)
  /\ UNCHANGED <<deleted, enabled, auto, roomy, dateVars, changes, syncVars,
                 reload, served>>

\* _periodic_flush on the main panel: count a user's traffic, then check the
\* quota on the usage as it is now (_check_quota).
FlushLocal(u) ==
  /\ Home[u] = Main
  /\ Counted(u)
  /\ AutoDisable({u} \cap over')
  /\ UNCHANGED <<deleted, roomy, dateVars, changes, syncVars, reload, served>>

\* api_node_usage: the main panel adds what a node reports.
MergeReport(u) ==
  /\ Home[u] # Main
  /\ Counted(u)
  /\ UNCHANGED <<deleted, enabled, auto, roomy, dateVars, changes, syncVars,
                 reload, served>>

\* A date passes, whoever still has it.
Expire(d) ==
  /\ d \notin past
  /\ past' = past \cup {d}
  /\ UNCHANGED <<deleted, enabled, auto, over, roomy, date, changes, traffic,
                 syncVars, reload, served>>

\* Faulty: users of remote nodes are left to their nodes.
HousekeepingLocalOnly ==
  /\ enabled \cap Expired \cap At(Main) # {}
  /\ AutoDisable(Expired \cap At(Main))
  /\ UNCHANGED <<deleted, over, roomy, dateVars, changes, traffic, syncVars,
                 reload, served>>

\* _housekeeping on the main panel, every 30 s, over all users.
Housekeeping ==
  /\ enabled \cap Expired # {}
  /\ AutoDisable(Expired)
  /\ UNCHANGED <<deleted, over, roomy, dateVars, changes, traffic, syncVars,
                 reload, served>>

\* _housekeeping on a node, over the rows and the dates the node has.
NodeHousekeeping(n) ==
  /\ rows[n].on \cap Lapsed(n) # {}
  /\ rows' = [rows EXCEPT ![n].on = @ \ Lapsed(n)]
  /\ UNCHANGED <<adminVars, traffic, hash, reload, served>>

-----------------------------------------------------------------------------
(* Pushes and reloads.                                                     *)

\* What a node makes of a push: a date of None leaves the one it has.
Received(old, new) ==
  [have |-> new.have, on |-> new.on,
   date |-> [u \in Users |-> IF u \in new.have /\ new.date[u] = NoDate
                             THEN old.date[u] ELSE new.date[u]]]

\* sync_all, triggered or periodic, and api_node_sync on the node, which
\* requests a reload there.
Push(n) ==
  /\ Payload(n) \notin hash[n]
  /\ hash' = [hash EXCEPT ![n] = {Payload(n)}]
  /\ rows' = [rows EXCEPT ![n] = Received(@, Payload(n))]
  /\ reload' = reload \cup {n}
  /\ UNCHANGED <<adminVars, traffic, served>>

\* The requested reload: Xray restarts with what the database says now.
Reload(p) ==
  /\ p \in reload
  /\ reload' = reload \ {p}
  /\ served' = [served EXCEPT ![p] = Loadable(p)]
  /\ UNCHANGED <<adminVars, traffic, syncVars>>

EnforcementNext ==
  \/ \E u \in Users : \/ Enable(u) \/ Disable(u) \/ Delete(u) \/ ChangeQuota(u)
                      \/ ResetUsage(u) \/ Carry(u) \/ FlushLocal(u) \/ MergeReport(u)
  \/ \E u \in Users, d \in Dates \cup {NoDate} : Renew(u, d)
  \/ \E d \in Dates : Expire(d)
  \/ Housekeeping
  \/ \E n \in Nodes : Push(n) \/ NodeHousekeeping(n)
  \/ \E p \in Panels : Reload(p) \/ ReloadAnyway(p)

\* The background loops run for ever, a requested reload happens.
EnforcementFairness ==
  /\ \A u \in Limited : WF_enforcementVars(FlushLocal(u) \/ MergeReport(u))
  /\ WF_enforcementVars(Housekeeping)
  /\ \A n \in Nodes : WF_enforcementVars(Push(n))
  /\ \A p \in Panels : WF_enforcementVars(Reload(p))

EnforcementSpec ==
  EnforcementInit /\ [][EnforcementNext]_enforcementVars /\ EnforcementFairness

-----------------------------------------------------------------------------
(* Properties.                                                             *)

Serving(u) == u \in served[Home[u]]
Due(u) == u \in over \cup Expired

(***************************************************************************)
(* When no reload is outstanding, a panel serves every user that is        *)
(* enabled, and of the others no deleted one and only users the panel has  *)
(* disabled itself (_check_quota and _housekeeping do not reload) or users *)
(* on raw TCP.  A node serves the clients of what it was pushed, and may   *)
(* leave out only users whose date, as the node has it, is past.           *)
(***************************************************************************)
OnlyAutoDisabledLinger ==
  /\ Main \notin reload =>
       /\ At(Main) \cap enabled \subseteq served[Main]
       /\ served[Main] \subseteq (enabled \cup auto \cup Raw) \ deleted
  /\ \A n \in Nodes \ reload : \A row \in hash[n] :
       /\ Clients(row) \ Lapsed(n) \subseteq served[n]
       /\ served[n] \subseteq Clients(row)

(***************************************************************************)
(* A user the administrator deletes, or disables (raw TCP users apart) and *)
(* does not enable again, does not stay served, on the main panel or on a  *)
(* node.                                                                   *)
(***************************************************************************)
AdminDisableCutsOff ==
  \A u \in Users :
    /\ []<>(u \in deleted => ~Serving(u))
    /\ []<>(Serving(u) => u \in enabled \cup auto \cup Raw)

(***************************************************************************)
(* No expired user stays enabled: housekeeping disables those of the nodes *)
(* too.  None of a node stays served there: the push that follows makes    *)
(* the node reload.                                                        *)
(***************************************************************************)
ExpiryIsEnforced ==
  \A u \in Users :
    /\ []<>(u \in Expired => u \notin enabled)
    /\ Home[u] # Main /\ u \notin Raw => []<>(u \in Expired => ~Serving(u))

(***************************************************************************)
(* A user of the main panel who is over quota and carries traffic is       *)
(* disabled, whatever resets, renewals and re-enabling happen between the  *)
(* traffic and the flush that counts it.                                   *)
(***************************************************************************)
QuotaIsEnforcedLocally ==
  \A u \in At(Main) \cap Limited :
    (u \in over /\ u \in traffic) ~> (u \notin enabled \/ u \notin over)

(***************************************************************************)
(* README.md:195: quota and expiry date are enforced, the user is disabled *)
(* "and removed from the Xray config".  The code refutes it: the panel     *)
(* disables the user and does not reload.                                  *)
(***************************************************************************)
DueUsersAreCutOff ==
  \A u \in Users : Due(u) ~> (~Serving(u) \/ ~Due(u))
=============================================================================
