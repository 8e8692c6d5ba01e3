---------------------------- MODULE NodeRegistry ----------------------------
(***************************************************************************)
(* The main panel's table of remote nodes, and what it knows of them:      *)
(* api_create_node, api_invite_node, api_update_node, api_relocate_node,   *)
(* api_delete_node, api_ping_node, api_list_nodes, api_node_register,      *)
(* _node_status and _auto_node of app/main.py, _refresh_node_latencies and *)
(* _enrich_node_locations of app/tasks.py.                                 *)
(*                                                                         *)
(* A handler that looks up a location or probes a node awaits, and uses    *)
(* afterwards the row it has read before.                                  *)
(*                                                                         *)
(* Data abstracted: an address names the server there, a WireGuard key the *)
(* server that has it, a location the address that was looked up; it has   *)
(* two parts, the country code with its flag and the names of country and  *)
(* city, and a look-up finds both or nothing.  A latency is the server it  *)
(* was measured of.  Names of nodes, tokens, versions and a country typed  *)
(* by the administrator are left out.                                      *)
(***************************************************************************)
EXTENDS Naturals, FiniteSets, Functions

CONSTANTS
  Nodes,       \* ids of remote nodes; an id is never used again
  Addresses,   \* servers
  Speed,       \* the latency of each
  None,        \* no address, key, location, latency or answer yet
  MaxChanges,  \* bound on changes by the administrator, nodes and faults
  MaxAwaiting  \* bound on probes and look-ups under way; one more probe is dropped

ASSUME NamesAssumption == None \notin Addresses
ASSUME SpeedAssumption == Speed \in [Addresses -> Nat]
ASSUME BoundsAssumption == MaxChanges \in Nat

VARIABLES
  rows,     \* table nodes, a function on the ids there are
  deleted,  \* ids that have been deleted
  cached,   \* nodes with an entry in _node_status_cache younger than 30 s
  snap,     \* _node_latency_snap: whose latency is noted for a node
  probes,   \* _node_status calls that await a node
  lookups,  \* handlers that await a location
  server,   \* how each server answers /health
  changes,  \* number of changes
  doubtful, \* history: nodes whose look-up has failed or overlapped
  misnamed  \* history: nodes whose names may be of what they were before

memVars == <<cached, snap, probes>>
historyVars == <<doubtful, misnamed>>
vars == <<rows, deleted, memVars, lookups, server, changes, historyVars>>

Known == Addresses \cup {None}
Rows == [address : Known, enabled : BOOLEAN, pub : Known, code : Known, place : Known]

\* "up" answers, "error" answers with a status such as 502, "down" does not.
Health == {"up", "error", "down"}

\* A probe with what it uses of the row its caller has read.
Probes == [node : Nodes, address : Addresses, pub : Known, answer : Health \cup {None}]

\* A handler or task, the address, key and names it has read, and the address
\* it looks up.
Kinds == {"register", "patch", "relocate", "enrich"}
Lookups == [kind : Kinds, node : Nodes, seen : Known, pub : Known, place : Known,
            address : Known]

TypeOK ==
  /\ DOMAIN rows \subseteq Nodes
  /\ \A n \in DOMAIN rows : rows[n] \in Rows
  /\ deleted \subseteq Nodes \ DOMAIN rows
  /\ cached \subseteq Nodes
  /\ snap \in [Nodes -> Known]
  /\ probes \subseteq Probes
  /\ lookups \subseteq Lookups
  /\ server \in [Addresses -> Health]
  /\ changes \in 0..MaxChanges
  /\ doubtful \subseteq Nodes
  /\ misnamed \subseteq Nodes

Init ==
  /\ rows = [n \in {} |-> None]
  /\ deleted = {}
  /\ cached = {}
  /\ snap = [n \in Nodes |-> None]
  /\ probes = {}
  /\ lookups = {}
  /\ server = [a \in Addresses |-> "up"]
  /\ changes = 0
  /\ doubtful = {}
  /\ misnamed = {}

Full == Cardinality(probes) + Cardinality(lookups) >= MaxAwaiting

Change == changes < MaxChanges /\ changes' = changes + 1

-----------------------------------------------------------------------------
(* db.py.                                                                  *)

\* Faulty: the row is inserted when there is none.
Upserted(n, row) ==
  [m \in DOMAIN rows \cup {n} |-> IF m = n THEN row ELSE rows[m]]

\* update_node: UPDATE ... WHERE id, which changes nothing without such a row.
Updated(n, row) == [m \in DOMAIN rows |-> IF m = n THEN row ELSE rows[m]]

\* create_node.
NewRow(address, located) ==
  [address |-> address, enabled |-> TRUE, pub |-> None,
   code |-> located, place |-> located]

\* A row before its fields are changed, if it is there.
Row(n) == IF n \in DOMAIN rows THEN rows[n]
          ELSE NewRow(None, None)

-----------------------------------------------------------------------------
(* _node_status, and its callers that await nothing before.                *)

\* Called with a row whose address and key are these, when the cache holds an
\* entry for the nodes in `entries`.
NodeStatus(n, address, pub, entries) ==
  \/ n \in entries /\ cached' = entries /\ UNCHANGED <<snap, probes>>
  \/ /\ n \notin entries
     /\ address = None
     /\ cached' = entries \cup {n}
     /\ snap' = [snap EXCEPT ![n] = None]
     /\ UNCHANGED probes
  \/ /\ n \notin entries
     /\ address # None
     /\ cached' = entries
     /\ probes' = IF Full THEN probes
                  ELSE probes \cup {[node |-> n, address |-> address,
                                     pub |-> pub, answer |-> None]}
     /\ UNCHANGED snap

\* api_list_nodes, for one node of its list.
List(n) ==
  /\ n \in DOMAIN rows
  /\ n \notin cached
  /\ ~Full
  /\ NodeStatus(n, rows[n].address, rows[n].pub, cached)
  /\ UNCHANGED <<rows, deleted, lookups, server, changes, historyVars>>

\* The nodes _refresh_node_latencies and _auto_node look at.
InUse == {n \in DOMAIN rows : rows[n].enabled /\ rows[n].address # None}

Refresh(n) == n \in InUse /\ List(n)

\* api_ping_node.
Ping(n) ==
  /\ n \in DOMAIN rows
  /\ NodeStatus(n, rows[n].address, rows[n].pub, cached \ {n})
  /\ UNCHANGED <<rows, deleted, lookups, server, changes, historyVars>>

\* An entry has become too old, or api_sync_node_now has removed it.
CacheExpires(n) ==
  /\ n \in cached
  /\ cached' = cached \ {n}
  /\ UNCHANGED <<rows, deleted, snap, probes, lookups, server, changes, historyVars>>

\* The node answers or the time is over.
Answer(p) ==
  /\ p.answer = None
  /\ probes' = (probes \ {p}) \cup {[p EXCEPT !.answer = server[p.address]]}
  /\ UNCHANGED <<rows, deleted, cached, snap, lookups, server, changes, historyVars>>

\* Faulty: what is known already is kept.
LearnsOnce(p) ==
  IF p.answer = "up" /\ p.pub = None THEN p.address ELSE Row(p.node).pub

\* The key that is in the row afterwards.
Learns(p) ==
  IF p.answer = "up" /\ p.pub # p.address THEN p.address ELSE Row(p.node).pub

\* Faulty: a latency is noted only when there is one.
KeepsLatency(p) == IF p.answer = "down" THEN snap[p.node] ELSE p.address

\* The latency that is noted: any response has one.
Latency(p) == IF p.answer = "down" THEN None ELSE p.address

\* _node_status after its await.
Finish(p) ==
  /\ p.answer # None
  /\ probes' = probes \ {p}
  /\ rows' = Updated(p.node, [Row(p.node) EXCEPT !.pub = Learns(p)])
  /\ snap' = [snap EXCEPT ![p.node] = Latency(p)]
  /\ cached' = cached \cup {p.node}
  /\ UNCHANGED <<deleted, lookups, server, changes, historyVars>>

-----------------------------------------------------------------------------
(* Handlers.                                                               *)

\* api_create_node, which looks the address up before it inserts the row, and
\* api_invite_node, without an address.
Create(n, address) ==
  /\ n \in Nodes \ (DOMAIN rows \cup deleted)
  /\ \E located \in {None, address} :
       rows' = [m \in DOMAIN rows \cup {n} |->
                  IF m = n THEN NewRow(address, located) ELSE rows[m]]
  /\ NodeStatus(n, address, None, cached)
  /\ UNCHANGED <<deleted, lookups, server, changes, historyVars>>

\* api_update_node that toggles.
Toggle(n) ==
  /\ Change
  /\ n \in DOMAIN rows
  /\ rows' = Updated(n, [rows[n] EXCEPT !.enabled = ~@])
  /\ NodeStatus(n, rows[n].address, rows[n].pub, cached)
  /\ UNCHANGED <<deleted, lookups, server, historyVars>>

Delete(n) ==
  /\ Change
  /\ n \in DOMAIN rows
  /\ rows' = Restrict(rows, DOMAIN rows \ {n})
  /\ deleted' = deleted \cup {n}
  /\ UNCHANGED <<memVars, lookups, server, historyVars>>

\* A handler or task reads the row and awaits the location of an address.
Begin(kind, n, address) ==
  /\ n \in DOMAIN rows
  /\ ~Full
  /\ lookups' = lookups \cup
       {[kind |-> kind, node |-> n, seen |-> rows[n].address,
         pub |-> rows[n].pub, place |-> rows[n].place, address |-> address]}
  /\ UNCHANGED <<rows, deleted, memVars, server, historyVars>>

\* api_node_register with an address of the node, api_update_node with one the
\* administrator has typed.
BeginRegister(n, address) == Change /\ Begin("register", n, address)
BeginPatch(n, address) == Change /\ Begin("patch", n, address)

\* api_relocate_node.
BeginRelocate(n) ==
  /\ n \in DOMAIN rows
  /\ rows[n].address # None
  /\ Begin("relocate", n, rows[n].address)
  /\ UNCHANGED changes

\* _enrich_node_locations, for a node without a country code.
BeginEnrich(n) ==
  /\ n \in DOMAIN rows
  /\ rows[n].address # None
  /\ rows[n].code = None
  /\ Begin("enrich", n, rows[n].address)
  /\ UNCHANGED changes

SetsAddress(l) == l.kind \in {"register", "patch"}

\* A PATCH looks up a new address, the others look theirs up.
Findings(l) ==
  IF l.kind = "patch" /\ l.address \in {None, l.seen} THEN {None}
  ELSE {None, l.address}

\* api_relocate_node and _enrich_node_locations write the names they have read
\* back, if there were any, next to the country code they have found.
KeepsNames(l) == ~SetsAddress(l) /\ l.place # None

\* Faulty: a location that is there is kept.
KeepsLocation(l, found) ==
  [Row(l.node) EXCEPT !.address = IF SetsAddress(l) THEN l.address ELSE @,
                      !.code = IF @ = None THEN found ELSE @,
                      !.place = IF @ = None THEN found ELSE @]

\* The row after a look-up: without a finding the location is left alone.
Written(l, found) ==
  [Row(l.node) EXCEPT !.address = IF SetsAddress(l) THEN l.address ELSE @,
                      !.code = IF found = None THEN @ ELSE found,
                      !.place = IF found = None THEN @
                                ELSE IF KeepsNames(l) THEN l.place ELSE found]

\* Whether the location found is that of the address the row has afterwards.
Certain(l, found) ==
  found # None /\ (SetsAddress(l) \/ Row(l.node).address = l.seen)

\* Whether the address of the row may now be another than what was located.
Uncertain(l) ==
  \/ Row(l.node).address # l.seen
  \/ SetsAddress(l) /\ l.address # l.seen

\* Whether names that are written back are other than those of the row.
Reverts(l) == Row(l.node).address # l.seen \/ Row(l.node).place # l.place

\* A handler asks for the status with the row it has read, or the row there
\* is now; an error stops the latter when there is none.
StatusAfter(l, found, row) ==
  \/ /\ l.kind = "register" \/ (l.kind = "relocate" /\ found = None)
     /\ NodeStatus(l.node, l.seen, l.pub, cached)
  \/ /\ l.kind = "patch" \/ (l.kind = "relocate" /\ found # None)
     /\ l.node \in DOMAIN rows
     /\ NodeStatus(l.node, row.address, row.pub, cached)
  \/ /\ l.kind = "enrich" \/ l.node \notin DOMAIN rows
     /\ l.kind # "register" /\ ~(l.kind = "relocate" /\ found = None)
     /\ UNCHANGED memVars

\* A handler or task after its await.
End(l, found) ==
  /\ lookups' = lookups \ {l}
  /\ rows' = Updated(l.node, Written(l, found))
  /\ doubtful' = IF Certain(l, found) THEN doubtful \ {l.node}
                 ELSE IF Uncertain(l) THEN doubtful \cup {l.node}
                 ELSE doubtful
  /\ misnamed' = IF found # None /\ KeepsNames(l)
                 THEN IF Reverts(l) THEN misnamed \cup {l.node} ELSE misnamed
                 ELSE IF Certain(l, found) THEN misnamed \ {l.node}
                 ELSE IF Uncertain(l) THEN misnamed \cup {l.node}
                 ELSE misnamed
  /\ StatusAfter(l, found, Written(l, found))
  /\ UNCHANGED <<deleted, server, changes>>

-----------------------------------------------------------------------------
(* Servers, and the panel itself.                                          *)

ServerTurns(a, health) ==
  /\ Change
  /\ server' = [server EXCEPT ![a] = health]
  /\ UNCHANGED <<rows, deleted, memVars, lookups, historyVars>>

Restart ==
  /\ Change
  /\ cached' = {}
  /\ snap' = [n \in Nodes |-> None]
  /\ probes' = {}
  /\ lookups' = {}
  /\ UNCHANGED <<rows, deleted, server, historyVars>>

Next ==
  \/ \E n \in Nodes :
       \/ List(n) \/ Ping(n) \/ CacheExpires(n)
       \/ \E a \in Known : Create(n, a)
       \/ Toggle(n) \/ Delete(n)
       \/ \E a \in Addresses : BeginRegister(n, a)
       \/ \E a \in Known : BeginPatch(n, a)
       \/ BeginRelocate(n) \/ BeginEnrich(n)
  \/ \E p \in probes : Answer(p) \/ Finish(p)
  \/ \E l \in lookups : \E found \in Findings(l) : End(l, found)
  \/ \E a \in Addresses, h \in Health : ServerTurns(a, h)
  \/ Restart

\* The loop of _refresh_node_latencies goes round, time passes, and requests
\* to nodes and providers have a timeout.
Fairness ==
  /\ \A n \in Nodes :
       /\ SF_vars(Refresh(n)) /\ WF_vars(CacheExpires(n))
       /\ WF_vars(\E p \in probes : p.node = n /\ Answer(p))
       /\ WF_vars(\E p \in probes : p.node = n /\ Finish(p))
  /\ WF_vars(\E l \in lookups : \E found \in Findings(l) : End(l, found))

Spec == Init /\ [][Next]_vars /\ Fairness

-----------------------------------------------------------------------------
(* Properties.                                                             *)

\* _auto_node: the node in use with the lowest latency.
Candidates == {n \in InUse : snap[n] # None}
AutoAddress ==
  IF Candidates = {} THEN None
  ELSE rows[CHOOSE n \in Candidates :
              \A m \in Candidates : Speed[snap[n]] <= Speed[snap[m]]].address

\* Of the servers of nodes in use that are online, the fastest.
Online == {a \in Addresses : server[a] = "up" /\ \E n \in InUse : rows[n].address = a}
Fastest ==
  IF Online = {} THEN None
  ELSE CHOOSE a \in Online : \A b \in Online : Speed[a] <= Speed[b]

(***************************************************************************)
(* DEPLOY.md 326, "the fastest online node", made exact: when nodes and    *)
(* table are left alone, the links of automatic users get to the fastest   *)
(* node in use that is online, whatever probes of older rows and addresses *)
(* were under way; unless a node in use answers with a status such as 502, *)
(* which main.py:537 shows as offline and whose latency counts all the     *)
(* same.                                                                   *)
(***************************************************************************)
AutoFollowsTheFastest ==
  <>[]((\A n \in InUse : server[rows[n].address] # "error") => AutoAddress = Fastest)

(***************************************************************************)
(* _refresh_node_latencies: "the /health probe also learns each node's WG  *)
(* public key": in the end WireGuard links carry the key of the server     *)
(* they dial, although a probe writes the key of the address it was sent   *)
(* to into a row that may have another address by then.                    *)
(***************************************************************************)
KeysFollowServers ==
  \A n \in Nodes :
    <>[](n \in InUse /\ server[rows[n].address] = "up"
           => rows[n].pub = rows[n].address)

(***************************************************************************)
(* api_update_node: "An address change means "this is a different server": *)
(* re-locate it", made exact.  A node is never shown with the flag of      *)
(* another server, unless a look-up failed when its address changed, or    *)
(* the address was changed by another handler during a look-up, and none   *)
(* has found the country since.  The names of country and city have these  *)
(* exceptions and one more: a look-up that keeps the names it has read     *)
(* does not end an exception, and begins one if the row has changed.       *)
(***************************************************************************)
LocationIsCurrent ==
  \A n \in DOMAIN rows :
    /\ n \notin doubtful => rows[n].code \in {None, rows[n].address}
    /\ n \notin misnamed => rows[n].place \in {None, rows[n].address}
=============================================================================
