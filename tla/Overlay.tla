------------------------------- MODULE Overlay -------------------------------
(***************************************************************************)
(* The WireGuard overlay network: the addresses and keys of its users      *)
(* (app/wg.py), in the user table of the main panel and in that of a node, *)
(* and the peers that the WireGuard server of each is started with.        *)
(*                                                                         *)
(* The main panel gives an address and a pair of keys to a user of         *)
(* WireGuard who has none, whenever it creates or changes the user or      *)
(* builds a link.  The node gets address and public key with the push      *)
(* (app/nodes.py), but not the private key, so a link built there makes a  *)
(* pair of its own.  api_node_sync commits user by user while a reload may *)
(* read the table in its thread, and it may fail in between.               *)
(*                                                                         *)
(* Data abstracted: a row is what WireGuard needs of it; one node; pushes  *)
(* do not overlap (NodeSync has those that do), nor do reloads with the    *)
(* change that asks for them (XrayReload).  A uid is drawn at random and   *)
(* is used once.                                                           *)
(***************************************************************************)
EXTENDS Integers, FiniteSets

CONSTANTS
  Users,        \* uids
  LastHost,     \* host number of the last address of WG_SUBNET
  Absent,       \* there is no such row
  NoHash,       \* no node_sync_hash recorded
  NoPush,       \* no push under way
  MaxChanges,   \* bound on the changes an administrator makes
  MaxFaults     \* bound on keys made at the node and on pushes that fail

ASSUME UsersAssumption == IsFiniteSet(Users)
ASSUME HostsAssumption == LastHost \in Nat
ASSUME OverlayBounds == MaxChanges \in Nat /\ MaxFaults \in Nat

NoAddress == 0
Hosts == 2..LastHost
Panels == {"main", "node"}

\* A row has a private key or not, and the public key of a pair that one of the
\* panels has made.
NoKey == "none"

Rows == [wg : BOOLEAN, on : BOOLEAN, home : Panels,
         ip : Hosts \cup {NoAddress}, priv : BOOLEAN, pub : Panels \cup {NoKey}]

ASSUME AbsentAssumption == Absent \notin Rows \cup Hosts \cup {NoAddress}

Tables == [Users -> Rows \cup {Absent}]
Peers == [user : Users, ip : Hosts, pub : Panels]

ASSUME MarksAssumption == NoHash \notin Tables /\ NoPush \notin Tables

VARIABLES
  main,       \* the users table of the main panel
  node,       \* the users table of the node
  hash,       \* main: meta node_sync_hash, as the payload it is of
  push,       \* the payload of the push under way
  served,     \* the peers of each WireGuard server
  dirty,      \* panels with a reload under way or wanted
  drawn,      \* uids that have been drawn
  late,       \* history: rows of main that changed without a reload
  rekeyed,    \* history: rows that a link built at the node has changed
  unsure,     \* history: the node may have got what was not acknowledged
  torn,       \* history: what at the node is made of half a push
  changes,    \* number of changes so far
  faults      \* number of incidents so far

overlayVars == <<main, node, hash, push, served, dirty, drawn, late, rekeyed,
                 unsure, torn, changes, faults>>

Nobody == [u \in Users |-> Absent]

OverlayTypeOK ==
  /\ main \in Tables
  /\ node \in Tables
  /\ hash \in Tables \cup {NoHash}
  /\ push \in Tables \cup {NoPush}
  /\ served \in [Panels -> SUBSET Peers]
  /\ dirty \subseteq Panels
  /\ drawn \subseteq Users
  /\ late \subseteq Users
  /\ rekeyed \subseteq Users
  /\ unsure \in BOOLEAN
  /\ torn \subseteq {"table", "peers"}
  /\ changes \in 0..MaxChanges
  /\ faults \in 0..MaxFaults

OverlayInit ==
  /\ main = Nobody
  /\ node = Nobody
  /\ hash = NoHash
  /\ push = NoPush
  /\ served = [p \in Panels |-> {}]
  /\ dirty = {}
  /\ drawn = {}
  /\ late = {}
  /\ rekeyed = {}
  /\ unsure = FALSE
  /\ torn = {}
  /\ changes = 0
  /\ faults = 0

-----------------------------------------------------------------------------
(* Addresses and keys.                                                     *)

Least(S) == CHOOSE a \in S : \A b \in S : a <= b

Present(table) == {u \in Users : table[u] # Absent}

\* Faulty: the panel looks at the users whom it serves itself (local_users).
TakenHere(table) == {table[u].ip : u \in {v \in Present(table) : table[v].home = "main"}}

\* The addresses that have a row, whatever its protocol.
Taken(table) == {table[u].ip : u \in Present(table)}

\* allocate_ip
Allocate(table) ==
  LET free == Hosts \ Taken(table) IN
  IF free = {} THEN NoAddress ELSE Least(free)

\* Faulty: who has an address gets another.
WithNewAddress(row, table) == [row EXCEPT !.ip = Allocate(table)]

WithAddress(row, table) ==
  IF row.ip = NoAddress THEN [row EXCEPT !.ip = Allocate(table)] ELSE row

WithKeys(row, panel) ==
  IF row.priv /\ row.pub # NoKey THEN row
  ELSE [row EXCEPT !.priv = TRUE, !.pub = panel]

\* ensure_user_keys for a user of WireGuard, as a panel does it.
EnsureKeys(table, u, panel) ==
  IF ~table[u].wg THEN table
  ELSE [table EXCEPT ![u] = WithKeys(WithAddress(@, table), panel)]

-----------------------------------------------------------------------------
(* Serving.                                                                *)

\* wg_users and server_config.
PeersOf(table, panel) ==
  {[user |-> u, ip |-> table[u].ip, pub |-> table[u].pub] :
     u \in {v \in Present(table) :
              /\ table[v].home = panel /\ table[v].wg /\ table[v].on
              /\ table[v].pub # NoKey /\ table[v].ip # NoAddress}}

\* wg.restart, at the end of a reload.
ReloadMain ==
  /\ "main" \in dirty
  /\ served' = [served EXCEPT !["main"] = PeersOf(main, "main")]
  /\ dirty' = dirty \ {"main"}
  /\ late' = {}
  /\ UNCHANGED <<main, node, hash, push, drawn, rekeyed, unsure, torn, changes,
                 faults>>

ReloadNode ==
  /\ "node" \in dirty
  /\ served' = [served EXCEPT !["node"] = PeersOf(node, "node")]
  /\ dirty' = dirty \ {"node"}
  /\ torn' = IF "table" \in torn THEN {"table", "peers"} ELSE {}
  /\ UNCHANGED <<main, node, hash, push, drawn, late, rekeyed, unsure, changes,
                 faults>>

\* A panel restarts, or its settings change, and it serves what it has.  (A push
\* that a restart cuts short is one that fails.)
Restart(panel) ==
  /\ push = NoPush
  /\ dirty' = dirty \cup {panel}
  /\ UNCHANGED <<main, node, hash, push, served, drawn, late, rekeyed, unsure,
                 torn, changes, faults>>

-----------------------------------------------------------------------------
(* Handlers of the main panel.                                             *)

\* A handler writes the table and asks for a reload.  The push needs no asking:
\* the periodic one compares the payload with the hash.
Write(table) ==
  /\ changes < MaxChanges
  /\ changes' = changes + 1
  /\ main' = table
  /\ dirty' = dirty \cup {"main"}
  /\ UNCHANGED <<node, hash, push, served, late, rekeyed, unsure, torn, faults>>

\* api_create_user
Create(u, wg, home) ==
  /\ u \notin drawn
  /\ drawn' = drawn \cup {u}
  /\ Write(EnsureKeys([main EXCEPT ![u] =
                         [wg |-> wg, on |-> TRUE, home |-> home,
                          ip |-> NoAddress, priv |-> FALSE, pub |-> NoKey]],
                      u, "main"))

Other(home) == CHOOSE p \in Panels : p # home

\* api_update_user: the protocol, the switch or the node.
Update(u) ==
  /\ main[u] # Absent
  /\ \E row \in {[main[u] EXCEPT !.wg = ~@], [main[u] EXCEPT !.on = ~@],
                 [main[u] EXCEPT !.home = Other(@)]} :
       Write(EnsureKeys([main EXCEPT ![u] = row], u, "main"))
  /\ UNCHANGED drawn

\* api_toggle, which gives no address.
Toggle(u) ==
  /\ main[u] # Absent
  /\ Write([main EXCEPT ![u].on = ~@])
  /\ UNCHANGED drawn

\* api_delete_user
Delete(u) ==
  /\ main[u] # Absent
  /\ Write([main EXCEPT ![u] = Absent])
  /\ UNCHANGED drawn

\* _links_for, wherever a user's link is shown (api_user_links, sub_plain and
\* others): what the user lacks is made up for, without a reload.
BuildLinks(u) ==
  /\ main[u] # Absent
  /\ main' = EnsureKeys(main, u, "main")
  /\ late' = IF main' = main THEN late ELSE late \cup {u}
  /\ UNCHANGED <<node, hash, push, served, dirty, drawn, rekeyed, unsure, torn,
                 changes, faults>>

-----------------------------------------------------------------------------
(* The push.                                                               *)

\* Faulty: the public key is not among the fields either.
TrimBothKeys(row) == [row EXCEPT !.priv = FALSE, !.pub = NoKey]

\* user_sync_payload
Trim(row) == [row EXCEPT !.priv = FALSE]

\* The users of the node, also those who are disabled.
Payload ==
  [u \in Users |-> IF main[u] # Absent /\ main[u].home = "node"
                   THEN Trim(main[u]) ELSE Absent]

\* sync_all up to its await.
StartPush ==
  /\ push = NoPush
  /\ hash # Payload
  /\ push' = Payload
  /\ UNCHANGED <<main, node, hash, served, dirty, drawn, late, rekeyed, unsure,
                 torn, changes, faults>>

\* The row that api_node_sync makes of an old one: the private key stays.
Merge(old, new) ==
  IF old = Absent \/ new = Absent THEN new ELSE [new EXCEPT !.priv = old.priv]

\* The node's table when the users us have been committed.
Committed(us) ==
  [u \in Users |-> IF u \in us THEN Merge(node[u], push[u]) ELSE node[u]]

\* Rows are deleted after all others have been written.
Stages ==
  {us \in SUBSET Users : us \subseteq Present(push) \/ Present(push) \subseteq us}

\* api_node_sync runs to its end and asks for a reload.
Applied ==
  /\ push # NoPush
  /\ push' = NoPush
  /\ node' = Committed(Users)
  /\ dirty' = dirty \cup {"node"}
  /\ rekeyed' = {}
  /\ UNCHANGED <<main, drawn, late, changes>>

\* Its answer arrives.
PushDone ==
  /\ Applied
  /\ hash' = push
  /\ unsure' = FALSE
  /\ torn' = torn \ {"table"}
  /\ UNCHANGED <<served, faults>>

\* So it does, but a reload has read the table half written.
PushDuringReload ==
  /\ "node" \in dirty
  /\ Applied
  /\ hash' = push
  /\ unsure' = FALSE
  /\ torn' = {"peers"}
  /\ \E us \in Stages :
       served' = [served EXCEPT !["node"] = PeersOf(Committed(us), "node")]
  /\ UNCHANGED faults

\* Its answer is lost.
AnswerLost ==
  /\ faults < MaxFaults
  /\ faults' = faults + 1
  /\ Applied
  /\ unsure' = TRUE
  /\ torn' = torn \ {"table"}
  /\ UNCHANGED <<hash, served>>

\* The push is lost, or api_node_sync fails on the way: there is no reload.
PushFails ==
  /\ push # NoPush
  /\ faults < MaxFaults
  /\ faults' = faults + 1
  /\ push' = NoPush
  /\ \E us \in Stages :
       /\ node' = Committed(us)
       /\ IF us = {} THEN UNCHANGED <<unsure, torn>>
          ELSE unsure' = TRUE /\ torn' = torn \cup {"table"}
  /\ UNCHANGED <<main, hash, served, dirty, drawn, late, rekeyed, changes>>

PushEnds == PushDone \/ PushDuringReload \/ AnswerLost \/ PushFails

-----------------------------------------------------------------------------
(* The node.                                                               *)

\* A link is built at the node, where the row has no private key yet.
BuildLinksAtNode(u) ==
  /\ node[u] # Absent
  /\ node' = EnsureKeys(node, u, "node")
  /\ IF node' = node THEN UNCHANGED <<rekeyed, faults>>
     ELSE /\ faults < MaxFaults
          /\ faults' = faults + 1
          /\ rekeyed' = rekeyed \cup {u}
  /\ UNCHANGED <<main, hash, push, served, dirty, drawn, late, unsure, torn,
                 changes>>

-----------------------------------------------------------------------------
OverlayNext ==
  \/ ReloadMain \/ ReloadNode
  \/ \E panel \in Panels : Restart(panel)
  \/ \E u \in Users :
       \/ \E wg \in BOOLEAN, home \in Panels : Create(u, wg, home)
       \/ Update(u) \/ Toggle(u) \/ Delete(u) \/ BuildLinks(u) \/ BuildLinksAtNode(u)
  \/ StartPush \/ PushEnds

\* A reload that is wanted comes, the periodic push too, and a push ends.
OverlayFairness ==
  /\ WF_overlayVars(ReloadMain) /\ WF_overlayVars(ReloadNode)
  /\ WF_overlayVars(StartPush) /\ WF_overlayVars(PushEnds)

OverlaySpec == OverlayInit /\ [][OverlayNext]_overlayVars /\ OverlayFairness

-----------------------------------------------------------------------------
\* The address of each user, as the main panel has it.
Lease == [u \in Users |-> IF main[u] = Absent THEN Absent ELSE main[u].ip]

\* The main panel keeps the promise of an address pool, although it gives out
\* addresses in four places, and never writes down which are free.
Pool == INSTANCE AddressPool
          WITH Addresses <- Hosts, Gone <- Absent, None <- NoAddress, lease <- Lease
PoolSpec == Pool!Spec

\* No WireGuard server has two peers with one address, or two of one user; at
\* the node, unless it was started with half a push.
PeersAreDistinct ==
  \A panel \in Panels :
    \/ panel = "node" /\ "peers" \in torn
    \/ \A x, y \in served[panel] : x.ip = y.ip \/ x.user = y.user => x = y

Peer(u, peers) == {x \in peers : x.user = u}

(***************************************************************************)
(* In the end the WireGuard server of either panel has the peers whom the  *)
(* main panel builds links for, with their addresses and keys, and no      *)
(* others.  Not so, for a user whose link was completed, or who expired,   *)
(* without a reload, or whose key the node has replaced, and not while the *)
(* node may have got a push that was not acknowledged.                     *)
(***************************************************************************)
MainServes(u) ==
  u \in late \/ Peer(u, served["main"]) = Peer(u, PeersOf(main, "main"))
NodeServes(u) ==
  u \in rekeyed \/ unsure \/ Peer(u, served["node"]) = Peer(u, PeersOf(main, "node"))
LinksWork == <>[](\A u \in Users : MainServes(u) /\ NodeServes(u))
=============================================================================
