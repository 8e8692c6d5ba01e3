------------------------------ MODULE NodeSync ------------------------------
(***************************************************************************)
(* Distribution of the user table to the remote nodes: app/nodes.py        *)
(* (sync_all, sync_node), the handlers of app/main.py that trigger it      *)
(* (_trigger_node_sync, api_sync_node_now, api_node_register), the         *)
(* periodic loop of app/tasks.py, and the receiving end api_node_sync,     *)
(* which runs on the node.                                                 *)
(*                                                                         *)
(* Every trigger spawns a task of its own; the tasks run concurrently, one *)
(* push at a time each, and suspend only while a push is under way.  A     *)
(* push may be lost, may be answered too late (8 s), may be applied after  *)
(* its sender has given up, and may fail with some of its users committed; *)
(* a node may come back with an empty disk.  Main and every node disable   *)
(* expired users in their own table (_housekeeping of app/tasks.py).       *)
(*                                                                         *)
(* Data abstracted: a user row is who serves it, `enabled`, and the one    *)
(* field that can be unset (expire_at); a payload's hash is the payload.   *)
(***************************************************************************)
EXTENDS Naturals, FiniteSets

CONSTANTS
  Nodes,        \* ids of the enabled remote nodes, all with a credential
  Users,        \* uids
  Rows,         \* user rows the main panel may store
  Everywhere,   \* node_id = 0: the user is served by every remote node
  NoUser,       \* there is no such user
  NoTime,       \* expire_at is None
  NoHash,       \* no node_sync_hash recorded
  Spawned,      \* tasks made by _trigger_node_sync and api_sync_node_now
  Periodic,     \* the task _sync_nodes_loop
  Nobody,       \* sender of a push whose task no longer waits for it
  MaxChanges,   \* bound on the changes of the user table
  MaxFaults     \* bound on lost, late, half-applied and manual pushes and on
                \* node restarts

ASSUME NodesAssumption == Nodes \subseteq Nat /\ IsFiniteSet(Nodes)
ASSUME TasksAssumption == /\ Periodic \notin Spawned
                          /\ Nobody \notin Spawned \cup {Periodic}
ASSUME BoundsAssumption == MaxChanges \in Nat /\ MaxFaults \in Nat

Tasks == Spawned \cup {Periodic}

VARIABLES
  table,      \* main: the users table
  address,    \* main: nodes whose address is known
  hash,       \* main: meta node_sync_hash:<id>
  task,       \* main: where each sync task is
  net,        \* pushes on their way to a node
  ndb,        \* nodes: the users table of each node
  booting,    \* nodes that still have to register
  changes,    \* number of table changes so far
  faults,     \* number of such incidents so far
  past,       \* expiry dates that have passed
  disturbed,  \* history: nodes that had an uncontrolled push, see Send
  torn        \* history: nodes whose last push was applied in part

vars == <<table, address, hash, task, net, ndb, booting, changes, faults,
          past, disturbed, torn>>

Dates == {r.expire : r \in Rows} \ {NoTime}

Tables == [Users -> Rows \cup {NoUser}]

\* Faulty: who serves the user is sent along.
TrimNothing(row) == row

\* user_sync_payload: the fields a node needs; node_id is not one of them.
Trim(row) == [enabled |-> row.enabled, expire |-> row.expire]

Nothing == [u \in Users |-> NoUser]

\* The users of a node: assigned to it or to Everywhere.
Payload(n, tb) ==
  [u \in Users |-> IF tb[u] # NoUser /\ tb[u].node \in {n, Everywhere}
                   THEN Trim(tb[u])
                   ELSE NoUser]

NodeRows == [enabled : BOOLEAN, expire : {r.expire : r \in Rows}]
ASSUME RowsAssumption ==
  /\ NoUser \notin NodeRows
  /\ \A r \in Rows : /\ r.enabled \in BOOLEAN
                     /\ r.expire # NoTime => [r EXCEPT !.enabled = FALSE] \in Rows
Payloads == [Users -> NodeRows \cup {NoUser}]

(***************************************************************************)
(* A task between two awaits: none, spawned (not started), waiting for an  *)
(* answer, or answered (the node has applied the push and the answer is on *)
(* its way).  `users` and `addressed` are what sync_all read at its start. *)
(***************************************************************************)
Idle == [pc |-> "none"]
TaskStates ==
  {Idle, [pc |-> "spawned"]}
  \cup [pc : {"waiting", "answered"}, node : Nodes, users : Tables,
        addressed : SUBSET Nodes, todo : SUBSET Nodes, manual : BOOLEAN]

TypeOK ==
  /\ table \in Tables
  /\ address \subseteq Nodes
  /\ hash \in [Nodes -> Payloads \cup {NoHash}]
  /\ task \in [Tasks -> TaskStates]
  /\ net \subseteq [from : Tasks \cup {Nobody}, node : Nodes, users : Payloads]
  /\ ndb \in [Nodes -> Payloads]
  /\ booting \subseteq Nodes
  /\ changes \in 0..MaxChanges
  /\ faults \in 0..MaxFaults
  /\ past \subseteq Dates
  /\ disturbed \subseteq Nodes
  /\ torn \subseteq Nodes

\* A new main panel; its nodes have been invited and boot for the first time.
Init ==
  /\ table = Nothing
  /\ address = {}
  /\ hash = [n \in Nodes |-> NoHash]
  /\ task = [t \in Tasks |-> Idle]
  /\ net = {}
  /\ ndb = [n \in Nodes |-> Nothing]
  /\ booting = Nodes
  /\ changes = 0
  /\ faults = 0
  /\ past = {}
  /\ disturbed = {}
  /\ torn = {}

-----------------------------------------------------------------------------
(* The sync tasks of the main panel.                                       *)

Least(S) == CHOOSE n \in S : \A m \in S : n <= m

Waiting(n) == {t \in Tasks : /\ task[t].pc \in {"waiting", "answered"}
                             /\ task[t].node = n}

(***************************************************************************)
(* sync_node up to its await: task t, in a run of sync_all that read `s`,  *)
(* pushes to node n.  `pushes` and `marked` are net and disturbed as the   *)
(* caller leaves them.  History: a push is uncontrolled when it meets      *)
(* another one to the same node, or leaves no hash (manual).               *)
(***************************************************************************)
Send(t, n, s, manual, pushes, marked) ==
  /\ task' = [task EXCEPT ![t] =
       [pc |-> "waiting", node |-> n, users |-> s.users,
        addressed |-> s.addressed, todo |-> {m \in s.todo : m > n},
        manual |-> manual]]
  /\ net' = pushes \cup {[from |-> t, node |-> n, users |-> Payload(n, s.users)]}
  /\ disturbed' = marked \cup {m \in {n} : manual \/ Waiting(n) \ {t} # {}}

Finish(t, pushes, marked) ==
  /\ task' = [task EXCEPT ![t] = Idle]
  /\ net' = pushes
  /\ disturbed' = marked

\* Faulty: a node that has once been pushed to is skipped for ever.
ContinueIfNoHash(t, s, recorded, pushes, marked) ==
  LET due == {n \in s.todo \cap s.addressed : recorded[n] = NoHash}
  IN IF due = {}
     THEN Finish(t, pushes, marked)
     ELSE Send(t, Least(due), s, FALSE, pushes, marked)

\* sync_all's loop over list_nodes(), to the next await or to its end: a node
\* whose recorded hash is this payload's is skipped, and so is one without an
\* address (sync_node returns False without awaiting).
Continue(t, s, recorded, pushes, marked) ==
  LET due == {n \in s.todo \cap s.addressed : recorded[n] # Payload(n, s.users)}
  IN IF due = {}
     THEN Finish(t, pushes, marked)
     ELSE Send(t, Least(due), s, FALSE, pushes, marked)

\* sync_all begins: it reads the users and the nodes once.
StartSync(t) ==
  /\ \/ task[t].pc = "spawned"
     \/ t = Periodic /\ task[t] = Idle
  /\ Continue(t, [users |-> table, addressed |-> address, todo |-> Nodes],
              hash, net, disturbed)
  /\ UNCHANGED <<table, address, hash, ndb, booting, changes, faults, past, torn>>

\* Faulty: the hash is recorded whatever the outcome.
ResumeRecordsAlways(t, ok, pushes, marked) ==
  /\ hash' = [hash EXCEPT ![task[t].node] =
               IF task[t].manual THEN @ ELSE Payload(task[t].node, task[t].users)]
  /\ Continue(t, task[t], hash', pushes, marked)

\* sync_all after its await: record the hash of an acknowledged push, go on
\* with the next node.  api_sync_node_now has one node and records nothing.
Resume(t, ok, pushes, marked) ==
  /\ hash' = [hash EXCEPT ![task[t].node] =
               IF ok /\ ~task[t].manual
               THEN Payload(task[t].node, task[t].users) ELSE @]
  /\ Continue(t, task[t], hash', pushes, marked)

Underway(t) == {m \in net : m.from = t}

\* The answer arrives.
Answered(t) ==
  /\ task[t].pc = "answered"
  /\ Resume(t, TRUE, net, disturbed)
  /\ UNCHANGED <<table, address, ndb, booting, changes, faults, past, torn>>

\* The push was lost or refused: sync_node returns False.
Failed(t) ==
  /\ task[t].pc = "waiting"
  /\ Underway(t) = {}
  /\ Resume(t, FALSE, net, disturbed)
  /\ UNCHANGED <<table, address, ndb, booting, changes, faults, past, torn>>

\* The time-out of sync_node expires although the push is still under way, or
\* applied already: the task sees a failure and the push is nobody's.
TimedOut(t) ==
  /\ task[t].pc = "answered" \/ Underway(t) # {}
  /\ faults < MaxFaults
  /\ faults' = faults + 1
  /\ Resume(t, FALSE,
            (net \ Underway(t)) \cup {[m EXCEPT !.from = Nobody] : m \in Underway(t)},
            disturbed \cup {task[t].node})
  /\ UNCHANGED <<table, address, ndb, booting, changes, past, torn>>

-----------------------------------------------------------------------------
(* Handlers of the main panel.                                             *)

\* _trigger_node_sync: one more task.
Spawn == \E t \in Spawned : /\ task[t] = Idle
                            /\ task' = [task EXCEPT ![t] = [pc |-> "spawned"]]

\* api_create_user, api_update_user, api_delete_user, api_regenerate,
\* api_toggle: one row changes, then a sync is triggered.  The new row's date
\* may have passed: api_toggle enables an expired user.
ChangeUser(u, row) ==
  /\ changes < MaxChanges
  /\ row # table[u]
  /\ changes' = changes + 1
  /\ table' = [table EXCEPT ![u] = row]
  /\ Spawn
  /\ UNCHANGED <<address, hash, net, ndb, booting, faults, past, disturbed, torn>>

\* api_sync_node_now: push this node's users, whatever its hash.
SyncNodeNow(t, n) ==
  /\ task[t] = Idle
  /\ n \in address
  /\ faults < MaxFaults
  /\ faults' = faults + 1
  /\ Send(t, n, [users |-> table, addressed |-> address, todo |-> {}], TRUE,
          net, disturbed)
  /\ UNCHANGED <<table, address, hash, ndb, booting, changes, past, torn>>

\* api_node_register, called by a node that has booted: its address becomes
\* known and a sync is triggered.  The recorded hash stays.
Register(n) ==
  /\ n \in booting
  /\ booting' = booting \ {n}
  /\ address' = address \cup {n}
  /\ Spawn
  /\ UNCHANGED <<table, hash, net, ndb, changes, faults, past, disturbed, torn>>

-----------------------------------------------------------------------------
(* Expiry, on the main panel and on every node.                            *)

TimePasses(d) ==
  /\ d \notin past
  /\ past' = past \cup {d}
  /\ UNCHANGED <<table, address, hash, task, net, ndb, booting, changes, faults,
                 disturbed, torn>>

\* The users _housekeeping finds expired in a table, and the table once it
\* has disabled them.
Due(tb) == {u \in Users : tb[u] # NoUser /\ tb[u].enabled /\ tb[u].expire \in past}
Disabled(tb) ==
  [u \in Users |-> IF u \in Due(tb) THEN [tb[u] EXCEPT !.enabled = FALSE] ELSE tb[u]]

\* Main disables expired users.  It triggers no sync: the periodic task finds
\* the changed rows.
Housekeeping ==
  /\ Due(table) # {}
  /\ table' = Disabled(table)
  /\ UNCHANGED <<address, hash, task, net, ndb, booting, changes, faults, past,
                 disturbed, torn>>

\* A node does the same with the rows it has, whatever main has recorded.
NodeHousekeeping(n) ==
  /\ Due(ndb[n]) # {}
  /\ ndb' = [ndb EXCEPT ![n] = Disabled(@)]
  /\ UNCHANGED <<table, address, hash, task, net, booting, changes, faults, past,
                 disturbed, torn>>

-----------------------------------------------------------------------------
(* The nodes and the network.                                              *)

\* api_node_sync: fields that are None are left out of the update, a new user
\* is created from the rest, users not in the push are deleted.
Merged(old, new) ==
  [u \in Users |->
     IF new[u] # NoUser /\ old[u] # NoUser /\ new[u].expire = NoTime
     THEN [new[u] EXCEPT !.expire = old[u].expire]
     ELSE new[u]]

\* All of it: what half a push had left behind is overwritten.
Apply(m) ==
  /\ m \in net
  /\ m.node \notin booting
  /\ ndb' = [ndb EXCEPT ![m.node] = Merged(@, m.users)]
  /\ net' = net \ {m}
  /\ task' = IF m.from = Nobody THEN task
                                ELSE [task EXCEPT ![m.from].pc = "answered"]
  /\ torn' = torn \ {m.node}
  /\ UNCHANGED <<table, address, hash, booting, changes, faults, past, disturbed>>

\* Every user is a commit of its own; when one fails (or the reload does, with
\* all of them done) the node keeps those before it and answers with an error.
\* Users are deleted last.
ApplyHalf(m, done) ==
  /\ m \in net
  /\ m.node \notin booting
  /\ \/ {u \in Users : m.users[u] # NoUser} \subseteq done
     \/ \A u \in done : m.users[u] # NoUser
  /\ faults < MaxFaults
  /\ faults' = faults + 1
  /\ ndb' = [ndb EXCEPT ![m.node] =
       [u \in Users |-> IF u \in done THEN Merged(@, m.users)[u] ELSE @[u]]]
  /\ net' = net \ {m}
  /\ torn' = torn \cup {m.node}
  /\ UNCHANGED <<table, address, hash, task, booting, changes, past, disturbed>>

\* The push does not arrive: refused by a node that is down, or lost.
Lose(m) ==
  /\ m \in net
  /\ IF m.node \in booting
     THEN UNCHANGED faults
     ELSE faults < MaxFaults /\ faults' = faults + 1
  /\ net' = net \ {m}
  /\ UNCHANGED <<table, address, hash, task, ndb, booting, changes, past,
                 disturbed, torn>>

\* A node restarts; without a volume its disk is empty.
Reboot(n, wiped) ==
  /\ n \notin booting
  /\ faults < MaxFaults
  /\ faults' = faults + 1
  /\ booting' = booting \cup {n}
  /\ ndb' = IF wiped THEN [ndb EXCEPT ![n] = Nothing] ELSE ndb
  /\ disturbed' = IF wiped THEN disturbed \cup {n} ELSE disturbed
  /\ UNCHANGED <<table, address, hash, task, net, changes, past, torn>>

TaskStep(t) == StartSync(t) \/ Answered(t) \/ Failed(t)

Next ==
  \/ \E t \in Tasks : TaskStep(t) \/ TimedOut(t)
  \/ \E u \in Users, row \in Rows \cup {NoUser} : ChangeUser(u, row)
  \/ \E t \in Spawned, n \in Nodes : SyncNodeNow(t, n)
  \/ \E n \in Nodes : Register(n)
  \/ \E d \in Dates : TimePasses(d)
  \/ Housekeeping
  \/ \E n \in Nodes : NodeHousekeeping(n)
  \/ \E m \in net : Apply(m) \/ Lose(m)
  \/ \E m \in net, done \in SUBSET Users : ApplyHalf(m, done)
  \/ \E n \in Nodes, wiped \in BOOLEAN : Reboot(n, wiped)

\* Tasks run (the periodic one for ever), every push arrives or is refused or
\* lost (its time-out is 8 s), nodes register until it succeeds, and main's
\* housekeeping runs every 30 s.
Fairness ==
  /\ \A t \in Tasks : WF_vars(TaskStep(t))
  /\ \A t \in Tasks : WF_vars(\E m \in Underway(t) : Apply(m) \/ Lose(m))
  /\ \A n \in Nodes : WF_vars(Register(n))
  /\ WF_vars(Housekeeping)

Spec == Init /\ [][Next]_vars /\ Fairness

-----------------------------------------------------------------------------
(* Properties.                                                             *)

\* The rows a of a node agree with those meant for it, b: the same users, the
\* same fields, but a node may remember an expiry date that has been removed,
\* and has itself disabled a user whose date, as it knows it, is one of gone.
Agrees(a, b, gone) ==
  \A u \in Users :
    /\ a[u] = NoUser <=> b[u] = NoUser
    /\ b[u] # NoUser =>
         /\ b[u].expire \in {NoTime, a[u].expire}
         /\ a[u].enabled = b[u].enabled \/ (~a[u].enabled /\ a[u].expire \in gone)

(***************************************************************************)
(* sync_all skips a node on the strength of its recorded hash ("skip       *)
(* re-push when nothing changed since the last successful sync").  That is *)
(* sound, up to Agrees, for a node no push to which is under way, no push  *)
(* to which was ever uncontrolled, and whose last push was not applied in  *)
(* part: the hash then describes what the node has.                        *)
(***************************************************************************)
HashDescribesNode ==
  \A n \in Nodes \ (disturbed \cup torn) :
    Waiting(n) = {} /\ hash[n] # NoHash => Agrees(ndb[n], hash[n], past)

(***************************************************************************)
(* A node no push to which was uncontrolled ends up with the users main    *)
(* has for it, although pushes are lost or applied in part, dates pass and *)
(* the node restarts.  Two things stay wrong for ever, and are all that    *)
(* does: a date main has removed may keep a user disabled on the node, and *)
(* half a push is not made good when the table has meanwhile gone back to  *)
(* what the recorded hash says.                                            *)
(***************************************************************************)
Converged(n) ==
  LET users == Payload(n, table)
  IN /\ Agrees(ndb[n], users, past)
     /\ \A u \in Users : users[u] # NoUser /\ users[u].expire # NoTime
                           => ndb[n][u] = users[u]
UndisturbedNodesConverge ==
  \A n \in Nodes :
    <>[](\/ n \in disturbed
         \/ n \in torn /\ hash[n] = Payload(n, table)
         \/ Converged(n))
=============================================================================
