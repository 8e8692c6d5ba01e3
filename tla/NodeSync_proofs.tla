-------------------------- MODULE NodeSync_proofs --------------------------
(***************************************************************************)
(* What holds of the distribution of users for all sets of nodes, users    *)
(* and tasks and for any number of changes and of incidents.               *)
(***************************************************************************)
EXTENDS NodeSync, RealityRotation, SequenceTheorems, FiniteSetTheorems,
        WellFoundedInduction, TLAPS

\* A push belongs to the task that waits for it, and carries what that task
\* has read, unless its task has given up.
PushesBelong ==
  \A m \in net : m.from # Nobody =>
    /\ task[m.from].pc = "waiting" /\ task[m.from].node = m.node
    /\ m.users = Payload(m.node, task[m.from].users)

Answering(t, n) == t \in Tasks /\ task[t].pc = "answered" /\ task[t].node = n

\* While a node is undisturbed, one task at a time waits for it, and no push
\* to it is out of control.
OneAtATime ==
  \A n \in Nodes \ disturbed :
    /\ \A s, t \in Waiting(n) : s = t
    /\ \A t \in Waiting(n) : ~task[t].manual
    /\ \A m \in net : m.node = n => m.from # Nobody

\* Such a node, if its last push was not applied in part, has what its hash
\* says even while a push to it is under way: until the push is applied the old
\* hash, from then on the one that will be recorded when the answer arrives.
Whole == Nodes \ (disturbed \cup torn)
NodesAgree ==
  \A n \in Whole :
    /\ \A t \in Tasks :
         Answering(t, n) => Agrees(ndb[n], Payload(n, task[t].users), past)
    /\ (\A t \in Tasks : ~Answering(t, n)) /\ hash[n] # NoHash
         => Agrees(ndb[n], hash[n], past)

\* The inductive invariant.
SyncInv == TypeOK /\ PushesBelong /\ OneAtATime /\ NodesAgree

-----------------------------------------------------------------------------
(* Operators.                                                              *)

\* A set of numbers has a least one.
LEMMA LeastFacts ==
  ASSUME NEW S \in SUBSET Nat, S # {}
  PROVE  Least(S) \in S
<1> DEFINE R == {ss \in Nat \X Nat : ss[1] < ss[2]}
<1>1. IsWellFoundedOn(R, Nat)
  BY NatLessThanWellFounded DEF OpToRel
<1>2. PICK x \in S : \A y \in S : ~ (<<y, x>> \in R)
  <2> HIDE DEF R
  <2> QED BY <1>1, WFMin
<1>3. \A y \in S : x <= y
  <2> TAKE y \in S
  <2>1. x \in Nat /\ y \in Nat
    OBVIOUS
  <2>2. <<y, x>> \in R <=> y < x
    BY <2>1
  <2> HIDE DEF R
  <2> QED BY <1>2, <2>1, <2>2
<1> QED BY <1>3 DEF Least

\* What is pushed to a node is a table of a node.
LEMMA PayloadType ==
  ASSUME NEW n \in Nodes, NEW tb \in Tables
  PROVE  Payload(n, tb) \in Payloads
<1>1. ASSUME NEW u \in Users, tb[u] # NoUser
      PROVE  Trim(tb[u]) \in NodeRows
  BY <1>1, RowsAssumption DEF Tables, Trim, NodeRows
<1> QED BY <1>1 DEF Payload, Payloads

\* A node that applies a push has rows of the right type, and they agree with
\* the push: what it keeps of its own is an expiry date.
LEMMA MergedFacts ==
  ASSUME NEW old \in Payloads, NEW new \in Payloads, NEW gone
  PROVE  Merged(old, new) \in Payloads /\ Agrees(Merged(old, new), new, gone)
<1>1. ASSUME NEW u \in Users
      PROVE  /\ Merged(old, new)[u] \in NodeRows \cup {NoUser}
             /\ Merged(old, new)[u] = NoUser <=> new[u] = NoUser
             /\ new[u] # NoUser =>
                  /\ Merged(old, new)[u].enabled = new[u].enabled
                  /\ new[u].expire \in {NoTime, Merged(old, new)[u].expire}
  <2>1. old[u] \in NodeRows \cup {NoUser} /\ new[u] \in NodeRows \cup {NoUser}
    BY DEF Payloads
  <2>2. CASE new[u] # NoUser /\ old[u] # NoUser /\ new[u].expire = NoTime
    <3>1. Merged(old, new)[u] = [new[u] EXCEPT !.expire = old[u].expire]
      BY <2>2 DEF Merged
    <3>2. new[u] \in NodeRows /\ old[u] \in NodeRows
      BY <2>1, <2>2
    <3> QED BY <2>2, <3>1, <3>2, RowsAssumption DEF NodeRows
  <2>3. CASE ~(new[u] # NoUser /\ old[u] # NoUser /\ new[u].expire = NoTime)
    BY <2>1, <2>3 DEF Merged
  <2> QED BY <2>2, <2>3
<1>2. Merged(old, new) \in Payloads
  BY <1>1 DEF Merged, Payloads
<1> QED BY <1>1, <1>2 DEF Agrees

-----------------------------------------------------------------------------
(* The sync tasks.                                                         *)

Pushes == [from : Tasks \cup {Nobody}, node : Nodes, users : Payloads]

\* What a step of task t may do to the pushes, the hashes and the history
\* before it goes on: it leaves no push of its own behind but one out of
\* control, and records what a node has just confirmed.
Controlled(t, pushes, marked) ==
  /\ disturbed \subseteq marked /\ marked \subseteq Nodes
  /\ pushes \subseteq Pushes
  /\ \A m \in pushes : /\ m.from # t
                       /\ m \in net \/ (m.from = Nobody /\ m.node \in marked)
  /\ hash' \in [Nodes -> Payloads \cup {NoHash}]
  /\ \A n \in Nodes \ marked :
       hash'[n] = IF Answering(t, n) THEN Payload(n, task[t].users) ELSE hash[n]
  /\ faults' \in 0..MaxFaults
  /\ UNCHANGED <<table, address, ndb, booting, changes, past, torn>>

\* A task that ends leaves the nodes as they are.
LEMMA FinishKeeps ==
  ASSUME SyncInv, NEW t \in Tasks, NEW pushes, NEW marked,
         Controlled(t, pushes, marked), Finish(t, pushes, marked)
  PROVE  SyncInv'
<1> USE DEF Controlled, Finish
<1>1. /\ task \in [Tasks -> TaskStates] /\ task'[t] = Idle
      /\ \A s \in Tasks \ {t} : task'[s] = task[s]
  BY DEF SyncInv, TypeOK
<1>2. TypeOK'
  BY DEF SyncInv, TypeOK, Pushes, TaskStates
<1>3. PushesBelong'
  BY <1>1, TasksAssumption DEF SyncInv, PushesBelong, Pushes
<1>4. \A n : (Waiting(n))' = Waiting(n) \ {t}
  BY <1>1 DEF Waiting, Idle
<1>5. OneAtATime'
  <2> SUFFICES ASSUME NEW n \in Nodes \ disturbed'
               PROVE  /\ \A r, s \in (Waiting(n))' : r = s
                      /\ \A s \in (Waiting(n))' : ~task'[s].manual
                      /\ \A m \in net' : m.node = n => m.from # Nobody
    BY DEF OneAtATime
  <2>1. n \in Nodes \ disturbed
    OBVIOUS
  <2> QED BY <1>1, <1>4, <2>1 DEF SyncInv, OneAtATime, Waiting
<1>6. NodesAgree'
  <2> SUFFICES ASSUME NEW n \in Whole'
               PROVE  /\ \A s \in Tasks : (Answering(s, n))'
                           => Agrees(ndb[n], Payload(n, task'[s].users), past)
                      /\ (\A s \in Tasks : ~(Answering(s, n))') /\ hash'[n] # NoHash
                           => Agrees(ndb[n], hash'[n], past)
    BY DEF NodesAgree
  <2>1. n \in Whole /\ n \in Nodes \ marked
    BY DEF Whole
  <2>2. \A s \in Tasks : (Answering(s, n))' <=> Answering(s, n) /\ s # t
    BY <1>1 DEF Answering, Idle
  <2> QED BY <1>1, <2>1, <2>2 DEF SyncInv, NodesAgree
<1> QED BY <1>2, <1>3, <1>5, <1>6 DEF SyncInv

\* A task that sends a push leaves the nodes as they are.
LEMMA SendKeeps ==
  ASSUME SyncInv, NEW t \in Tasks, NEW pushes, NEW marked, NEW n \in Nodes,
         NEW s, s.users \in Tables, s.addressed \in SUBSET Nodes, s.todo \in SUBSET Nodes,
         NEW manual \in BOOLEAN,
         Controlled(t, pushes, marked), Send(t, n, s, manual, pushes, marked)
  PROVE  SyncInv'
<1> DEFINE new == [pc |-> "waiting", node |-> n, users |-> s.users,
                   addressed |-> s.addressed, todo |-> {m \in s.todo : m > n},
                   manual |-> manual]
           push == [from |-> t, node |-> n, users |-> Payload(n, s.users)]
<1>1. /\ task \in [Tasks -> TaskStates] /\ task'[t] = new
      /\ \A r \in Tasks \ {t} : task'[r] = task[r]
  BY DEF Send, SyncInv, TypeOK
<1>2. net' = pushes \cup {push} /\ push \in Pushes
  BY PayloadType DEF Send, Pushes
<1>3. TypeOK'
  <2>1. new \in TaskStates
    BY DEF TaskStates
  <2>2. task' \in [Tasks -> TaskStates]
    BY <2>1 DEF Send, SyncInv, TypeOK
  <2>3. disturbed' \subseteq Nodes
    BY DEF Send, Controlled
  <2> QED BY <1>2, <2>2, <2>3 DEF Controlled, SyncInv, TypeOK, Pushes
<1>4. PushesBelong'
  <2> SUFFICES ASSUME NEW m \in net', m.from # Nobody
               PROVE  /\ task'[m.from].pc = "waiting" /\ task'[m.from].node = m.node
                      /\ m.users = Payload(m.node, task'[m.from].users)
    BY DEF PushesBelong
  <2>1. CASE m = push
    BY <1>1, <2>1
  <2>2. CASE m # push
    <3>1. m \in net /\ m.from # t /\ m.from \in Tasks
      BY <1>2, <2>2 DEF Controlled, Pushes
    <3> QED BY <1>1, <3>1 DEF SyncInv, PushesBelong
  <2> QED BY <2>1, <2>2
<1>5. disturbed' = marked \cup {m \in {n} : manual \/ Waiting(n) \ {t} # {}}
  BY DEF Send
<1>6. \A m : (Waiting(m))' = (Waiting(m) \ {t}) \cup {r \in {t} : m = n}
  BY <1>1 DEF Waiting
<1>7. OneAtATime'
  <2> SUFFICES ASSUME NEW k \in Nodes \ disturbed'
               PROVE  /\ \A r, q \in (Waiting(k))' : r = q
                      /\ \A r \in (Waiting(k))' : ~task'[r].manual
                      /\ \A m \in net' : m.node = k => m.from # Nobody
    BY DEF OneAtATime
  <2>1. k \in Nodes \ disturbed /\ k \notin marked
    BY <1>5 DEF Controlled
  <2>2. k = n => ~manual /\ Waiting(k) \ {t} = {}
    BY <1>5
  <2>3. \A r \in (Waiting(k))' : ~task'[r].manual
    BY <1>1, <1>6, <2>1, <2>2 DEF SyncInv, OneAtATime, Waiting
  <2>4. \A r, q \in (Waiting(k))' : r = q
    BY <1>6, <2>1, <2>2 DEF SyncInv, OneAtATime
  <2>5. \A m \in net' : m.node = k => m.from # Nobody
    BY <1>2, <2>1, TasksAssumption DEF SyncInv, OneAtATime, Controlled, Tasks
  <2> QED BY <2>3, <2>4, <2>5
<1>8. NodesAgree'
  <2> SUFFICES ASSUME NEW k \in Whole'
               PROVE  /\ \A r \in Tasks : (Answering(r, k))'
                           => Agrees(ndb[k], Payload(k, task'[r].users), past)
                      /\ (\A r \in Tasks : ~(Answering(r, k))') /\ hash'[k] # NoHash
                           => Agrees(ndb[k], hash'[k], past)
    BY DEF NodesAgree, Controlled
  <2>1. k \in Whole /\ k \in Nodes \ marked
    BY <1>5 DEF Controlled, Whole
  <2>2. \A r \in Tasks : (Answering(r, k))' <=> Answering(r, k) /\ r # t
    BY <1>1 DEF Answering
  <2> QED BY <1>1, <2>1, <2>2 DEF SyncInv, NodesAgree, Controlled
<1> QED BY <1>3, <1>4, <1>7, <1>8 DEF SyncInv

\* So does a task that goes on with its loop.
LEMMA ContinueKeeps ==
  ASSUME SyncInv, NEW t \in Tasks, NEW pushes, NEW marked, NEW recorded,
         NEW s, s.users \in Tables, s.addressed \in SUBSET Nodes, s.todo \in SUBSET Nodes,
         Controlled(t, pushes, marked), Continue(t, s, recorded, pushes, marked)
  PROVE  SyncInv'
<1> DEFINE due == {n \in s.todo \cap s.addressed : recorded[n] # Payload(n, s.users)}
<1>1. CASE due = {}
  BY <1>1, FinishKeeps DEF Continue
<1>2. CASE due # {}
  <2>1. Least(due) \in Nodes
    BY <1>2, LeastFacts, NodesAssumption
  <2>2. Send(t, Least(due), s, FALSE, pushes, marked)
    BY <1>2 DEF Continue
  <2> QED BY <2>1, <2>2, SendKeeps
<1> QED BY <1>1, <1>2

\* sync_all may begin at any time.
LEMMA StartKeeps ==
  ASSUME SyncInv, NEW t \in Tasks, StartSync(t)
  PROVE  SyncInv'
<1>1. task[t].pc \in {"none", "spawned"}
  BY DEF StartSync, Idle
<1>2. Controlled(t, net, disturbed)
  BY <1>1, TasksAssumption
  DEF StartSync, Controlled, SyncInv, TypeOK, Pushes, PushesBelong, Tasks, Answering
<1> DEFINE s == [users |-> table, addressed |-> address, todo |-> Nodes]
<1>3. Continue(t, s, hash, net, disturbed)
  BY DEF StartSync
<1>4. s.users \in Tables /\ s.addressed \in SUBSET Nodes /\ s.todo \in SUBSET Nodes
  BY DEF SyncInv, TypeOK
<1> HIDE DEF s
<1> QED BY <1>2, <1>3, <1>4, ContinueKeeps

\* A task that resumes records what an undisturbed node has: the hash it
\* writes is that of the push which the node has just confirmed.
LEMMA ResumeKeeps ==
  ASSUME SyncInv, NEW t \in Tasks, task[t].pc \in {"waiting", "answered"},
         NEW ok \in BOOLEAN, NEW pushes, NEW marked,
         disturbed \subseteq marked, marked \subseteq Nodes, pushes \subseteq Pushes,
         \A m \in pushes : /\ m.from # t
                           /\ m \in net \/ (m.from = Nobody /\ m.node \in marked),
         ok => task[t].pc = "answered",
         ~ok /\ task[t].pc = "answered" => task[t].node \in marked,
         Resume(t, ok, pushes, marked),
         faults' \in 0..MaxFaults,
         UNCHANGED <<table, address, ndb, booting, changes, past, torn>>
  PROVE  SyncInv'
<1>1. /\ task[t].node \in Nodes /\ task[t].users \in Tables
      /\ task[t].addressed \in SUBSET Nodes /\ task[t].todo \in SUBSET Nodes
      /\ task[t].manual \in BOOLEAN
  BY DEF SyncInv, TypeOK, TaskStates, Idle
<1> DEFINE n == task[t].node
           sent == Payload(n, task[t].users)
<1>2. sent \in Payloads
  BY <1>1, PayloadType
<1>3. hash' = [hash EXCEPT ![n] = IF ok /\ ~task[t].manual THEN sent ELSE @]
  BY DEF Resume
<1>4. hash' \in [Nodes -> Payloads \cup {NoHash}]
  BY <1>1, <1>2, <1>3 DEF SyncInv, TypeOK
<1>5. ASSUME NEW k \in Nodes \ marked
      PROVE  hash'[k] = IF Answering(t, k) THEN Payload(k, task[t].users) ELSE hash[k]
  <2>1. hash \in [Nodes -> Payloads \cup {NoHash}]
    BY DEF SyncInv, TypeOK
  <2>2. CASE k = n /\ ok
    <3>1. ~task[t].manual
      BY <2>2 DEF SyncInv, OneAtATime, Waiting
    <3> QED BY <1>3, <2>1, <2>2, <3>1 DEF Answering
  <2>3. CASE ~(k = n /\ ok)
    BY <1>3, <2>1, <2>3 DEF Answering
  <2> QED BY <2>2, <2>3
<1>6. Controlled(t, pushes, marked)
  BY <1>4, <1>5 DEF Controlled
<1>7. Continue(t, task[t], hash', pushes, marked)
  BY DEF Resume
<1> QED BY <1>1, <1>6, <1>7, ContinueKeeps

\* The steps of a task that was waiting: answered, failed, timed out.
LEMMA AnswerKeeps ==
  ASSUME SyncInv, NEW t \in Tasks, Answered(t) \/ Failed(t) \/ TimedOut(t)
  PROVE  SyncInv'
<1>1. /\ disturbed \subseteq Nodes /\ net \subseteq Pushes
      /\ faults \in 0..MaxFaults /\ MaxFaults \in Nat
  BY BoundsAssumption DEF SyncInv, TypeOK, Pushes
<1>2. \A m \in Underway(t) : /\ task[t].pc = "waiting" /\ task[t].node = m.node
                             /\ m \in net
  BY TasksAssumption DEF Underway, SyncInv, PushesBelong, Tasks
<1>3. CASE Answered(t)
  <2>1. /\ task[t].pc = "answered" /\ Resume(t, TRUE, net, disturbed)
        /\ UNCHANGED <<table, address, ndb, booting, changes, faults, past, torn>>
    BY <1>3 DEF Answered
  <2>2. \A m \in net : m.from # t
    BY <1>2, <2>1 DEF Underway
  <2> QED BY <1>1, <2>1, <2>2, ResumeKeeps
<1>4. CASE Failed(t)
  <2>1. /\ task[t].pc = "waiting" /\ Resume(t, FALSE, net, disturbed)
        /\ UNCHANGED <<table, address, ndb, booting, changes, faults, past, torn>>
    BY <1>4 DEF Failed
  <2>2. \A m \in net : m.from # t
    BY <1>4 DEF Failed, Underway
  <2> QED BY <1>1, <2>1, <2>2, ResumeKeeps
<1>5. CASE TimedOut(t)
  <2> DEFINE orphans == {[m EXCEPT !.from = Nobody] : m \in Underway(t)}
             pushes == (net \ Underway(t)) \cup orphans
             marked == disturbed \cup {task[t].node}
  <2>1. /\ faults < MaxFaults /\ faults' = faults + 1
        /\ Resume(t, FALSE, pushes, marked)
        /\ UNCHANGED <<table, address, ndb, booting, changes, past, torn>>
    BY <1>5, Zenon DEF TimedOut
  <2>8. faults' \in 0..MaxFaults
    BY <1>1, <2>1
  <2>2. task[t].pc \in {"waiting", "answered"}
    BY <1>2, <1>5 DEF TimedOut
  <2>3. task[t].node \in Nodes
    BY <2>2 DEF SyncInv, TypeOK, TaskStates, Idle
  <2>4. \A m \in orphans : m \in Pushes /\ m.from = Nobody /\ m.node \in marked
    BY <1>1, <1>2 DEF Pushes
  <2>5. \A m \in pushes : /\ m.from # t
                          /\ m \in net \/ (m.from = Nobody /\ m.node \in marked)
    BY <2>4, TasksAssumption DEF Underway, Tasks
  <2>6. pushes \subseteq Pushes /\ marked \subseteq Nodes /\ disturbed \subseteq marked
    BY <1>1, <2>3, <2>4
  <2>7. task[t].node \in marked
    OBVIOUS
  <2> HIDE DEF orphans, pushes, marked
  <2>9. /\ FALSE => task[t].pc = "answered"
        /\ ~FALSE /\ task[t].pc = "answered" => task[t].node \in marked
        /\ FALSE \in BOOLEAN
    BY <2>7
  <2> QED BY <2>1, <2>8, <2>2, <2>5, <2>6, <2>9, ResumeKeeps, ZenonT(60)
<1> QED BY <1>3, <1>4, <1>5

\* So does the push of the administrator, which the history calls disturbing.
LEMMA ManualPushKeeps ==
  ASSUME SyncInv, NEW t \in Spawned, NEW n \in Nodes, SyncNodeNow(t, n)
  PROVE  SyncInv'
<1>1. t \in Tasks /\ task[t].pc = "none" /\ faults' \in 0..MaxFaults
  BY BoundsAssumption DEF Tasks, SyncNodeNow, Idle, SyncInv, TypeOK
<1>2. Controlled(t, net, disturbed)
  BY <1>1, TasksAssumption
  DEF SyncNodeNow, Controlled, SyncInv, TypeOK, Pushes, PushesBelong, Tasks, Answering
<1> DEFINE s == [users |-> table, addressed |-> address, todo |-> {}]
<1>3. Send(t, n, s, TRUE, net, disturbed)
  BY DEF SyncNodeNow
<1>4. s.users \in Tables /\ s.addressed \in SUBSET Nodes /\ s.todo \in SUBSET Nodes
  BY DEF SyncInv, TypeOK
<1> HIDE DEF s
<1> QED BY <1>1, <1>2, <1>3, <1>4, SendKeeps

-----------------------------------------------------------------------------
(* Handlers, nodes and the network.                                        *)

\* A handler that spawns a task leaves the nodes and the pushes alone.
LEMMA SpawnKeeps ==
  ASSUME SyncInv, Spawn, UNCHANGED <<hash, net, ndb, faults, past, disturbed, torn>>,
         table' \in Tables, address' \subseteq Nodes, booting' \subseteq Nodes,
         changes' \in 0..MaxChanges
  PROVE  SyncInv'
<1>1. PICK t \in Spawned : task[t] = Idle /\ task' = [task EXCEPT ![t] = [pc |-> "spawned"]]
  BY DEF Spawn
<1>2. /\ task' \in [Tasks -> TaskStates] /\ task[t].pc = "none" /\ task'[t].pc = "spawned"
      /\ \A r \in Tasks : r = t \/ task'[r] = task[r]
  BY <1>1 DEF SyncInv, TypeOK, Tasks, TaskStates, Idle
<1>3. TypeOK'
  BY <1>2 DEF SyncInv, TypeOK
<1>4. PushesBelong'
  <2> SUFFICES ASSUME NEW m \in net, m.from # Nobody
               PROVE  /\ task'[m.from].pc = "waiting" /\ task'[m.from].node = m.node
                      /\ m.users = Payload(m.node, task'[m.from].users)
    BY DEF PushesBelong
  <2>1. m.from \in Tasks
    BY DEF SyncInv, TypeOK
  <2> QED BY <1>2, <2>1 DEF SyncInv, PushesBelong
<1>5. \A n : (Waiting(n))' = Waiting(n)
  BY <1>2 DEF Waiting
<1>6. OneAtATime'
  BY <1>2, <1>5 DEF SyncInv, OneAtATime, Waiting
<1>7. \A n : \A r \in Tasks : (Answering(r, n))' <=> Answering(r, n)
  BY <1>2 DEF Answering
<1>8. \A n : \A r \in Tasks : Answering(r, n) => task'[r] = task[r]
  BY <1>2 DEF Answering
<1>9. NodesAgree'
  BY <1>7, <1>8 DEF SyncInv, NodesAgree, Whole
<1> QED BY <1>3, <1>4, <1>6, <1>9 DEF SyncInv

\* When an undisturbed node applies a push, that push is the one its only
\* task waits for, and the node then has what the task will record.
LEMMA ApplyKeeps ==
  ASSUME SyncInv, NEW m \in net, Apply(m)
  PROVE  SyncInv'
<1>1. m.node \in Nodes /\ m.users \in Payloads /\ m.from \in Tasks \cup {Nobody}
  BY DEF SyncInv, TypeOK
<1> DEFINE t == m.from
           merged == Merged(ndb[m.node], m.users)
<1>2. merged \in Payloads /\ Agrees(merged, m.users, past)
  BY <1>1, MergedFacts DEF SyncInv, TypeOK
<1>3. /\ ndb' = [ndb EXCEPT ![m.node] = merged] /\ net' = net \ {m}
      /\ UNCHANGED <<table, address, hash, booting, changes, faults, past, disturbed>>
      /\ torn' = torn \ {m.node}
      /\ t = Nobody => task' = task
      /\ t # Nobody => task' = [task EXCEPT ![t].pc = "answered"]
  BY DEF Apply
<1>4. t # Nobody => /\ task[t].pc = "waiting" /\ task[t].node = m.node
                    /\ m.users = Payload(m.node, task[t].users)
                    /\ task[t] \in TaskStates
  BY <1>1 DEF SyncInv, PushesBelong, TypeOK
<1>5. t # Nobody =>
        /\ task'[t] \in TaskStates
        /\ task'[t].pc = "answered" /\ task'[t].node = m.node
        /\ task'[t].users = task[t].users /\ task'[t].manual = task[t].manual
  <2> SUFFICES ASSUME t # Nobody
               PROVE  /\ task'[t] \in TaskStates
                      /\ task'[t].pc = "answered" /\ task'[t].node = m.node
                      /\ task'[t].users = task[t].users /\ task'[t].manual = task[t].manual
    OBVIOUS
  <2>1. task'[t] = [task[t] EXCEPT !.pc = "answered"]
    BY <1>1, <1>3 DEF SyncInv, TypeOK
  <2>2. task[t] \in [pc : {"waiting", "answered"}, node : Nodes, users : Tables,
                     addressed : SUBSET Nodes, todo : SUBSET Nodes, manual : BOOLEAN]
    BY <1>4 DEF TaskStates, Idle
  <2> QED BY <1>4, <2>1, <2>2 DEF TaskStates
<1>6. \A r \in Tasks : r = t \/ task'[r] = task[r]
  BY <1>3 DEF SyncInv, TypeOK
<1>7. task' \in [Tasks -> TaskStates]
  BY <1>1, <1>3, <1>5, <1>6 DEF SyncInv, TypeOK
<1>8. TypeOK'
  BY <1>1, <1>2, <1>3, <1>7 DEF SyncInv, TypeOK
<1>9. PushesBelong'
  <2> SUFFICES ASSUME NEW q \in net', q.from # Nobody
               PROVE  /\ task'[q.from].pc = "waiting" /\ task'[q.from].node = q.node
                      /\ q.users = Payload(q.node, task'[q.from].users)
    BY DEF PushesBelong
  <2>1. q \in net /\ q # m /\ q.from \in Tasks
    BY <1>3 DEF SyncInv, TypeOK
  <2>2. q.from # t
    BY <1>4, <2>1 DEF SyncInv, PushesBelong, TypeOK
  <2> QED BY <1>6, <2>1, <2>2 DEF SyncInv, PushesBelong
<1>10. \A n : (Waiting(n))' = Waiting(n)
  BY <1>1, <1>4, <1>5, <1>6, TasksAssumption DEF Waiting, Tasks
<1>11. \A n : \A r \in Waiting(n) : task'[r].manual = task[r].manual
  BY <1>5, <1>6, TasksAssumption DEF Tasks, Waiting
<1>12. OneAtATime'
  <2> SUFFICES ASSUME NEW n \in Nodes \ disturbed
               PROVE  /\ \A r, q \in (Waiting(n))' : r = q
                      /\ \A r \in (Waiting(n))' : ~task'[r].manual
                      /\ \A q \in net' : q.node = n => q.from # Nobody
    BY <1>3 DEF OneAtATime
  <2> QED BY <1>3, <1>10, <1>11 DEF SyncInv, OneAtATime
<1>13. NodesAgree'
  <2> SUFFICES ASSUME NEW n \in Whole'
               PROVE  /\ \A r \in Tasks : (Answering(r, n))'
                           => Agrees(ndb'[n], Payload(n, task'[r].users), past)
                      /\ (\A r \in Tasks : ~(Answering(r, n))') /\ hash[n] # NoHash
                           => Agrees(ndb'[n], hash[n], past)
    BY <1>3 DEF NodesAgree
  <2>0. n \in Nodes \ disturbed
    BY <1>3 DEF Whole
  <2>1. CASE n = m.node
    <3>1. t \in Tasks /\ t # Nobody
      BY <1>1, <2>0, <2>1 DEF SyncInv, OneAtATime
    <3>2. t \in Waiting(n) /\ \A r \in Waiting(n) : r = t
      BY <1>4, <2>0, <2>1, <3>1 DEF SyncInv, OneAtATime, Waiting
    <3>3. (Answering(t, n))' /\ \A r \in Tasks : (Answering(r, n))' => r = t
      BY <1>5, <1>10, <2>1, <3>1, <3>2 DEF Answering, Waiting
    <3>4. Agrees(ndb'[n], Payload(n, task'[t].users), past)
      BY <1>1, <1>2, <1>3, <1>4, <1>5, <2>1, <3>1 DEF SyncInv, TypeOK
    <3> QED BY <3>1, <3>3, <3>4
  <2>2. CASE n # m.node
    <3>1. ndb'[n] = ndb[n]
      BY <1>3, <2>2 DEF SyncInv, TypeOK
    <3>2. \A r \in Tasks : (Answering(r, n))' <=> Answering(r, n)
      BY <1>4, <1>5, <1>6, <2>2, TasksAssumption DEF Answering, Tasks
    <3>3. \A r \in Tasks : Answering(r, n) => task'[r] = task[r]
      BY <1>4, <1>6, <2>2, TasksAssumption DEF Answering, Tasks
    <3>4. n \in Whole
      BY <1>3, <2>2 DEF Whole
    <3> QED BY <3>1, <3>2, <3>3, <3>4 DEF SyncInv, NodesAgree
  <2> QED BY <2>1, <2>2
<1> QED BY <1>8, <1>9, <1>12, <1>13 DEF SyncInv

\* A push that is lost changes no node, and neither does a restart, but for a
\* node that loses its disk, which the history calls disturbed.
LEMMA IncidentKeeps ==
  ASSUME SyncInv,
         \/ \E m \in net : Lose(m)
         \/ \E n \in Nodes, wiped \in BOOLEAN : Reboot(n, wiped)
  PROVE  SyncInv'
<1>1. ASSUME NEW m \in net, Lose(m)
      PROVE  SyncInv'
  <2>1. /\ net' \subseteq net
        /\ UNCHANGED <<table, address, hash, task, ndb, booting, changes, past,
                       disturbed, torn>>
    BY <1>1 DEF Lose
  <2>2. TypeOK'
    BY <1>1, <2>1, BoundsAssumption DEF Lose, SyncInv, TypeOK
  <2>3. PushesBelong'
    BY <2>1 DEF SyncInv, PushesBelong
  <2>4. OneAtATime'
    BY <2>1 DEF SyncInv, OneAtATime, Waiting
  <2>5. NodesAgree'
    BY <2>1 DEF SyncInv, NodesAgree, Answering, Whole
  <2> QED BY <2>2, <2>3, <2>4, <2>5 DEF SyncInv
<1>2. ASSUME NEW n \in Nodes, NEW wiped \in BOOLEAN, Reboot(n, wiped)
      PROVE  SyncInv'
  <2>1. /\ UNCHANGED <<table, address, hash, task, net, changes, past, torn>>
        /\ disturbed \subseteq disturbed' /\ disturbed' \subseteq Nodes
        /\ \A k \in Nodes \ disturbed' : ndb'[k] = ndb[k]
    BY <1>2 DEF Reboot, SyncInv, TypeOK
  <2>2. Nothing \in Payloads
    BY DEF Nothing, Payloads
  <2>3. TypeOK'
    BY <1>2, <2>1, <2>2, BoundsAssumption DEF Reboot, SyncInv, TypeOK
  <2>4. PushesBelong'
    BY <2>1 DEF SyncInv, PushesBelong
  <2>5. OneAtATime'
    BY <2>1 DEF SyncInv, OneAtATime, Waiting
  <2>6. NodesAgree'
    BY <2>1 DEF SyncInv, NodesAgree, Answering, Whole
  <2> QED BY <2>3, <2>4, <2>5, <2>6 DEF SyncInv
<1> QED BY <1>1, <1>2

\* Half a push is no answer, and the history says of its node that it is torn.
LEMMA HalfKeeps ==
  ASSUME SyncInv, NEW m \in net, NEW done \in SUBSET Users, ApplyHalf(m, done)
  PROVE  SyncInv'
<1>1. /\ m.node \in Nodes /\ m.users \in Payloads /\ ndb[m.node] \in Payloads
      /\ ndb \in [Nodes -> Payloads]
  BY DEF SyncInv, TypeOK
<1> DEFINE half == [u \in Users |-> IF u \in done THEN Merged(ndb[m.node], m.users)[u]
                                                 ELSE ndb[m.node][u]]
<1>2. half \in Payloads
  <2>1. Merged(ndb[m.node], m.users) \in Payloads
    BY <1>1, MergedFacts
  <2> QED BY <1>1, <2>1 DEF Payloads
<1>3. /\ ndb' = [ndb EXCEPT ![m.node] = half] /\ net' = net \ {m}
      /\ torn' = torn \cup {m.node} /\ faults' \in 0..MaxFaults
      /\ UNCHANGED <<table, address, hash, task, booting, changes, past, disturbed>>
  BY <1>1, BoundsAssumption DEF ApplyHalf, SyncInv, TypeOK
<1> HIDE DEF half
<1>4. TypeOK'
  BY <1>1, <1>2, <1>3 DEF SyncInv, TypeOK
<1>5. PushesBelong'
  BY <1>3 DEF SyncInv, PushesBelong
<1>6. OneAtATime'
  BY <1>3 DEF SyncInv, OneAtATime, Waiting
<1>7. \A n \in Whole' : n \in Whole /\ ndb'[n] = ndb[n]
  BY <1>1, <1>3 DEF Whole
<1>8. NodesAgree'
  BY <1>3, <1>7 DEF SyncInv, NodesAgree, Answering
<1> QED BY <1>4, <1>5, <1>6, <1>8 DEF SyncInv

\* Disabling expired users keeps a node's table one, and in agreement with
\* whatever it agreed with.
LEMMA DisabledFacts ==
  ASSUME NEW a \in Payloads
  PROVE  /\ Disabled(a) \in Payloads
         /\ \A b : Agrees(a, b, past) => Agrees(Disabled(a), b, past)
<1>1. ASSUME NEW u \in Users
      PROVE  /\ Disabled(a)[u] \in NodeRows \cup {NoUser}
             /\ Disabled(a)[u] = NoUser <=> a[u] = NoUser
             /\ a[u] # NoUser =>
                  /\ Disabled(a)[u].expire = a[u].expire
                  /\ \/ Disabled(a)[u].enabled = a[u].enabled
                     \/ ~Disabled(a)[u].enabled /\ a[u].expire \in past
  <2>1. a[u] \in NodeRows \cup {NoUser}
    BY DEF Payloads
  <2>2. CASE u \in Due(a)
    <3>1. a[u] \in NodeRows /\ a[u].expire \in past
      BY <2>1, <2>2 DEF Due
    <3>2. Disabled(a)[u] = [a[u] EXCEPT !.enabled = FALSE]
      BY <2>2 DEF Disabled
    <3>3. /\ Disabled(a)[u] \in NodeRows /\ ~Disabled(a)[u].enabled
          /\ Disabled(a)[u].expire = a[u].expire
      BY <3>1, <3>2 DEF NodeRows
    <3> QED BY <2>2, <3>1, <3>3, RowsAssumption DEF Due
  <2>3. CASE u \notin Due(a)
    BY <2>1, <2>3 DEF Disabled
  <2> QED BY <2>2, <2>3
<1>2. Disabled(a) \in Payloads
  BY <1>1 DEF Disabled, Payloads
<1> QED BY <1>1, <1>2, Zenon DEF Agrees

\* Expiry keeps the invariant: main's rows stay rows, a node's rows stay in
\* agreement with its hash.
LEMMA ExpiryKeeps ==
  ASSUME SyncInv,
         \/ \E d \in Dates : TimePasses(d)
         \/ Housekeeping
         \/ \E n \in Nodes : NodeHousekeeping(n)
  PROVE  SyncInv'
<1>1. ASSUME NEW d \in Dates, TimePasses(d)
      PROVE  SyncInv'
  <2>1. /\ past' = past \cup {d}
        /\ UNCHANGED <<table, address, hash, task, net, ndb, booting, changes, faults,
                       disturbed, torn>>
    BY <1>1 DEF TimePasses
  <2>2. \A a, b : Agrees(a, b, past) => Agrees(a, b, past')
    BY <2>1 DEF Agrees
  <2>3. NodesAgree'
    BY <2>1, <2>2 DEF SyncInv, NodesAgree, Answering, Whole
  <2> QED BY <2>1, <2>3 DEF SyncInv, TypeOK, PushesBelong, OneAtATime, Waiting
<1>2. CASE Housekeeping
  <2>1. /\ table' = Disabled(table)
        /\ UNCHANGED <<address, hash, task, net, ndb, booting, changes, faults, past,
                       disturbed, torn>>
    BY <1>2 DEF Housekeeping
  <2>2. ASSUME NEW u \in Users
        PROVE  Disabled(table)[u] \in Rows \cup {NoUser}
    <3>1. table[u] \in Rows \cup {NoUser} /\ past \subseteq Dates
      BY DEF SyncInv, TypeOK, Tables
    <3>2. CASE u \in Due(table)
      BY <3>1, <3>2, RowsAssumption DEF Due, Disabled, Dates
    <3> QED BY <3>1, <3>2 DEF Disabled
  <2>3. table' \in Tables
    BY <2>1, <2>2 DEF Tables, Disabled
  <2>4. NodesAgree'
    BY <2>1 DEF SyncInv, NodesAgree, Answering, Whole
  <2> QED BY <2>1, <2>3, <2>4 DEF SyncInv, TypeOK, PushesBelong, OneAtATime, Waiting
<1>3. ASSUME NEW n \in Nodes, NodeHousekeeping(n)
      PROVE  SyncInv'
  <2>1. /\ ndb' = [ndb EXCEPT ![n] = Disabled(@)]
        /\ UNCHANGED <<table, address, hash, task, net, booting, changes, faults, past,
                       disturbed, torn>>
    BY <1>3 DEF NodeHousekeeping
  <2>2. ndb \in [Nodes -> Payloads]
    BY DEF SyncInv, TypeOK
  <2>3. ndb' \in [Nodes -> Payloads]
    BY <2>1, <2>2, DisabledFacts
  <2>4. \A k \in Nodes : \A b : Agrees(ndb[k], b, past) => Agrees(ndb'[k], b, past)
    BY <2>1, <2>2, DisabledFacts
  <2>5. NodesAgree'
    BY <2>1, <2>4 DEF SyncInv, NodesAgree, Answering, Whole
  <2> QED BY <2>1, <2>3, <2>5 DEF SyncInv, TypeOK, PushesBelong, OneAtATime, Waiting
<1> QED BY <1>1, <1>2, <1>3

-----------------------------------------------------------------------------
(* The theorems.                                                           *)

\* The invariant holds when main has just been set up.
LEMMA InitiallySynced == Init => SyncInv
<1> SUFFICES ASSUME Init PROVE SyncInv
  OBVIOUS
<1>1. Nothing \in Payloads /\ Nothing \in Tables
  BY DEF Nothing, Payloads, Tables
<1>2. TypeOK
  BY <1>1, BoundsAssumption DEF Init, TypeOK, TaskStates
<1>3. PushesBelong
  BY DEF Init, PushesBelong
<1>4. \A t \in Tasks : task[t].pc = "none"
  BY DEF Init, Idle
<1>5. OneAtATime
  BY <1>4 DEF Init, OneAtATime, Waiting
<1>6. NodesAgree
  BY <1>4 DEF Init, NodesAgree, Answering, Whole
<1> QED BY <1>2, <1>3, <1>5, <1>6 DEF SyncInv

\* Every step keeps the invariant.
LEMMA NextKeepsSynced == SyncInv /\ [Next]_vars => SyncInv'
<1> SUFFICES ASSUME SyncInv, [Next]_vars PROVE SyncInv'
  OBVIOUS
<1>1. ASSUME NEW t \in Tasks, TaskStep(t) \/ TimedOut(t)
      PROVE  SyncInv'
  BY <1>1, StartKeeps, AnswerKeeps DEF TaskStep
<1>2. ASSUME NEW u \in Users, NEW row \in Rows \cup {NoUser}, ChangeUser(u, row)
      PROVE  SyncInv'
  <2>1. table' \in Tables /\ changes' \in 0..MaxChanges
    BY <1>2, BoundsAssumption DEF ChangeUser, SyncInv, TypeOK, Tables
  <2> QED BY <1>2, <2>1, SpawnKeeps DEF ChangeUser, SyncInv, TypeOK
<1>3. ASSUME NEW t \in Spawned, NEW n \in Nodes, SyncNodeNow(t, n)
      PROVE  SyncInv'
  BY <1>3, ManualPushKeeps
<1>4. ASSUME NEW n \in Nodes, Register(n)
      PROVE  SyncInv'
  BY <1>4, SpawnKeeps DEF Register, SyncInv, TypeOK
<1>5. ASSUME NEW m \in net, Apply(m) \/ Lose(m)
      PROVE  SyncInv'
  BY <1>5, ApplyKeeps, IncidentKeeps
<1>6. ASSUME NEW n \in Nodes, NEW wiped \in BOOLEAN, Reboot(n, wiped)
      PROVE  SyncInv'
  BY <1>6, IncidentKeeps
<1>7. ASSUME NEW m \in net, NEW done \in SUBSET Users, ApplyHalf(m, done)
      PROVE  SyncInv'
  BY <1>7, HalfKeeps
<1>8. CASE \/ \E d \in Dates : TimePasses(d)
           \/ Housekeeping
           \/ \E n \in Nodes : NodeHousekeeping(n)
  BY <1>8, ExpiryKeeps
<1>9. CASE UNCHANGED vars
  BY <1>9 DEF vars, SyncInv, TypeOK, PushesBelong, OneAtATime, NodesAgree, Waiting,
              Answering, Whole
<1> QED BY <1>1, <1>2, <1>3, <1>4, <1>5, <1>6, <1>7, <1>8, <1>9 DEF Next

\* The tasks, the pushes and the nodes' tables keep their types.
THEOREM TypeCorrect == Spec => []TypeOK
<1>1. SyncInv => TypeOK
  BY DEF SyncInv
<1> QED BY <1>1, InitiallySynced, NextKeepsSynced, PTL DEF Spec

\* sync_all may skip a node on the strength of its hash: whatever tasks, lost
\* pushes and restarts overlap, as long as no push to the node got out of
\* control or was applied in part and none is under way, the node has what the
\* hash says, but for expiry dates it remembers and acts on by itself.
THEOREM HashesDescribeNodes == Spec => []HashDescribesNode
<1>1. SyncInv => HashDescribesNode
  BY DEF SyncInv, NodesAgree, HashDescribesNode, Answering, Waiting, Whole
<1> QED BY <1>1, InitiallySynced, NextKeepsSynced, PTL DEF Spec

-----------------------------------------------------------------------------
(***************************************************************************)
(* What pushes carry besides the users: which links keep working when      *)
(* short ids and names rotate (RealityRotation), for all names, counts and *)
(* numbers of rotations.                                                   *)
(***************************************************************************)

(* Lists.                                                                  *)

Increasing(s) == \A i, j \in DOMAIN s : i < j => s[i] < s[j]

\* A value that is appended unless it is listed is listed, once, with all that
\* were.
LEMMA AppendNewFacts ==
  ASSUME NEW S, NEW s \in Seq(S), NEW v \in S
  PROVE  /\ AppendNew(s, v) \in Seq(S)
         /\ ToSet(AppendNew(s, v)) = ToSet(s) \cup {v}
         /\ IsInjective(s) => IsInjective(AppendNew(s, v))
         /\ Len(AppendNew(s, v)) \in Len(s)..(Len(s) + 1)
<1>1. CASE v \in ToSet(s)
  BY <1>1 DEF AppendNew
<1>2. CASE v \notin ToSet(s)
  <2>1. /\ AppendNew(s, v) = Append(s, v) /\ Append(s, v) \in Seq(S)
        /\ Len(Append(s, v)) = Len(s) + 1 /\ DOMAIN Append(s, v) = 1..(Len(s) + 1)
        /\ Append(s, v)[Len(s) + 1] = v
        /\ \A i \in 1..Len(s) : Append(s, v)[i] = s[i]
        /\ DOMAIN s = 1..Len(s) /\ Len(s) \in Nat
    BY <1>2 DEF AppendNew
  <2>2. ToSet(Append(s, v)) = ToSet(s) \cup {v}
    <3>1. \A i \in 1..(Len(s) + 1) : i \in 1..Len(s) \/ i = Len(s) + 1
      BY <2>1
    <3>2. \A i \in 1..Len(s) : i \in 1..(Len(s) + 1)
      BY <2>1
    <3>3. Len(s) + 1 \in 1..(Len(s) + 1)
      BY <2>1
    <3> QED BY <2>1, <3>1, <3>2, <3>3 DEF ToSet
  <2>3. IsInjective(s) => IsInjective(Append(s, v))
    <3> SUFFICES ASSUME IsInjective(s),
                        NEW i \in 1..(Len(s) + 1), NEW j \in 1..(Len(s) + 1),
                        Append(s, v)[i] = Append(s, v)[j]
                 PROVE  i = j
      BY <2>1 DEF IsInjective
    <3>1. \A k \in 1..Len(s) : s[k] # v
      BY <1>2, <2>1 DEF ToSet
    <3> QED BY <2>1, <3>1 DEF IsInjective
  <2> QED BY <2>1, <2>2, <2>3
<1> QED BY <1>1, <1>2

\* Removing a value leaves the others.
LEMMA WithoutFacts ==
  ASSUME NEW S, NEW s \in Seq(S), NEW v, IsInjective(s)
  PROVE  /\ Without(s, v) \in Seq(S)
         /\ ToSet(Without(s, v)) = ToSet(s) \ {v}
         /\ IsInjective(Without(s, v))
         /\ v \notin ToSet(s) => Without(s, v) = s
<1>1. CASE v \notin ToSet(s)
  BY <1>1 DEF Without
<1>2. CASE v \in ToSet(s)
  <2>1. PICK k \in 1..Len(s) :
          s[k] = v /\ Without(s, v) = SubSeq(s, 1, k - 1) \o SubSeq(s, k + 1, Len(s))
    <3> DEFINE c == CHOOSE i \in DOMAIN s : s[i] = v
    <3>1. \E i \in DOMAIN s : s[i] = v
      BY <1>2 DEF ToSet
    <3>2. c \in 1..Len(s) /\ s[c] = v
      BY <3>1
    <3>3. Without(s, v) = SubSeq(s, 1, c - 1) \o SubSeq(s, c + 1, Len(s))
      BY <1>2 DEF Without, RemoveAt
    <3> HIDE DEF c
    <3> QED BY <3>2, <3>3, Zenon
  <2> DEFINE p == SubSeq(s, 1, k - 1)
             q == SubSeq(s, k + 1, Len(s))
             r == p \o q
  <2>2. Len(s) \in Nat /\ DOMAIN s = 1..Len(s) /\ Without(s, v) = r
    BY <2>1
  <2>8. Len(s) \in Nat /\ k \in Nat /\ 1 <= k /\ k <= Len(s)
    BY <2>1
  <2>3. p \in Seq(S) /\ Len(p) = k - 1 /\ \A i \in 1..(k - 1) : p[i] = s[i]
    BY <2>1, <2>2, SubSeqProperties, ElementOfSeq
  <2>4. q \in Seq(S) /\ Len(q) = Len(s) - k /\ \A i \in 1..(Len(s) - k) : q[i] = s[k + i]
    <3>1. \A i \in (k + 1)..Len(s) : s[i] \in S
      BY <2>1, <2>2, ElementOfSeq
    <3>2. /\ q \in Seq(S) /\ Len(q) = IF k + 1 <= Len(s) THEN Len(s) - (k + 1) + 1 ELSE 0
          /\ \A i \in 1..(Len(s) - (k + 1) + 1) : q[i] = s[(k + 1) + i - 1]
      BY <2>1, <2>2, <3>1, SubSeqProperties
    <3>3. \A i \in 1..(Len(s) - k) : (k + 1) + i - 1 = k + i
      BY <2>1, <2>2
    <3>4. Len(s) - (k + 1) + 1 = Len(s) - k
      BY <2>1, <2>2
    <3>5. ~(k + 1 <= Len(s)) => Len(s) - k = 0
      BY <2>8
    <3> QED BY <3>2, <3>3, <3>4, <3>5
  <2> HIDE DEF p, q
  <2>5. /\ r \in Seq(S) /\ Len(r) = Len(s) - 1 /\ DOMAIN r = 1..(Len(s) - 1)
        /\ \A i \in 1..(Len(s) - 1) : r[i] = IF i < k THEN s[i] ELSE s[i + 1]
    <3>1. r \in Seq(S) /\ Len(r) = Len(s) - 1 /\ DOMAIN r = 1..(Len(s) - 1)
      <4>1. r \in Seq(S) /\ Len(r) = Len(p) + Len(q)
        BY <2>3, <2>4, ConcatProperties
      <4>2. (k - 1) + (Len(s) - k) = Len(s) - 1
        BY <2>1, <2>2
      <4> QED BY <2>3, <2>4, <4>1, <4>2, LenProperties
    <3>2. ASSUME NEW i \in 1..(Len(s) - 1)
          PROVE  r[i] = IF i < k THEN s[i] ELSE s[i + 1]
      <4>1. CASE i < k
        <5>1. Len(p) = k - 1 /\ Len(p) + Len(q) = Len(s) - 1
          BY <2>3, <2>4, <2>8
        <5>2. i \in 1..(k - 1) /\ i <= k - 1
          BY <2>8, <4>1
        <5>3. r[i] = p[i]
          BY <2>3, <2>4, <5>1, <5>2, ConcatProperties
        <5> QED BY <2>3, <4>1, <5>2, <5>3
      <4>2. CASE ~(i < k)
        <5>1. /\ i \in 1..(Len(p) + Len(q)) /\ ~(i <= Len(p))
              /\ i - Len(p) \in 1..(Len(s) - k) /\ k + (i - Len(p)) = i + 1
          BY <2>8, <2>3, <2>4, <4>2
        <5>2. r[i] = q[i - Len(p)]
          BY <2>3, <2>4, <5>1, ConcatProperties
        <5>3. q[i - Len(p)] = s[i + 1]
          BY <2>4, <5>1
        <5> QED BY <4>2, <5>2, <5>3
      <4> QED BY <4>1, <4>2
    <3> QED BY <3>1, <3>2
  <2> HIDE DEF r
  <2>6. ToSet(r) = ToSet(s) \ {v}
    <3>1. \A i \in 1..(Len(s) - 1) : r[i] \in ToSet(s) /\ r[i] # v
      <4> TAKE i \in 1..(Len(s) - 1)
      <4>1. PICK j \in 1..Len(s) : r[i] = s[j] /\ j # k
        BY <2>1, <2>2, <2>5
      <4> QED BY <2>1, <2>2, <4>1 DEF ToSet, IsInjective
    <3>2. ASSUME NEW j \in 1..Len(s), s[j] # v
          PROVE  \E i \in 1..(Len(s) - 1) : r[i] = s[j]
      <4>1. j < k \/ j > k
        BY <2>1, <2>2, <3>2
      <4>2. CASE j < k
        BY <2>1, <2>2, <2>5, <4>2
      <4>3. CASE j > k
        <5>1. j - 1 \in 1..(Len(s) - 1) /\ ~(j - 1 < k) /\ (j - 1) + 1 = j
          BY <2>1, <2>2, <4>3
        <5>2. r[j - 1] = s[j]
          BY <2>5, <5>1
        <5> QED BY <5>1, <5>2
      <4> QED BY <4>1, <4>2, <4>3
    <3>3. ToSet(r) \subseteq ToSet(s) \ {v}
      BY <2>5, <3>1 DEF ToSet
    <3>4. ASSUME NEW x \in ToSet(s), x # v
          PROVE  x \in ToSet(r)
      <4>1. PICK j \in 1..Len(s) : s[j] = x
        BY <2>2 DEF ToSet
      <4>2. \E i \in DOMAIN r : r[i] = x
        BY <2>5, <3>2, <3>4, <4>1
      <4> QED BY <4>2 DEF ToSet
    <3> QED BY <3>3, <3>4
  <2>7. IsInjective(r)
    <3> SUFFICES ASSUME NEW i \in 1..(Len(s) - 1), NEW j \in 1..(Len(s) - 1), r[i] = r[j]
                 PROVE  i = j
      BY <2>5 DEF IsInjective
    <3>1. \A a, b \in 1..Len(s) : s[a] = s[b] => a = b
      BY <2>1, <2>2 DEF IsInjective
    <3>2. \A x \in 1..(Len(s) - 1) :
            \E a \in 1..Len(s) : r[x] = s[a] /\ a = IF x < k THEN x ELSE x + 1
      BY <2>5, <2>8
    <3>3. PICK a \in 1..Len(s) : r[i] = s[a] /\ a = IF i < k THEN i ELSE i + 1
      BY <3>2
    <3>4. PICK b \in 1..Len(s) : r[j] = s[b] /\ b = IF j < k THEN j ELSE j + 1
      BY <3>2
    <3>5. a = b
      BY <3>1, <3>3, <3>4
    <3> QED BY <2>8, <3>3, <3>4, <3>5
  <2> QED BY <1>2, <2>2, <2>5, <2>6, <2>7
<1> QED BY <1>1, <1>2

\* _set_meta_list keeps the end of a list.
LEMMA KeepFacts ==
  ASSUME NEW S, NEW s \in Seq(S)
  PROVE  /\ Keep(s) \in Seq(S) /\ Len(Keep(s)) <= MaxKept
         /\ \A i \in 1..Len(Keep(s)) :
              /\ i + (Len(s) - Len(Keep(s))) \in 1..Len(s)
              /\ Keep(s)[i] = s[i + (Len(s) - Len(Keep(s)))]
         /\ Len(Keep(s)) = IF Len(s) > MaxKept THEN MaxKept ELSE Len(s)
         /\ Len(s) <= MaxKept => Keep(s) = s
         /\ IsInjective(s) => IsInjective(Keep(s))
<1>1. Len(s) \in Nat /\ DOMAIN s = 1..Len(s)
  OBVIOUS
<1>2. CASE Len(s) <= MaxKept
  <2>1. Keep(s) = s /\ ~(Len(s) > MaxKept) /\ Len(s) - Len(s) = 0
    BY <1>1, <1>2 DEF Keep, MaxKept
  <2>2. \A i \in 1..Len(s) : i + 0 \in 1..Len(s) /\ i + 0 = i
    BY <1>1
  <2> QED BY <1>2, <2>1, <2>2
<1>3. CASE Len(s) > MaxKept
  <2> DEFINE d == Len(s) - MaxKept
             r == SubSeq(s, d + 1, Len(s))
  <2>1. d \in Nat /\ d + MaxKept = Len(s) /\ MaxKept \in Nat
    BY <1>1, <1>3 DEF MaxKept
  <2>2. Keep(s) = r
    BY <1>3 DEF Keep
  <2>3. r \in Seq(S) /\ Len(r) = MaxKept
        /\ \A i \in 1..MaxKept : i + d \in 1..Len(s) /\ r[i] = s[i + d]
    BY <1>1, <2>1
  <2> HIDE DEF r
  <2>5. Len(s) - Len(r) = d
    BY <2>3
  <2> HIDE DEF d
  <2>4. IsInjective(s) => IsInjective(r)
    <3> SUFFICES ASSUME IsInjective(s), NEW i \in 1..MaxKept, NEW j \in 1..MaxKept, r[i] = r[j]
                 PROVE  i = j
      BY <2>1, <2>3 DEF IsInjective
    <3>1. i + d = j + d
      BY <1>1, <2>3 DEF IsInjective
    <3> QED BY <2>1, <3>1
  <2> QED BY <1>3, <2>1, <2>2, <2>3, <2>4, <2>5
<1> QED BY <1>1, <1>2, <1>3 DEF MaxKept

\* Appending new values to a list.
LEMMA ConcatFacts ==
  ASSUME NEW S, NEW s \in Seq(S), NEW r \in Seq(S)
  PROVE  /\ s \o r \in Seq(S) /\ Len(s \o r) = Len(s) + Len(r)
         /\ \A i \in 1..Len(s) : (s \o r)[i] = s[i]
         /\ \A i \in 1..Len(r) : (s \o r)[Len(s) + i] = r[i]
         /\ ToSet(s \o r) = ToSet(s) \cup ToSet(r)
<1>1. /\ Len(s) \in Nat /\ DOMAIN s = 1..Len(s) /\ Len(r) \in Nat /\ DOMAIN r = 1..Len(r)
      /\ s \o r \in Seq(S) /\ Len(s \o r) = Len(s) + Len(r)
      /\ DOMAIN (s \o r) = 1..(Len(s) + Len(r))
  BY ConcatProperties, LenProperties
<1>2. ASSUME NEW i \in 1..Len(s)
      PROVE  i \in 1..(Len(s) + Len(r)) /\ (s \o r)[i] = s[i]
  <2>1. i \in 1..(Len(s) + Len(r)) /\ i <= Len(s)
    BY <1>1
  <2> QED BY <2>1, ConcatProperties
<1>3. ASSUME NEW i \in 1..Len(r)
      PROVE  Len(s) + i \in 1..(Len(s) + Len(r)) /\ (s \o r)[Len(s) + i] = r[i]
  <2>1. /\ Len(s) + i \in 1..(Len(s) + Len(r)) /\ ~(Len(s) + i <= Len(s))
        /\ (Len(s) + i) - Len(s) = i
    BY <1>1
  <2> QED BY <2>1, ConcatProperties
<1>4. ASSUME NEW i \in 1..(Len(s) + Len(r))
      PROVE  i \in 1..Len(s) \/ \E j \in 1..Len(r) : i = Len(s) + j
  <2>1. CASE ~(i \in 1..Len(s))
    <3>1. i - Len(s) \in 1..Len(r) /\ i = Len(s) + (i - Len(s))
      BY <1>1, <2>1
    <3> QED BY <3>1
  <2> QED BY <2>1
<1>5. ToSet(s \o r) \subseteq ToSet(s) \cup ToSet(r)
  <2> SUFFICES ASSUME NEW i \in 1..(Len(s) + Len(r))
               PROVE  (s \o r)[i] \in ToSet(s) \cup ToSet(r)
    BY <1>1 DEF ToSet
  <2>1. \A j \in 1..Len(s) : s[j] \in ToSet(s)
    BY <1>1 DEF ToSet
  <2>2. \A j \in 1..Len(r) : r[j] \in ToSet(r)
    BY <1>1 DEF ToSet
  <2> QED BY <1>2, <1>3, <1>4, <2>1, <2>2
<1>6. ToSet(s) \cup ToSet(r) \subseteq ToSet(s \o r)
  <2>1. \A i \in 1..Len(s) : s[i] \in ToSet(s \o r)
    BY <1>1, <1>2 DEF ToSet
  <2>2. \A i \in 1..Len(r) : r[i] \in ToSet(s \o r)
    BY <1>1, <1>3 DEF ToSet
  <2> QED BY <1>1, <2>1, <2>2 DEF ToSet
<1> QED BY <1>1, <1>2, <1>3, <1>5, <1>6

\* An increasing list of numbers that are at most m: the places behind a value
\* are at most as many as the numbers between it and m.
LEMMA IncreasingGap ==
  ASSUME NEW m \in Nat, NEW s \in Seq(0..m), Increasing(s), NEW i \in 1..Len(s)
  PROVE  Len(s) - i <= m - s[i]
<1> DEFINE Low == {k \in Nat : i + k <= Len(s) /\ s[i + k] < s[i] + k}
           R == {ss \in Nat \X Nat : ss[1] < ss[2]}
<1>1. Len(s) \in Nat /\ DOMAIN s = 1..Len(s) /\ \A k \in 1..Len(s) : s[k] \in 0..m
  BY LenProperties, ElementOfSeq
<1>2. Low = {}
  <2> SUFFICES ASSUME Low # {} PROVE FALSE
    OBVIOUS
  <2>1. IsWellFoundedOn(R, Nat)
    BY NatLessThanWellFounded DEF OpToRel
  <2>2. Low \subseteq Nat
    OBVIOUS
  <2>3. PICK k \in Low : \A j \in Low : ~ (<<j, k>> \in R)
    <3> HIDE DEF R, Low
    <3> QED BY <2>1, <2>2, WFMin
  <2>4. k \in Nat /\ i + k <= Len(s) /\ s[i + k] < s[i] + k
    BY <2>3
  <2>5. k # 0
    BY <1>1, <2>4
  <2>6. /\ k - 1 \in Nat /\ i + (k - 1) \in 1..Len(s) /\ i + k \in 1..Len(s)
        /\ i + (k - 1) < i + k
    BY <1>1, <2>4, <2>5
  <2>7. <<k - 1, k>> \in R
    <3>1. \A a, b \in Nat : a < b => <<a, b>> \in R
      OBVIOUS
    <3>2. k - 1 < k
      BY <2>4
    <3> HIDE DEF R
    <3> QED BY <2>4, <2>6, <3>1, <3>2
  <2>8. ~(s[i + (k - 1)] < s[i] + (k - 1))
    <3>1. k - 1 \notin Low
      <4> HIDE DEF R, Low
      <4> QED BY <2>3, <2>7
    <3> QED BY <1>1, <2>6, <3>1
  <2>9. s[i + (k - 1)] < s[i + k]
    BY <1>1, <2>6 DEF Increasing
  <2>10. s[i] \in 0..m /\ s[i + k] \in 0..m /\ s[i + (k - 1)] \in 0..m
    BY <2>6, ElementOfSeq
  <2> DEFINE a == s[i]  b == s[i + k]  c == s[i + (k - 1)]
  <2>11. a \in 0..m /\ b \in 0..m /\ c \in 0..m /\ b < a + k /\ ~(c < a + (k - 1)) /\ c < b
    BY <2>4, <2>8, <2>9, <2>10, Zenon
  <2> HIDE DEF a, b, c
  <2> QED BY <2>4, <2>11
<1>3. Len(s) - i \in Nat /\ i + (Len(s) - i) = Len(s) /\ Len(s) \in 1..Len(s)
  BY <1>1
<1>4. \A k \in Nat : i + k <= Len(s) => ~(s[i + k] < s[i] + k)
  BY <1>2
<1>5. ~(s[Len(s)] < s[i] + (Len(s) - i))
  <2>1. i + (Len(s) - i) <= Len(s)
    BY <1>1, <1>3
  <2>2. ~(s[i + (Len(s) - i)] < s[i] + (Len(s) - i))
    BY <1>3, <1>4, <2>1
  <2> QED BY <1>3, <2>2
<1> QED BY <1>1, <1>3, <1>5

-----------------------------------------------------------------------------
(* The invariant.                                                          *)

\* The short ids are listed in the order they were minted in, the current one
\* among them once there was a rotation.
SidsInOrder ==
  /\ minted \in 0..MaxMinted /\ sid \in 0..minted
  /\ sids \in Seq(0..minted) /\ Len(sids) <= MaxKept /\ Increasing(sids)
  /\ sids = <<>> \/ sid \in ToSet(sids)

NamesListed ==
  /\ sni \in Names
  /\ snis \in Seq(Names) /\ Len(snis) <= MaxKept /\ IsInjective(snis)

\* The main panel's Xray is never behind the lists, and a node knows its own
\* name only.
PanelsAccept ==
  /\ accepts \in [Panels -> [sids : SUBSET Sids, snis : SUBSET Names]]
  /\ accepts[Main] = Accepting(sids, sid, snis, sni)
  /\ \A n \in Remotes : accepts[n].snis = {Default}

\* What makes the main panel's link work for the time being: an id or a name
\* is listed as long as it cannot have been pushed out.
LinksListed ==
  \A l \in saved[Main] : ~spoilt =>
    /\ l.sid \in 0..minted
    /\ minted - l.sid < MaxKept => l.sid \in ToSet(AcceptedSids(sids, sid))
    /\ FewNames => l.sni \in ToSet(AcceptedNames(snis, sni))

\* The inductive invariant.
RotationInv ==
  /\ SidsInOrder /\ NamesListed /\ PanelsAccept /\ LinksListed
  /\ publishedSid \in Sids /\ saved \in [Panels -> SUBSET Links] /\ spoilt \in BOOLEAN

\* An increasing list has no value twice.
LEMMA IncreasingInjective ==
  ASSUME NEW m \in Nat, NEW s \in Seq(0..m), Increasing(s)
  PROVE  IsInjective(s)
<1>1. DOMAIN s = 1..Len(s) /\ Len(s) \in Nat /\ \A i \in 1..Len(s) : s[i] \in 0..m
  BY LenProperties, ElementOfSeq
<1> SUFFICES ASSUME NEW i \in 1..Len(s), NEW j \in 1..Len(s), s[i] = s[j], i < j
             PROVE  FALSE
  BY <1>1 DEF IsInjective
<1> QED BY <1>1 DEF Increasing

\* The invariant implies the type invariant.
LEMMA TypesFollow == RotationInv => RotationTypeOK
<1> SUFFICES ASSUME RotationInv PROVE RotationTypeOK
  OBVIOUS
<1>1. minted \in Nat /\ MaxMinted \in Nat /\ minted <= MaxMinted
  BY CountsAssumption DEF RotationInv, SidsInOrder
<1>2. 0..minted \subseteq Sids
  BY <1>1 DEF Sids, TypedSid
<1>3. sids \in Seq(Sids)
  BY <1>2, SeqMonotonic DEF RotationInv, SidsInOrder
<1>4. IsInjective(sids)
  BY <1>1, IncreasingInjective DEF RotationInv, SidsInOrder
<1>5. sid \in Sids
  BY <1>2 DEF RotationInv, SidsInOrder
<1> QED BY <1>1, <1>3, <1>4, <1>5
        DEF RotationInv, SidsInOrder, NamesListed, PanelsAccept, RotationTypeOK

\* The short ids that are accepted: the listed ones and the current one, in
\* order.
LEMMA AcceptedSidsFacts ==
  ASSUME SidsInOrder
  PROVE  /\ AcceptedSids(sids, sid) \in Seq(0..minted)
         /\ Increasing(AcceptedSids(sids, sid))
         /\ ToSet(AcceptedSids(sids, sid)) = ToSet(sids) \cup {sid}
<1>1. sids \in Seq(0..minted) /\ sid \in 0..minted
  BY DEF SidsInOrder
<1>2. CASE sids = <<>>
  <2>1. AcceptedSids(sids, sid) = Append(<<>>, sid)
    BY <1>2 DEF AcceptedSids, AppendNew, ToSet
  <2>2. DOMAIN Append(<<>>, sid) = 1..1
    BY <1>1
  <2>3. Increasing(AcceptedSids(sids, sid))
    BY <2>1, <2>2 DEF Increasing
  <2>4. /\ AppendNew(sids, sid) \in Seq(0..minted)
        /\ ToSet(AppendNew(sids, sid)) = ToSet(sids) \cup {sid}
    <3> DEFINE S == 0..minted
    <3>1. sids \in Seq(S) /\ sid \in S
      BY <1>1
    <3> HIDE DEF S
    <3>2. AppendNew(sids, sid) \in Seq(S) /\ ToSet(AppendNew(sids, sid)) = ToSet(sids) \cup {sid}
      BY <3>1, AppendNewFacts
    <3> USE DEF S
    <3> QED BY <3>2
  <2> QED BY <2>3, <2>4 DEF AcceptedSids
<1>3. CASE sid \in ToSet(sids)
  <2>1. AcceptedSids(sids, sid) = sids
    BY <1>3 DEF AcceptedSids, AppendNew
  <2> QED BY <1>1, <1>3, <2>1 DEF SidsInOrder
<1> QED BY <1>2, <1>3 DEF SidsInOrder

\* The names that are accepted: the listed ones, the current one, the default.
LEMMA AcceptedNamesFacts ==
  ASSUME NEW list \in Seq(Names), NEW name \in Names
  PROVE  /\ AcceptedNames(list, name) \in Seq(Names)
         /\ ToSet(AcceptedNames(list, name)) = ToSet(list) \cup {Default, name}
         /\ IsInjective(list) => IsInjective(AcceptedNames(list, name))
<1>1. Default \in Names
  BY NamesAssumption
<1>2. ASSUME NEW a \in Names, NEW b \in Names
      PROVE  /\ AppendNew(AppendNew(list, a), b) \in Seq(Names)
             /\ ToSet(AppendNew(AppendNew(list, a), b)) = ToSet(list) \cup {a, b}
             /\ IsInjective(list) => IsInjective(AppendNew(AppendNew(list, a), b))
  <2>1. PICK once \in Seq(Names) :
          /\ once = AppendNew(list, a) /\ ToSet(once) = ToSet(list) \cup {a}
          /\ IsInjective(list) => IsInjective(once)
    BY AppendNewFacts
  <2>2. /\ AppendNew(once, b) \in Seq(Names)
        /\ ToSet(AppendNew(once, b)) = ToSet(once) \cup {b}
        /\ IsInjective(once) => IsInjective(AppendNew(once, b))
    BY AppendNewFacts
  <2> QED BY <2>1, <2>2
<1> QED BY <1>1, <1>2 DEF AcceptedNames

\* The places of the values that are kept.
LEMMA KeptPlaces ==
  ASSUME NEW a \in Nat, NEW b \in Nat, b = IF a > MaxKept THEN MaxKept ELSE a
  PROVE  /\ a - b \in Nat /\ (a - b) + b = a
         /\ \A i \in 1..a : i + MaxKept > a =>
              i - (a - b) \in 1..b /\ (i - (a - b)) + (a - b) = i
<1>1. CASE a > MaxKept
  BY <1>1 DEF MaxKept
<1>2. CASE ~(a > MaxKept)
  BY <1>2
<1> QED BY <1>1, <1>2

\* The end of an increasing list is increasing, and what is dropped of it is
\* MaxKept numbers behind.
LEMMA KeepIncreasing ==
  ASSUME NEW m \in Nat, NEW s \in Seq(0..m), Increasing(s)
  PROVE  /\ Keep(s) \in Seq(0..m) /\ Increasing(Keep(s)) /\ Len(Keep(s)) <= MaxKept
         /\ \A i \in 1..Len(s) : i + MaxKept > Len(s) => s[i] \in ToSet(Keep(s))
         /\ \A v \in ToSet(s) : m - v < MaxKept => v \in ToSet(Keep(s))
<1> DEFINE S == 0..m
           r == Keep(s)
           d == Len(s) - Len(r)
<1>1. s \in Seq(S) /\ Len(s) \in Nat /\ DOMAIN s = 1..Len(s)
  BY LenProperties
<1>2. /\ r \in Seq(S) /\ Len(r) <= MaxKept
      /\ \A i \in 1..Len(r) : i + d \in 1..Len(s) /\ r[i] = s[i + d]
      /\ Len(r) = IF Len(s) > MaxKept THEN MaxKept ELSE Len(s)
  <2> HIDE DEF S
  <2> QED BY <1>1, KeepFacts
<1>3. /\ Len(r) \in Nat /\ DOMAIN r = 1..Len(r) /\ d \in Nat
      /\ \A i \in 1..Len(s) : i + MaxKept > Len(s) => i - d \in 1..Len(r) /\ (i - d) + d = i
  <2>1. Len(r) \in Nat /\ DOMAIN r = 1..Len(r)
    <3> HIDE DEF r, S
    <3> QED BY <1>2, LenProperties
  <2> HIDE DEF r
  <2>2. Len(r) = IF Len(s) > MaxKept THEN MaxKept ELSE Len(s)
    BY <1>2
  <2>3. PICK b \in Nat : b = Len(r)
    BY <2>1
  <2>4. PICK a \in Nat : a = Len(s)
    BY <1>1
  <2>5. b = IF a > MaxKept THEN MaxKept ELSE a
    BY <2>2, <2>3, <2>4
  <2> QED BY <2>1, <2>3, <2>4, <2>5, KeptPlaces
<1> HIDE DEF r, d
<1>4. \A i \in 1..Len(s) : s[i] \in S
  <2> HIDE DEF S
  <2> QED BY <1>1, ElementOfSeq
<1>5. Increasing(r)
  <2> SUFFICES ASSUME NEW i \in 1..Len(r), NEW j \in 1..Len(r), i < j
               PROVE  r[i] < r[j]
    BY <1>3 DEF Increasing
  <2>1. i + d \in 1..Len(s) /\ j + d \in 1..Len(s) /\ i + d < j + d
    BY <1>2, <1>3
  <2>2. s[i + d] < s[j + d]
    BY <1>1, <2>1 DEF Increasing
  <2> QED BY <1>2, <2>2
<1>6. ASSUME NEW i \in 1..Len(s), i + MaxKept > Len(s)
      PROVE  s[i] \in ToSet(r)
  <2>1. i - d \in 1..Len(r) /\ (i - d) + d = i
    BY <1>3, <1>6
  <2>2. r[i - d] = s[(i - d) + d]
    BY <1>2, <2>1
  <2>3. r[i - d] = s[i]
    BY <2>1, <2>2
  <2> QED BY <1>3, <2>1, <2>3 DEF ToSet
<1>7. ASSUME NEW v \in ToSet(s), m - v < MaxKept
      PROVE  v \in ToSet(r)
  <2>1. PICK i \in 1..Len(s) : s[i] = v
    BY <1>1 DEF ToSet
  <2>2. Len(s) - i <= m - v
    BY <2>1, IncreasingGap
  <2>3. v \in 0..m
    BY <1>4, <2>1
  <2>4. i + MaxKept > Len(s)
    BY <1>1, <1>7, <2>2, <2>3 DEF MaxKept
  <2> QED BY <1>6, <2>1, <2>4
<1> QED BY <1>2, <1>5, <1>6, <1>7 DEF r

\* rotate_short_id keeps the order, publishes an id it lists, and with grace
\* drops no id but those MaxKept behind the newest.
LEMMA ShortIdsRotate ==
  ASSUME SidsInOrder, NEW n \in 1..8, NEW grace \in BOOLEAN, RotateShortId(n, grace)
  PROVE  /\ SidsInOrder' /\ publishedSid' = sid' /\ publishedSid' \in Sids
         /\ minted <= minted'
         /\ grace => \A v \in ToSet(AcceptedSids(sids, sid)) :
                       minted' - v < MaxKept => v \in ToSet(AcceptedSids(sids', sid'))
<1> DEFINE new == [i \in 1..n |-> minted + i]
           old == IF grace THEN AcceptedSids(sids, sid) ELSE <<>>
           all == old \o new
           M == minted + n
<1>1. /\ minted \in Nat /\ MaxMinted \in Nat /\ M <= MaxMinted /\ M \in Nat /\ minted < M
      /\ minted' = M /\ n \in Nat
  BY CountsAssumption DEF SidsInOrder, RotateShortId
<1>2. new \in Seq(0..M) /\ Len(new) = n /\ \A i \in 1..n : new[i] = minted + i
  <2>1. \A i \in 1..n : minted + i \in 0..M
    BY <1>1
  <2>2. new \in [1..n -> 0..M]
    BY <2>1
  <2> QED BY <1>1, <2>2, LenProperties
<1>3. new[1] = minted + 1
  BY <1>1
<1>4. old \in Seq(0..minted) /\ Increasing(old)
  <2>1. CASE grace
    BY <2>1, AcceptedSidsFacts
  <2>2. CASE ~grace
    <3>1. old = <<>> /\ <<>> \in Seq(0..minted)
      BY <2>2
    <3>2. Increasing(<<>>)
      BY DEF Increasing
    <3> HIDE DEF old
    <3> QED BY <3>1, <3>2
  <2> QED BY <2>1, <2>2
<1> HIDE DEF old
<1>5. ToSet(old) \subseteq 0..minted /\ Len(old) \in Nat /\ DOMAIN old = 1..Len(old)
      /\ \A i \in 1..Len(old) : old[i] \in 0..minted
  <2>1. ASSUME NEW S, NEW s \in Seq(S)
        PROVE  Len(s) \in Nat /\ DOMAIN s = 1..Len(s) /\ \A i \in 1..Len(s) : s[i] \in S
    BY LenProperties, ElementOfSeq
  <2>2. Len(old) \in Nat /\ DOMAIN old = 1..Len(old) /\ \A i \in 1..Len(old) : old[i] \in 0..minted
    BY <1>4, <2>1, Zenon
  <2> QED BY <2>2 DEF ToSet
<1>6. Without(old, new[1]) = old
  BY <1>1, <1>3, <1>5 DEF Without
<1>7. sid' = minted + 1 /\ publishedSid' = minted + 1 /\ sids' = Keep(all)
  <2>1. sid' = new[1] /\ publishedSid' = new[1] /\ sids' = Keep(Without(old, new[1]) \o new)
    BY DEF RotateShortId, old
  <2> QED BY <1>3, <1>6, <2>1
<1>8. old \in Seq(0..M)
  BY <1>1, <1>4, SeqMonotonic
<1> HIDE DEF new
<1>9. /\ all \in Seq(0..M) /\ Len(all) = Len(old) + n /\ DOMAIN all = 1..(Len(old) + n)
      /\ \A i \in 1..Len(old) : all[i] = old[i]
      /\ \A i \in 1..n : all[Len(old) + i] = minted + i
      /\ ToSet(old) \subseteq ToSet(all)
  BY <1>2, <1>8, ConcatFacts, LenProperties
<1> HIDE DEF all
<1>10. Increasing(all)
  <2> SUFFICES ASSUME NEW i \in 1..(Len(old) + n), NEW j \in 1..(Len(old) + n), i < j
               PROVE  all[i] < all[j]
    BY <1>9 DEF Increasing
  <2>1. CASE j \in 1..Len(old)
    <3>1. i \in 1..Len(old)
      BY <1>5, <2>1
    <3> QED BY <1>4, <1>5, <1>9, <2>1, <3>1 DEF Increasing
  <2>2. CASE ~(j \in 1..Len(old))
    <3>1. j - Len(old) \in 1..n /\ Len(old) + (j - Len(old)) = j
      BY <1>1, <1>5, <2>2
    <3>2. all[j] = minted + (j - Len(old))
      BY <1>9, <3>1
    <3>3. CASE i \in 1..Len(old)
      BY <1>1, <1>5, <1>9, <3>1, <3>2, <3>3
    <3>4. CASE ~(i \in 1..Len(old))
      <4>1. i - Len(old) \in 1..n /\ Len(old) + (i - Len(old)) = i
        BY <1>1, <1>5, <3>4
      <4>2. all[i] = minted + (i - Len(old))
        BY <1>9, <4>1
      <4> QED BY <1>1, <1>5, <3>1, <3>2, <4>1, <4>2
    <3> QED BY <3>3, <3>4
  <2> QED BY <2>1, <2>2
<1>11. /\ sids' \in Seq(0..M) /\ Increasing(sids') /\ Len(sids') <= MaxKept
       /\ \A i \in 1..Len(all) : i + MaxKept > Len(all) => all[i] \in ToSet(sids')
       /\ \A v \in ToSet(all) : M - v < MaxKept => v \in ToSet(sids')
  BY <1>1, <1>7, <1>9, <1>10, KeepIncreasing
<1>12. sid' \in ToSet(sids')
  <2>1. Len(old) + 1 \in 1..Len(all) /\ (Len(old) + 1) + MaxKept > Len(all)
    BY <1>1, <1>5, <1>9 DEF MaxKept
  <2>2. all[Len(old) + 1] = minted + 1
    BY <1>1, <1>9
  <2> QED BY <1>7, <1>11, <2>1, <2>2
<1>13. SidsInOrder'
  BY <1>1, <1>7, <1>11, <1>12 DEF SidsInOrder
<1>14. publishedSid' \in Sids
  BY <1>1, <1>7 DEF Sids, TypedSid
<1>15. ToSet(AcceptedSids(sids', sid')) = ToSet(sids')
  BY <1>12 DEF AcceptedSids, AppendNew
<1>16. grace => ToSet(AcceptedSids(sids, sid)) \subseteq ToSet(all)
  BY <1>9 DEF old
<1> QED BY <1>1, <1>7, <1>11, <1>13, <1>14, <1>15, <1>16

\* A list without repetitions of few names is short enough to be kept.
LEMMA FewAreKept ==
  ASSUME FewNames, NEW s \in Seq(Names), IsInjective(s)
  PROVE  Keep(s) = s
<1>1. Len(s) \in Nat /\ DOMAIN s = 1..Len(s) /\ s \in [1..Len(s) -> Names]
  BY LenProperties
<1>2. IsFiniteSet(1..Len(s)) /\ Cardinality(1..Len(s)) = Len(s)
  BY <1>1, FS_Interval
<1>3. ~(Cardinality(Names) < Len(s))
  BY <1>1, <1>2, FS_PigeonHole DEF FewNames, IsInjective
<1>4. Cardinality(Names) \in Nat
  BY FS_CardinalityType DEF FewNames
<1>5. Len(s) <= MaxKept
  BY <1>1, <1>3, <1>4 DEF FewNames, MaxKept
<1> QED BY <1>5, KeepFacts

\* rotate_sni keeps the names without repetition, and with grace, as long as
\* there are few, drops none.
LEMMA NamesRotate ==
  ASSUME NamesListed, NEW name \in Names, NEW grace \in BOOLEAN, RotateSni(name, grace)
  PROVE  /\ NamesListed'
         /\ grace /\ FewNames => ToSet(AcceptedNames(snis, sni))
                                   \subseteq ToSet(AcceptedNames(snis', sni'))
<1> DEFINE old == IF grace THEN AcceptedNames(snis, sni) ELSE <<>>
           kept == Without(old, name)
           all == Append(kept, name)
<1>1. old \in Seq(Names) /\ IsInjective(old)
  <2>1. CASE grace
    BY <2>1, AcceptedNamesFacts DEF NamesListed
  <2>2. CASE ~grace
    <3>1. old = <<>>
      BY <2>2
    <3>2. IsInjective(<<>>)
      BY DEF IsInjective
    <3> HIDE DEF old
    <3> QED BY <3>1, <3>2
  <2> QED BY <2>1, <2>2
<1>2. sni' = name /\ snis' = Keep(all)
  BY DEF RotateSni
<1> HIDE DEF old
<1>3. kept \in Seq(Names) /\ IsInjective(kept) /\ ToSet(kept) = ToSet(old) \ {name}
  BY <1>1, WithoutFacts
<1> HIDE DEF kept
<1>4. all = AppendNew(kept, name)
  BY <1>3 DEF AppendNew
<1>5. all \in Seq(Names) /\ IsInjective(all) /\ ToSet(all) = ToSet(old) \cup {name}
  <2> HIDE DEF all
  <2>1. /\ AppendNew(kept, name) \in Seq(Names) /\ IsInjective(AppendNew(kept, name))
        /\ ToSet(AppendNew(kept, name)) = ToSet(kept) \cup {name}
    BY <1>3, AppendNewFacts
  <2> QED BY <1>3, <1>4, <2>1
<1> HIDE DEF all
<1>6. snis' \in Seq(Names) /\ Len(snis') <= MaxKept /\ IsInjective(snis')
  BY <1>2, <1>5, KeepFacts
<1>7. NamesListed'
  BY <1>2, <1>6 DEF NamesListed
<1>8. ASSUME grace, FewNames
      PROVE  ToSet(AcceptedNames(snis, sni)) \subseteq ToSet(AcceptedNames(snis', sni'))
  <2>1. snis' = all
    BY <1>2, <1>5, <1>8, FewAreKept
  <2>2. ToSet(AcceptedNames(snis, sni)) \subseteq ToSet(snis')
    BY <1>5, <1>8, <2>1 DEF old
  <2>3. ToSet(AcceptedNames(snis', sni')) = ToSet(snis') \cup {Default, sni'}
    BY <1>2, <1>6, AcceptedNamesFacts
  <2> QED BY <2>2, <2>3
<1> QED BY <1>7, <1>8

-----------------------------------------------------------------------------
(* The panels.                                                             *)

\* What is accepted is made of short ids and of names.
LEMMA AcceptingType ==
  ASSUME NEW list \in Seq(Sids), NEW current \in Sids,
         NEW names \in Seq(Names), NEW name \in Names
  PROVE  Accepting(list, current, names, name) \in [sids : SUBSET Sids, snis : SUBSET Names]
<1>1. ASSUME NEW S, NEW s \in Seq(S)
      PROVE  ToSet(s) \subseteq S
  BY ElementOfSeq, LenProperties DEF ToSet
<1>2. AcceptedSids(list, current) \in Seq(Sids)
  <2> HIDE DEF Sids
  <2> QED BY AppendNewFacts DEF AcceptedSids
<1>3. AcceptedNames(names, name) \in Seq(Names)
  BY AcceptedNamesFacts
<1>4. ToSet(AcceptedSids(list, current)) \subseteq Sids
  BY <1>1, <1>2, Zenon
<1>5. ToSet(AcceptedNames(names, name)) \subseteq Names
  BY <1>1, <1>3, Zenon
<1> QED BY <1>4, <1>5 DEF Accepting

\* The lists and the current short id are of the panels' types.
LEMMA ListsTyped ==
  ASSUME SidsInOrder
  PROVE  sids \in Seq(Sids) /\ sid \in Sids
<1>1. 0..minted \subseteq Sids
  BY CountsAssumption DEF SidsInOrder, Sids, TypedSid
<1> QED BY <1>1, SeqMonotonic DEF SidsInOrder

\* What a push gives a node.
LEMMA PushedFacts ==
  ASSUME SidsInOrder
  PROVE  /\ Pushed.sids = {sid} /\ Pushed.snis = {Default}
         /\ Pushed \in [sids : SUBSET Sids, snis : SUBSET Names]
<1>1. ToSet(<<>>) = {}
  BY DEF ToSet
<1>2. AppendNew(<<>>, sid) = <<sid>> /\ AppendNew(<<>>, Default) = <<Default>>
  BY <1>1 DEF AppendNew
<1>3. ToSet(<<sid>>) = {sid} /\ ToSet(<<Default>>) = {Default}
  BY DEF ToSet
<1>4. AppendNew(<<Default>>, Default) = <<Default>>
  BY <1>3 DEF AppendNew
<1>5. AcceptedSids(<<>>, sid) = <<sid>> /\ AcceptedNames(<<>>, Default) = <<Default>>
  BY <1>2, <1>4 DEF AcceptedSids, AcceptedNames
<1>6. Pushed.sids = {sid} /\ Pushed.snis = {Default}
  BY <1>3, <1>5 DEF Pushed, Accepting
<1> QED BY <1>3, <1>5, <1>6, NamesAssumption, ListsTyped DEF Pushed, Accepting

\* After its reload the main panel accepts what is listed.
LEMMA ReloadServesLists ==
  ASSUME SidsInOrder', NamesListed', PanelsAccept, ReloadMain
  PROVE  PanelsAccept'
<1>1. sids' \in Seq(Sids) /\ sid' \in Sids
  <2>1. 0..minted' \subseteq Sids
    BY CountsAssumption DEF SidsInOrder, Sids, TypedSid
  <2> QED BY <2>1, SeqMonotonic DEF SidsInOrder
<1>2. Accepting(sids', sid', snis', sni') \in [sids : SUBSET Sids, snis : SUBSET Names]
  BY <1>1, AcceptingType DEF NamesListed
<1> QED BY <1>2, MainAssumption DEF PanelsAccept, ReloadMain, Panels

-----------------------------------------------------------------------------
(* The steps.                                                              *)

LEMMA InitiallyInOrder == RotationInit => RotationInv
<1> SUFFICES ASSUME RotationInit PROVE RotationInv
  OBVIOUS
<1>1. SidsInOrder
  BY CountsAssumption DEF RotationInit, SidsInOrder, Increasing, MaxKept
<1>2. NamesListed
  BY NamesAssumption DEF RotationInit, NamesListed, IsInjective, MaxKept
<1>3. /\ Accepting(<<>>, 0, <<>>, Default) = Pushed
      /\ Pushed \in [sids : SUBSET Sids, snis : SUBSET Names] /\ Pushed.snis = {Default}
  BY <1>1, PushedFacts DEF RotationInit, Pushed
<1>4. PanelsAccept
  BY <1>3 DEF RotationInit, PanelsAccept, Panels
<1>5. LinksListed
  BY DEF RotationInit, LinksListed, Panels
<1>6. publishedSid \in Sids
  BY CountsAssumption DEF RotationInit, Sids, TypedSid
<1> QED BY <1>1, <1>2, <1>4, <1>5, <1>6 DEF RotationInit, RotationInv

LEMMA RotateKeeps ==
  ASSUME RotationInv, NEW n \in Counts \cup {0}, NEW name \in Names \cup {NoName},
         NEW grace \in BOOLEAN, Rotate(n, name, grace)
  PROVE  RotationInv'
<1>1. /\ SidsInOrder /\ NamesListed /\ PanelsAccept /\ LinksListed
      /\ publishedSid \in Sids /\ saved \in [Panels -> SUBSET Links] /\ spoilt \in BOOLEAN
  BY DEF RotationInv
<1>2. /\ SidsInOrder' /\ publishedSid' \in Sids /\ minted <= minted'
      /\ grace => \A v \in ToSet(AcceptedSids(sids, sid)) :
                    minted' - v < MaxKept => v \in ToSet(AcceptedSids(sids', sid'))
  <2>1. CASE n # 0
    BY <1>1, <2>1, CountsAssumption, ShortIdsRotate DEF Rotate
  <2>2. CASE n = 0
    <3>1. minted' = minted /\ sid' = sid /\ sids' = sids /\ publishedSid' = publishedSid
      BY <2>2 DEF Rotate
    <3>2. minted \in Nat
      BY <1>1 DEF SidsInOrder
    <3> QED BY <1>1, <3>1, <3>2 DEF SidsInOrder
  <2> QED BY <2>1, <2>2
<1>3. /\ NamesListed'
      /\ grace /\ FewNames => ToSet(AcceptedNames(snis, sni))
                                \subseteq ToSet(AcceptedNames(snis', sni'))
  <2>1. CASE name # NoName
    BY <1>1, <2>1, NamesRotate DEF Rotate
  <2>2. CASE name = NoName
    BY <1>1, <2>2 DEF Rotate, NamesListed
  <2> QED BY <2>1, <2>2
<1>4. ReloadMain /\ spoilt' = (spoilt \/ ~grace) /\ saved' = saved
  BY DEF Rotate
<1>5. PanelsAccept'
  BY <1>1, <1>2, <1>3, <1>4, ReloadServesLists
<1>6. LinksListed'
  <2> SUFFICES ASSUME NEW l \in saved[Main], ~spoilt'
               PROVE  /\ l.sid \in 0..minted'
                      /\ minted' - l.sid < MaxKept => l.sid \in ToSet(AcceptedSids(sids', sid'))
                      /\ FewNames => l.sni \in ToSet(AcceptedNames(snis', sni'))
    BY <1>4 DEF LinksListed
  <2>1. ~spoilt /\ grace
    BY <1>4
  <2>2. /\ l.sid \in 0..minted
        /\ minted - l.sid < MaxKept => l.sid \in ToSet(AcceptedSids(sids, sid))
        /\ FewNames => l.sni \in ToSet(AcceptedNames(snis, sni))
    BY <1>1, <2>1 DEF LinksListed
  <2>3. minted \in Nat /\ minted' \in Nat
    BY <1>1, <1>2 DEF SidsInOrder
  <2>4. l.sid \in 0..minted' /\ (minted' - l.sid < MaxKept => minted - l.sid < MaxKept)
    <3>1. PICK v \in 0..minted : v = l.sid
      BY <2>2
    <3>2. minted \in Nat /\ minted' \in Nat /\ minted <= minted' /\ v \in Nat /\ v <= minted
      BY <1>2, <2>3, <3>1
    <3>3. ASSUME NEW a \in Nat, NEW b \in Nat, a <= b, v <= a
          PROVE  v <= b /\ (b - v < 12 => a - v < 12)
      BY <3>2, <3>3
    <3> QED BY <3>1, <3>2, <3>3 DEF MaxKept
  <2> QED BY <1>2, <1>3, <2>1, <2>2, <2>4
<1> QED BY <1>1, <1>2, <1>3, <1>4, <1>5, <1>6 DEF RotationInv

LEMMA SetSettingsKeeps ==
  ASSUME RotationInv, NEW s \in {publishedSid, 0, TypedSid}, NEW name \in Names,
         SetSettings(s, name)
  PROVE  RotationInv'
<1>1. SidsInOrder'
  BY DEF RotationInv, SetSettings, SidsInOrder
<1>2. NamesListed'
  BY DEF RotationInv, SetSettings, NamesListed
<1>3. PanelsAccept'
  BY <1>1, <1>2, ReloadServesLists DEF RotationInv, SetSettings
<1>4. s \in Sids
  BY CountsAssumption DEF RotationInv, Sids, TypedSid
<1>5. LinksListed'
  BY DEF SetSettings, LinksListed
<1> QED BY <1>1, <1>2, <1>3, <1>4, <1>5 DEF RotationInv, SetSettings

LEMMA PushKeeps ==
  ASSUME RotationInv, NEW n \in Remotes, Push(n)
  PROVE  RotationInv'
<1>1. SidsInOrder /\ PanelsAccept
  BY DEF RotationInv
<1>2. UNCHANGED <<minted, sid, sids, publishedSid, sni, snis, saved, spoilt>>
  BY DEF Push, metaVars
<1>3. PanelsAccept'
  BY <1>1, <1>2, PushedFacts, MainAssumption DEF Push, PanelsAccept, Panels
<1>4. SidsInOrder' /\ NamesListed' /\ LinksListed'
  BY <1>2 DEF RotationInv, SidsInOrder, NamesListed, LinksListed
<1> QED BY <1>2, <1>3, <1>4 DEF RotationInv

LEMMA HandOutKeeps ==
  ASSUME RotationInv, NEW p \in Panels, HandOut(p)
  PROVE  RotationInv'
<1>1. /\ SidsInOrder /\ NamesListed /\ PanelsAccept /\ LinksListed
      /\ publishedSid \in Sids /\ saved \in [Panels -> SUBSET Links] /\ spoilt \in BOOLEAN
  BY DEF RotationInv
<1>2. UNCHANGED <<minted, sid, sids, publishedSid, sni, snis, accepts>>
  BY DEF HandOut, metaVars
<1>3. SidsInOrder' /\ NamesListed' /\ PanelsAccept'
  BY <1>1, <1>2 DEF SidsInOrder, NamesListed, PanelsAccept
<1>4. saved' \in [Panels -> SUBSET Links] /\ spoilt' \in BOOLEAN
  <2>1. Link \in Links
    BY <1>1 DEF Link, Links, NamesListed
  <2>2. saved' \in [Panels -> SUBSET Links]
    BY <1>1, <2>1 DEF HandOut
  <2>3. spoilt' \in BOOLEAN
    <3>1. CASE p = Main
      BY <3>1, Zenon DEF HandOut
    <3>2. CASE p # Main
      BY <1>1, <3>2, Zenon DEF HandOut
    <3> QED BY <3>1, <3>2
  <2> QED BY <2>2, <2>3
<1>5. LinksListed'
  <2>1. CASE p = Main
    <3>1. saved'[Main] = {Link}
      BY <1>1, <2>1 DEF HandOut
    <3>4. ~spoilt' => publishedSid = sid
      BY <2>1, Zenon DEF HandOut
    <3>2. sid \in 0..minted /\ sid \in ToSet(AcceptedSids(sids, sid))
      BY <1>1, AcceptedSidsFacts DEF SidsInOrder
    <3>3. sni \in ToSet(AcceptedNames(snis, sni))
      BY <1>1, AcceptedNamesFacts DEF NamesListed
    <3> SUFFICES ASSUME NEW l \in saved'[Main], ~spoilt'
                 PROVE  /\ l.sid \in 0..minted'
                        /\ minted' - l.sid < MaxKept => l.sid \in ToSet(AcceptedSids(sids', sid'))
                        /\ FewNames => l.sni \in ToSet(AcceptedNames(snis', sni'))
      BY DEF LinksListed
    <3>5. l.sid = sid /\ l.sni = sni
      BY <3>1, <3>4 DEF Link
    <3> QED BY <1>2, <3>2, <3>3, <3>5
  <2>2. CASE p # Main
    BY <1>1, <1>2, <2>2 DEF HandOut, LinksListed
  <2> QED BY <2>1, <2>2
<1> QED BY <1>1, <1>2, <1>3, <1>4, <1>5 DEF RotationInv

\* Every step keeps the invariant.
LEMMA NextKeepsOrder == RotationInv /\ [RotationNext]_rotationVars => RotationInv'
<1> SUFFICES ASSUME RotationInv, [RotationNext]_rotationVars PROVE RotationInv'
  OBVIOUS
<1>1. CASE UNCHANGED rotationVars
  BY <1>1 DEF rotationVars, metaVars, RotationInv, SidsInOrder, NamesListed, PanelsAccept, LinksListed
<1> QED BY <1>1, RotateKeeps, SetSettingsKeeps, PushKeeps, HandOutKeeps DEF RotationNext

-----------------------------------------------------------------------------
(* The theorems.                                                           *)

\* The lists of short ids and names are bounded and name nothing twice.
THEOREM RotationTypeCorrect == RotationSpec => []RotationTypeOK
BY InitiallyInOrder, NextKeepsOrder, TypesFollow, PTL DEF RotationSpec

\* However the administrator rotates, the main panel's Xray accepts the link
\* that is handed out next, unless the settings form has replaced its id.
THEOREM NewestLinksWork == RotationSpec => []NewestLinkWorks
<1>1. RotationInv => NewestLinkWorks
  <2> SUFFICES ASSUME RotationInv, publishedSid = sid PROVE Works(Link, Main)
    BY DEF NewestLinkWorks
  <2>1. SidsInOrder /\ NamesListed /\ accepts[Main] = Accepting(sids, sid, snis, sni)
    BY DEF RotationInv, PanelsAccept
  <2>2. sid \in ToSet(AcceptedSids(sids, sid))
    BY <2>1, AcceptedSidsFacts
  <2>3. sni \in ToSet(AcceptedNames(snis, sni))
    BY <2>1, AcceptedNamesFacts DEF NamesListed
  <2> QED BY <2>1, <2>2, <2>3 DEF Works, Link, Accepting
<1> QED BY <1>1, InitiallyInOrder, NextKeepsOrder, PTL DEF RotationSpec

\* With grace, a link of the main panel outlives the rotations until MaxKept
\* short ids were minted after its own.
THEOREM GraceIsKept == RotationSpec => []RecentLinksWork
<1>1. RotationInv => RecentLinksWork
  BY DEF RotationInv, PanelsAccept, LinksListed, RecentLinksWork, Accepting
<1> QED BY <1>1, InitiallyInOrder, NextKeepsOrder, PTL DEF RotationSpec

\* A push takes no link away from a subscriber of the node that was handed out
\* since the last rotation.
THEOREM PushesKeepLinks == RotationSpec => NodesKeepLinks
<1>1. RotationInv /\ [RotationNext]_rotationVars =>
        [\A n \in Remotes : \A l \in saved[n] : Works(l, n) /\ l.sid = sid => Works(l, n)']_rotationVars
  <2> SUFFICES ASSUME RotationInv, RotationNext, NEW n \in Remotes, NEW l \in saved[n],
                      Works(l, n), l.sid = sid
               PROVE  Works(l, n)'
    BY DEF Works
  <2>1. SidsInOrder /\ PanelsAccept /\ n \in Panels /\ n # Main
    BY MainAssumption DEF RotationInv, Panels
  <2>2. ASSUME NEW m \in Remotes, Push(m)
        PROVE  Works(l, n)'
    BY <2>1, <2>2, PushedFacts DEF Push, Works, PanelsAccept
  <2>3. ASSUME ReloadMain
        PROVE  Works(l, n)'
    BY <2>1, <2>3 DEF ReloadMain, Works, PanelsAccept
  <2>4. ASSUME accepts' = accepts
        PROVE  Works(l, n)'
    BY <2>4 DEF Works
  <2> QED BY <2>2, <2>3, <2>4 DEF RotationNext, Rotate, SetSettings, HandOut
<1> QED BY <1>1, InitiallyInOrder, NextKeepsOrder, PTL DEF RotationSpec, NodesKeepLinks
=============================================================================
