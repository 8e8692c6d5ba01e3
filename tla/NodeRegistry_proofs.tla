------------------------- MODULE NodeRegistry_proofs -------------------------
(***************************************************************************)
(* The table of nodes, for every number of nodes, of servers, of changes   *)
(* and of handlers and probes under way.                                   *)
(***************************************************************************)
EXTENDS NodeRegistry, TLAPS

\* Handlers that do not set the address look up the one they have read.
LookupsInOrder == \A l \in lookups : SetsAddress(l) \/ l.address = l.seen

\* The inductive invariant.
RegistryInv == TypeOK /\ LookupsInOrder /\ LocationIsCurrent

\* A row, and one with its fields changed, is well typed.
LEMMA RowType ==
  ASSUME TypeOK, NEW n
  PROVE  Row(n) \in Rows
BY DEF TypeOK, Row, NewRow, Rows, Known

\* Writing a row that may have gone changes at most that row.
LEMMA UpdatedType ==
  ASSUME TypeOK, NEW n, NEW row \in Rows, rows' = Updated(n, row)
  PROVE  /\ DOMAIN rows' = DOMAIN rows
         /\ \A m \in DOMAIN rows' : rows'[m] \in Rows
         /\ \A m \in DOMAIN rows' : rows'[m] = IF m = n THEN row ELSE rows[m]
BY DEF TypeOK, Updated

\* _node_status writes well-typed values.
LEMMA NodeStatusType ==
  ASSUME TypeOK, NEW n \in Nodes, NEW address \in Known, NEW pub \in Known,
         NEW entries \in SUBSET Nodes, NodeStatus(n, address, pub, entries)
  PROVE  /\ cached' \subseteq Nodes
         /\ snap' \in [Nodes -> Known]
         /\ probes' \subseteq Probes
<1>1. cached' \subseteq Nodes /\ snap' \in [Nodes -> Known]
  BY DEF NodeStatus, TypeOK, Known
<1>2. ASSUME address # None
      PROVE  [node |-> n, address |-> address, pub |-> pub, answer |-> None] \in Probes
  BY <1>2 DEF Probes, Known
<1>3. probes' \subseteq Probes
  BY <1>2 DEF NodeStatus, TypeOK
<1> QED BY <1>1, <1>3

\* A new panel.
LEMMA InitiallyInOrder == Init => RegistryInv
<1> SUFFICES ASSUME Init PROVE RegistryInv
  OBVIOUS
<1>1. TypeOK
  BY BoundsAssumption DEF Init, TypeOK, Known, Health
<1>2. LookupsInOrder
  BY DEF Init, LookupsInOrder
<1>3. LocationIsCurrent
  BY DEF Init, LocationIsCurrent
<1> QED BY <1>1, <1>2, <1>3 DEF RegistryInv

\* A step that leaves rows, look-ups and doubts alone.
LEMMA MemoryStep ==
  ASSUME RegistryInv, UNCHANGED <<rows, deleted, lookups, doubtful, misnamed>>,
         cached' \subseteq Nodes, snap' \in [Nodes -> Known], probes' \subseteq Probes,
         server' \in [Addresses -> Health], changes' \in 0..MaxChanges
  PROVE  RegistryInv'
<1>1. TypeOK'
  BY DEF RegistryInv, TypeOK
<1>2. LookupsInOrder'
  BY DEF RegistryInv, LookupsInOrder, SetsAddress
<1>3. LocationIsCurrent'
  BY DEF RegistryInv, LocationIsCurrent
<1> QED BY <1>1, <1>2, <1>3 DEF RegistryInv

\* Probes and the cache keep the invariant.
LEMMA ProbesKeepInOrder ==
  ASSUME RegistryInv,
         \/ \E n \in Nodes : List(n) \/ Ping(n) \/ CacheExpires(n)
         \/ \E p \in probes : Answer(p) \/ Finish(p)
  PROVE  RegistryInv'
<1> USE DEF RegistryInv
<1>1. ASSUME NEW n \in Nodes, List(n) \/ Ping(n)
      PROVE  RegistryInv'
  <2>1. /\ UNCHANGED <<rows, deleted, lookups, server, changes, doubtful, misnamed>>
        /\ n \in DOMAIN rows
        /\ \E entries \in SUBSET Nodes :
             NodeStatus(n, rows[n].address, rows[n].pub, entries)
    BY <1>1 DEF List, Ping, TypeOK, historyVars
  <2>2. rows[n].address \in Known /\ rows[n].pub \in Known
    BY <2>1 DEF TypeOK, Rows
  <2>3. cached' \subseteq Nodes /\ snap' \in [Nodes -> Known] /\ probes' \subseteq Probes
    BY <2>1, <2>2, NodeStatusType
  <2> QED BY <2>1, <2>3, MemoryStep DEF TypeOK
<1>2. ASSUME NEW n \in Nodes, CacheExpires(n)
      PROVE  RegistryInv'
  BY <1>2, MemoryStep DEF CacheExpires, TypeOK, historyVars
<1>3. ASSUME NEW p \in probes, Answer(p)
      PROVE  RegistryInv'
  <2>1. p \in Probes /\ p.address \in Addresses
    BY DEF TypeOK, Probes
  <2>2. [p EXCEPT !.answer = server[p.address]] \in Probes
    BY <2>1 DEF TypeOK, Probes
  <2> QED BY <1>3, <2>2, MemoryStep DEF Answer, TypeOK, historyVars
<1>4. ASSUME NEW p \in probes, Finish(p)
      PROVE  RegistryInv'
  <2> DEFINE row == [Row(p.node) EXCEPT !.pub = Learns(p)]
  <2>1. p \in Probes /\ p.node \in Nodes /\ p.address \in Addresses
    BY DEF TypeOK, Probes
  <2>2. Row(p.node) \in Rows
    BY RowType
  <2>3. Learns(p) \in Known /\ Latency(p) \in Known
    BY <2>1, <2>2 DEF Learns, Latency, Known, Rows
  <2>4. /\ row \in Rows /\ row.address = Row(p.node).address
        /\ row.code = Row(p.node).code /\ row.place = Row(p.node).place
    BY <2>2, <2>3 DEF Rows
  <2>5. rows' = Updated(p.node, row)
    BY <1>4 DEF Finish
  <2> HIDE DEF row
  <2>6. /\ DOMAIN rows' = DOMAIN rows
        /\ \A m \in DOMAIN rows' : rows'[m] \in Rows
        /\ \A m \in DOMAIN rows' : rows'[m] = IF m = p.node THEN row ELSE rows[m]
    BY <2>4, <2>5, UpdatedType
  <2>7. UNCHANGED <<deleted, lookups, server, changes, doubtful, misnamed>>
    BY <1>4 DEF Finish, historyVars
  <2>8. cached' \subseteq Nodes /\ snap' \in [Nodes -> Known] /\ probes' \subseteq Probes
    BY <1>4, <2>1, <2>3 DEF Finish, TypeOK
  <2>9. TypeOK'
    BY <2>6, <2>7, <2>8 DEF TypeOK
  <2>10. LookupsInOrder'
    BY <2>7 DEF LookupsInOrder, SetsAddress
  <2>11. LocationIsCurrent'
    BY <2>4, <2>6, <2>7 DEF LocationIsCurrent, Row
  <2> QED BY <2>9, <2>10, <2>11
<1> QED BY <1>1, <1>2, <1>3, <1>4

\* Creating, toggling and deleting nodes keeps the invariant.
LEMMA TableKeepsInOrder ==
  ASSUME RegistryInv, NEW n \in Nodes,
         (\E a \in Known : Create(n, a)) \/ Toggle(n) \/ Delete(n)
  PROVE  RegistryInv'
<1> USE DEF RegistryInv
<1>1. UNCHANGED <<lookups, server, doubtful, misnamed>> /\ changes' \in 0..MaxChanges
  BY BoundsAssumption DEF Create, Toggle, Delete, Change, TypeOK, historyVars
<1>2. LookupsInOrder'
  BY <1>1 DEF LookupsInOrder, SetsAddress
<1>3. ASSUME NEW a \in Known, Create(n, a)
      PROVE  RegistryInv'
  <2>1. PICK located \in {None, a} :
          rows' = [m \in DOMAIN rows \cup {n} |->
                     IF m = n THEN NewRow(a, located) ELSE rows[m]]
    BY <1>3 DEF Create
  <2>2. /\ NewRow(a, located) \in Rows
        /\ NewRow(a, located).address = a
        /\ NewRow(a, located).code = located /\ NewRow(a, located).place = located
    BY DEF NewRow, Rows, Known
  <2>3. DOMAIN rows' = DOMAIN rows \cup {n} /\ \A m \in DOMAIN rows' : rows'[m] \in Rows
    BY <2>1, <2>2 DEF TypeOK
  <2>4. deleted' = deleted /\ n \notin deleted
    BY <1>3 DEF Create
  <2>5. cached' \subseteq Nodes /\ snap' \in [Nodes -> Known] /\ probes' \subseteq Probes
    <3>1. NodeStatus(n, a, None, cached) /\ None \in Known /\ cached \in SUBSET Nodes
      BY <1>3 DEF Create, Known, TypeOK
    <3> QED BY <3>1, NodeStatusType
  <2>6. TypeOK'
    BY <1>1, <2>3, <2>4, <2>5 DEF TypeOK
  <2>7. LocationIsCurrent'
    BY <1>1, <2>1, <2>2, <2>3 DEF LocationIsCurrent
  <2> QED BY <1>2, <2>6, <2>7
<1>4. CASE Toggle(n)
  <2> DEFINE row == [rows[n] EXCEPT !.enabled = ~@]
  <2>1. n \in DOMAIN rows /\ rows' = Updated(n, row) /\ deleted' = deleted
    BY <1>4 DEF Toggle
  <2>2. rows[n] \in Rows
    BY <2>1 DEF TypeOK
  <2>3. /\ row \in Rows /\ row.address = rows[n].address
        /\ row.code = rows[n].code /\ row.place = rows[n].place
    BY <2>2 DEF Rows
  <2> HIDE DEF row
  <2>4. /\ DOMAIN rows' = DOMAIN rows
        /\ \A m \in DOMAIN rows' : rows'[m] \in Rows
        /\ \A m \in DOMAIN rows' : rows'[m] = IF m = n THEN row ELSE rows[m]
    BY <2>1, <2>3, UpdatedType
  <2>5. cached' \subseteq Nodes /\ snap' \in [Nodes -> Known] /\ probes' \subseteq Probes
    <3>1. /\ NodeStatus(n, rows[n].address, rows[n].pub, cached)
          /\ rows[n].address \in Known /\ rows[n].pub \in Known
          /\ cached \in SUBSET Nodes
      BY <1>4, <2>2 DEF Toggle, Rows, TypeOK
    <3> QED BY <3>1, NodeStatusType
  <2>6. TypeOK'
    BY <1>1, <2>1, <2>4, <2>5 DEF TypeOK
  <2>7. LocationIsCurrent'
    BY <1>1, <2>1, <2>3, <2>4 DEF LocationIsCurrent
  <2> QED BY <1>2, <2>6, <2>7
<1>5. CASE Delete(n)
  <2>1. /\ rows' = [m \in DOMAIN rows \ {n} |-> rows[m]]
        /\ deleted' = deleted \cup {n}
        /\ UNCHANGED <<cached, snap, probes>>
    BY <1>5 DEF Delete, Restrict, memVars
  <2>2. TypeOK'
    BY <1>1, <2>1 DEF TypeOK
  <2>3. LocationIsCurrent'
    BY <1>1, <2>1 DEF LocationIsCurrent
  <2> QED BY <1>2, <2>2, <2>3
<1> QED BY <1>3, <1>4, <1>5

\* A handler that begins a look-up keeps the invariant.
LEMMA BeginKeepsInOrder ==
  ASSUME RegistryInv, NEW n \in Nodes,
         \/ \E a \in Addresses : BeginRegister(n, a)
         \/ \E a \in Known : BeginPatch(n, a)
         \/ BeginRelocate(n)
         \/ BeginEnrich(n)
  PROVE  RegistryInv'
<1> USE DEF RegistryInv
<1>1. PICK kind \in Kinds, a \in Known :
        /\ Begin(kind, n, a)
        /\ kind \in {"register", "patch"} \/ a = rows[n].address
        /\ changes' \in 0..MaxChanges
  <2>1. ASSUME NEW a \in Addresses, BeginRegister(n, a)
        PROVE  Begin("register", n, a) /\ a \in Known /\ changes' \in 0..MaxChanges
    BY <2>1, BoundsAssumption DEF BeginRegister, Change, TypeOK, Known
  <2>2. ASSUME NEW a \in Known, BeginPatch(n, a)
        PROVE  Begin("patch", n, a) /\ changes' \in 0..MaxChanges
    BY <2>2, BoundsAssumption DEF BeginPatch, Change, TypeOK
  <2>3. CASE BeginRelocate(n)
    <3>1. /\ Begin("relocate", n, rows[n].address) /\ n \in DOMAIN rows
          /\ changes' \in 0..MaxChanges
      BY <2>3 DEF BeginRelocate, TypeOK
    <3>2. rows[n].address \in Known
      BY <3>1 DEF TypeOK, Rows
    <3> QED BY <3>1, <3>2 DEF Kinds
  <2>4. CASE BeginEnrich(n)
    <3>1. /\ Begin("enrich", n, rows[n].address) /\ n \in DOMAIN rows
          /\ changes' \in 0..MaxChanges
      BY <2>4 DEF BeginEnrich, TypeOK
    <3>2. rows[n].address \in Known
      BY <3>1 DEF TypeOK, Rows
    <3> QED BY <3>1, <3>2 DEF Kinds
  <2> QED BY <2>1, <2>2, <2>3, <2>4 DEF Kinds
<1> DEFINE l == [kind |-> kind, node |-> n, seen |-> rows[n].address,
                 pub |-> rows[n].pub, place |-> rows[n].place, address |-> a]
<1>2. /\ UNCHANGED <<rows, deleted, cached, snap, probes, server, doubtful, misnamed>>
      /\ n \in DOMAIN rows
      /\ lookups' = lookups \cup {l}
  BY <1>1 DEF Begin, memVars, historyVars
<1>3. l \in Lookups /\ (SetsAddress(l) \/ l.address = l.seen)
  <2>1. rows[n].address \in Known /\ rows[n].pub \in Known /\ rows[n].place \in Known
    BY <1>2 DEF TypeOK, Rows
  <2> QED BY <1>1, <2>1 DEF Lookups, SetsAddress
<1> HIDE DEF l
<1>4. TypeOK'
  BY <1>1, <1>2, <1>3 DEF TypeOK
<1>5. LookupsInOrder'
  BY <1>2, <1>3 DEF LookupsInOrder, SetsAddress
<1>6. LocationIsCurrent'
  BY <1>2 DEF LocationIsCurrent
<1> QED BY <1>4, <1>5, <1>6

\* A handler that has found a location, or none, keeps the invariant.
LEMMA EndKeepsInOrder ==
  ASSUME RegistryInv, NEW l \in lookups, NEW found \in Findings(l), End(l, found)
  PROVE  RegistryInv'
<1> USE DEF RegistryInv
<1>1. /\ l \in Lookups /\ l.node \in Nodes
      /\ l.seen \in Known /\ l.pub \in Known /\ l.address \in Known /\ l.place \in Known
  BY DEF TypeOK, Lookups
<1>2. found \in {None, l.address} /\ found \in Known
  BY <1>1 DEF Findings, Known
<1> DEFINE row == Written(l, found)
<1>3. Row(l.node) \in Rows
  BY RowType
<1>4. /\ row \in Rows
      /\ row.address = IF SetsAddress(l) THEN l.address ELSE Row(l.node).address
      /\ row.code = IF found = None THEN Row(l.node).code ELSE found
      /\ row.place = IF found = None THEN Row(l.node).place
                     ELSE IF KeepsNames(l) THEN l.place ELSE found
  BY <1>1, <1>2, <1>3 DEF Written, Rows
<1>5. /\ lookups' = lookups \ {l}
      /\ rows' = Updated(l.node, row)
      /\ StatusAfter(l, found, row)
      /\ UNCHANGED <<deleted, server, changes>>
  BY DEF End
<1>6. /\ doubtful' = IF Certain(l, found) THEN doubtful \ {l.node}
                     ELSE IF Uncertain(l) THEN doubtful \cup {l.node}
                     ELSE doubtful
      /\ misnamed' = IF found # None /\ KeepsNames(l)
                     THEN IF Reverts(l) THEN misnamed \cup {l.node} ELSE misnamed
                     ELSE IF Certain(l, found) THEN misnamed \ {l.node}
                     ELSE IF Uncertain(l) THEN misnamed \cup {l.node}
                     ELSE misnamed
  BY DEF End
<1> HIDE DEF row
<1>7. /\ DOMAIN rows' = DOMAIN rows
      /\ \A m \in DOMAIN rows' : rows'[m] \in Rows
      /\ \A m \in DOMAIN rows' : rows'[m] = IF m = l.node THEN row ELSE rows[m]
  BY <1>4, <1>5, UpdatedType
<1>8. cached' \subseteq Nodes /\ snap' \in [Nodes -> Known] /\ probes' \subseteq Probes
  <2>1. cached \in SUBSET Nodes /\ row.address \in Known /\ row.pub \in Known
    BY <1>4 DEF TypeOK, Rows
  <2>2. \/ NodeStatus(l.node, l.seen, l.pub, cached)
        \/ NodeStatus(l.node, row.address, row.pub, cached)
        \/ UNCHANGED <<cached, snap, probes>>
    BY <1>5 DEF StatusAfter, memVars
  <2>3. CASE NodeStatus(l.node, l.seen, l.pub, cached)
    BY <1>1, <2>1, <2>3, NodeStatusType
  <2>4. CASE NodeStatus(l.node, row.address, row.pub, cached)
    BY <1>1, <2>1, <2>4, NodeStatusType
  <2>5. CASE UNCHANGED <<cached, snap, probes>>
    BY <2>5 DEF TypeOK
  <2> QED BY <2>2, <2>3, <2>4, <2>5
<1>9. TypeOK'
  BY <1>1, <1>5, <1>6, <1>7, <1>8 DEF TypeOK
<1>10. LookupsInOrder'
  BY <1>5 DEF LookupsInOrder, SetsAddress
<1>11. LocationIsCurrent'
  <2> SUFFICES ASSUME NEW m \in DOMAIN rows'
               PROVE  /\ m \notin doubtful' => rows'[m].code \in {None, rows'[m].address}
                      /\ m \notin misnamed' => rows'[m].place \in {None, rows'[m].address}
    BY DEF LocationIsCurrent
  <2>1. CASE m # l.node
    <3>1. rows'[m] = rows[m] /\ m \in DOMAIN rows
      BY <1>7, <2>1
    <3>2. (m \in doubtful' <=> m \in doubtful) /\ (m \in misnamed' <=> m \in misnamed)
      BY <1>6, <2>1
    <3> QED BY <3>1, <3>2 DEF LocationIsCurrent
  <2>2. CASE m = l.node
    <3>1. rows'[m] = row /\ Row(m) = rows[m] /\ m \in DOMAIN rows
      BY <1>7, <2>2 DEF Row
    <3>2. Certain(l, found) => found = l.address /\ found # None /\ row.address = l.address
      BY <1>2, <1>4 DEF Certain, LookupsInOrder
    <3>3. ~Certain(l, found) /\ ~Uncertain(l)
            => found = None /\ row.address = Row(m).address
      BY <1>4, <2>2 DEF Certain, Uncertain
    <3>4. m \notin doubtful' => row.code \in {None, row.address}
      <4>1. CASE Certain(l, found)
        BY <1>4, <3>2, <4>1
      <4>2. CASE ~Certain(l, found) /\ m \notin doubtful'
        <5>1. m \notin doubtful /\ ~Uncertain(l)
          BY <1>6, <2>2, <4>2
        <5> QED BY <1>4, <2>2, <3>1, <3>3, <4>2, <5>1 DEF LocationIsCurrent
      <4> QED BY <4>1, <4>2
    <3>5. m \notin misnamed' => row.place \in {None, row.address}
      <4>1. CASE found # None /\ KeepsNames(l) /\ m \notin misnamed'
        <5>1. m \notin misnamed /\ ~Reverts(l)
          BY <1>6, <2>2, <4>1
        <5>2. row.address = Row(m).address /\ row.place = Row(m).place
          BY <1>4, <2>2, <4>1, <5>1 DEF Reverts, KeepsNames
        <5> QED BY <3>1, <5>1, <5>2 DEF LocationIsCurrent
      <4>2. CASE ~(found # None /\ KeepsNames(l)) /\ Certain(l, found)
        BY <1>4, <3>2, <4>2
      <4>3. CASE /\ ~(found # None /\ KeepsNames(l))
                 /\ ~Certain(l, found) /\ m \notin misnamed'
        <5>1. m \notin misnamed /\ ~Uncertain(l)
          BY <1>6, <2>2, <4>3
        <5> QED BY <1>4, <2>2, <3>1, <3>3, <4>3, <5>1 DEF LocationIsCurrent
      <4> QED BY <4>1, <4>2, <4>3
    <3> QED BY <3>1, <3>4, <3>5
  <2> QED BY <2>1, <2>2
<1> QED BY <1>9, <1>10, <1>11

\* A server that turns, and a restart, keep the invariant.
LEMMA RestKeepsInOrder ==
  ASSUME RegistryInv,
         (\E a \in Addresses, h \in Health : ServerTurns(a, h)) \/ Restart
  PROVE  RegistryInv'
<1>1. ASSUME NEW a \in Addresses, NEW h \in Health, ServerTurns(a, h)
      PROVE  RegistryInv'
  BY <1>1, MemoryStep, BoundsAssumption DEF ServerTurns, Change, memVars, historyVars,
                                           RegistryInv, TypeOK
<1>2. CASE Restart
  <2> USE DEF RegistryInv
  <2>1. /\ cached' \subseteq Nodes /\ snap' \in [Nodes -> Known] /\ probes' \subseteq Probes
        /\ lookups' = {} /\ changes' \in 0..MaxChanges
        /\ UNCHANGED <<rows, deleted, server, doubtful, misnamed>>
    BY <1>2, BoundsAssumption DEF Restart, Change, TypeOK, Known, historyVars
  <2>2. TypeOK'
    BY <2>1 DEF TypeOK
  <2>3. LookupsInOrder'
    BY <2>1 DEF LookupsInOrder
  <2>4. LocationIsCurrent'
    BY <2>1 DEF LocationIsCurrent
  <2> QED BY <2>2, <2>3, <2>4
<1> QED BY <1>1, <1>2

\* The invariant holds in every state.
LEMMA AlwaysInOrder == Spec => []RegistryInv
<1>1. Init => RegistryInv
  BY InitiallyInOrder
<1>2. RegistryInv /\ [Next]_vars => RegistryInv'
  <2> SUFFICES ASSUME RegistryInv, [Next]_vars
               PROVE  RegistryInv'
    OBVIOUS
  <2>1. CASE UNCHANGED vars
    BY <2>1, MemoryStep DEF vars, memVars, historyVars, RegistryInv, TypeOK
  <2>2. ASSUME NEW n \in Nodes, List(n) \/ Ping(n) \/ CacheExpires(n)
        PROVE  RegistryInv'
    BY <2>2, ProbesKeepInOrder
  <2>3. ASSUME NEW n \in Nodes, (\E a \in Known : Create(n, a)) \/ Toggle(n) \/ Delete(n)
        PROVE  RegistryInv'
    BY <2>3, TableKeepsInOrder
  <2>4. ASSUME NEW n \in Nodes,
               \/ \E a \in Addresses : BeginRegister(n, a)
               \/ \E a \in Known : BeginPatch(n, a)
               \/ BeginRelocate(n)
               \/ BeginEnrich(n)
        PROVE  RegistryInv'
    BY <2>4, BeginKeepsInOrder
  <2>5. ASSUME NEW p \in probes, Answer(p) \/ Finish(p)
        PROVE  RegistryInv'
    BY <2>5, ProbesKeepInOrder
  <2>6. ASSUME NEW l \in lookups, NEW found \in Findings(l), End(l, found)
        PROVE  RegistryInv'
    BY <2>6, EndKeepsInOrder
  <2>7. CASE (\E a \in Addresses, h \in Health : ServerTurns(a, h)) \/ Restart
    BY <2>7, RestKeepsInOrder
  <2> QED BY <2>1, <2>2, <2>3, <2>4, <2>5, <2>6, <2>7 DEF Next
<1> QED BY <1>1, <1>2, PTL DEF Spec

(***************************************************************************)
(* The rows, the caches and what is under way are well typed, and an id    *)
(* that was deleted names no node again, whatever a handler writes after   *)
(* its await.                                                              *)
(***************************************************************************)
THEOREM TypeCorrect == Spec => []TypeOK
<1>1. RegistryInv => TypeOK
  BY DEF RegistryInv
<1> QED BY <1>1, AlwaysInOrder, PTL

(***************************************************************************)
(* A node is never shown with the flag of another server, unless a look-up *)
(* failed when its address changed or another handler changed it during    *)
(* one; nor with the names of another place, unless in these cases or when *)
(* names read before were kept.                                            *)
(***************************************************************************)
THEOREM LocationsCurrent == Spec => []LocationIsCurrent
<1>1. RegistryInv => LocationIsCurrent
  BY DEF RegistryInv
<1> QED BY <1>1, AlwaysInOrder, PTL
=============================================================================
