------------------------ MODULE Subscriptions_proofs ------------------------
(***************************************************************************)
(* What holds of the overlay network and of groups for all sets of users,  *)
(* networks of every size and any number of changes and of incidents: the  *)
(* addresses are an AddressPool, no server has two peers that share one,   *)
(* and a revoked key stays dead.                                           *)
(***************************************************************************)
EXTENDS Subscriptions, WellFoundedInduction, TLAPS

-----------------------------------------------------------------------------
(* Addresses.                                                              *)

\* A set of numbers has a least one.
LEMMA LeastFacts ==
  ASSUME NEW S \in SUBSET Nat, S # {}
  PROVE  Least(S) \in S /\ \A b \in S : Least(S) <= b
<1> DEFINE R == {ss \in Nat \X Nat : ss[1] < ss[2]}
<1>1. IsWellFoundedOn(R, Nat)
  BY NatLessThanWellFounded DEF OpToRel
<1>2. PICK x \in S : \A y \in S : ~ (<<y, x>> \in R)
  <2> HIDE DEF R
  <2> QED BY <1>1, WFMin
<1>3. \A y \in S : x <= y
  <2> TAKE y \in S
  <2>1. x \in Nat /\ y \in Nat
    OBVIOUS
  <2>2. <<y, x>> \in R <=> y < x
    BY <2>1
  <2> HIDE DEF R
  <2> QED BY <1>2, <2>1, <2>2
<1> QED BY <1>3 DEF Least

\* The pool gives out an address that no row has, as long as there is one.
LEMMA AllocateFacts ==
  ASSUME NEW t
  PROVE  /\ Allocate(t) \in Hosts \cup {NoAddress}
         /\ Allocate(t) \in Hosts => Allocate(t) \notin Taken(t)
         /\ Allocate(t) = NoAddress <=> Hosts \subseteq Taken(t)
<1> DEFINE free == Hosts \ Taken(t)
<1>1. free \in SUBSET Nat /\ NoAddress \notin free
  BY HostsAssumption DEF Hosts, NoAddress
<1>2. CASE free = {}
  <2>1. Allocate(t) = NoAddress
    BY <1>2 DEF Allocate
  <2> QED BY <1>2, <2>1, HostsAssumption DEF Hosts, NoAddress
<1>3. CASE free # {}
  <2>1. Allocate(t) = Least(free)
    BY <1>3 DEF Allocate
  <2> HIDE DEF free
  <2>2. Least(free) \in free
    BY <1>1, <1>3, LeastFacts
  <2> QED BY <1>1, <2>1, <2>2 DEF free
<1> QED BY <1>2, <1>3

\* A row that is completed is a row, and an address it has stays.
LEMMA CompletedFacts ==
  ASSUME NEW t, NEW row \in Rows, NEW panel \in Panels
  PROVE  LET new == WithKeys(WithAddress(row, t), panel) IN
         /\ new \in Rows
         /\ new.home = row.home /\ new.on = row.on /\ new.wg = row.wg
         /\ new.ip = IF row.ip = NoAddress THEN Allocate(t) ELSE row.ip
<1> DEFINE mid == WithAddress(row, t)
           x1 == [mid EXCEPT !.priv = TRUE]
           x2 == [x1 EXCEPT !.pub = panel]
<1>1. /\ mid \in Rows
      /\ mid.home = row.home /\ mid.on = row.on /\ mid.wg = row.wg
      /\ mid.ip = IF row.ip = NoAddress THEN Allocate(t) ELSE row.ip
  <2>1. Allocate(t) \in Hosts \cup {NoAddress}
    BY AllocateFacts
  <2> QED BY <2>1 DEF WithAddress, Rows
<1>2. WithKeys(mid, panel) = IF mid.priv /\ mid.pub # NoKey THEN mid ELSE x2
  BY DEF WithKeys
<1> HIDE DEF mid
<1>3. /\ x1 \in Rows
      /\ x1.home = mid.home /\ x1.on = mid.on /\ x1.wg = mid.wg /\ x1.ip = mid.ip
  BY <1>1 DEF Rows
<1> HIDE DEF x1
<1>4. /\ x2 \in Rows
      /\ x2.home = x1.home /\ x2.on = x1.on /\ x2.wg = x1.wg /\ x2.ip = x1.ip
  BY <1>3 DEF Rows
<1> HIDE DEF x2
<1>5. /\ WithKeys(mid, panel) \in Rows
      /\ WithKeys(mid, panel).home = row.home
      /\ WithKeys(mid, panel).on = row.on
      /\ WithKeys(mid, panel).wg = row.wg
      /\ WithKeys(mid, panel).ip = mid.ip
  BY <1>1, <1>2, <1>3, <1>4
<1> QED BY <1>1, <1>5 DEF mid

-----------------------------------------------------------------------------
(* Tables.                                                                 *)

\* No two rows of a table have one address.
Unshared(t) ==
  \A u, v \in Present(t) : t[u].ip = t[v].ip /\ t[u].ip # NoAddress => u = v

\* The change of one row, in which an address is lost with the row only, and
\* gained if no other row has it.
Grants(t, new, u) ==
  /\ \A v \in Users \ {u} : new[v] = t[v]
  /\ new[u] # Absent =>
       \/ t[u] # Absent /\ new[u].ip = t[u].ip
       \/ (t[u] = Absent \/ t[u].ip = NoAddress) /\ new[u].ip \notin Taken(t) \ {NoAddress}

\* The rows of a table.
LEMMA RowFacts ==
  ASSUME NEW t \in Tables, NEW u \in Users, t[u] # Absent
  PROVE  t[u] \in Rows /\ u \in Present(t) /\ t[u].ip \in Taken(t)
BY DEF Tables, Present, Taken

\* Such a change keeps addresses apart.
LEMMA GrantsKeepUnshared ==
  ASSUME NEW t \in Tables, NEW new \in Tables, NEW u \in Users,
         Unshared(t), Grants(t, new, u)
  PROVE  Unshared(new)
<1> SUFFICES ASSUME NEW v \in Present(new), NEW w \in Present(new),
                    new[v].ip = new[w].ip, new[v].ip # NoAddress, v # w
             PROVE  FALSE
  BY DEF Unshared
<1>1. ASSUME NEW x \in Present(new), x # u
      PROVE  x \in Present(t) /\ new[x] = t[x] /\ new[x].ip \in Taken(t)
  BY <1>1 DEF Grants, Present, Taken
<1>2. CASE v # u /\ w # u
  BY <1>1, <1>2 DEF Unshared
<1>3. ASSUME NEW x \in Present(new), x # u, new[u] # Absent,
             new[u].ip = new[x].ip, new[u].ip # NoAddress
      PROVE  FALSE
  <2>1. CASE t[u] # Absent /\ new[u].ip = t[u].ip
    BY <1>1, <1>3, <2>1 DEF Unshared, Present
  <2>2. CASE new[u].ip \notin Taken(t) \ {NoAddress}
    BY <1>1, <1>3, <2>2
  <2> QED BY <1>3, <2>1, <2>2 DEF Grants
<1>4. CASE v = u
  BY <1>3, <1>4 DEF Present
<1>5. CASE w = u
  BY <1>3, <1>5 DEF Present
<1> QED BY <1>2, <1>4, <1>5

\* Another row with the same address, or none, in the place of one.
LEMMA RowChange ==
  ASSUME NEW t \in Tables, NEW u \in Users, NEW row \in Rows \cup {Absent},
         row # Absent =>
           \/ t[u] # Absent /\ row.ip = t[u].ip
           \/ t[u] = Absent /\ row.ip = NoAddress
  PROVE  [t EXCEPT ![u] = row] \in Tables /\ Grants(t, [t EXCEPT ![u] = row], u)
BY DEF Tables, Grants

\* ensure_user_keys after a change of one row is such a change, too.
LEMMA EnsureFacts ==
  ASSUME NEW t \in Tables, NEW mid \in Tables, NEW u \in Users, NEW panel \in Panels,
         Grants(t, mid, u), mid[u] # Absent
  PROVE  /\ EnsureKeys(mid, u, panel) \in Tables
         /\ Grants(t, EnsureKeys(mid, u, panel), u)
<1> DEFINE row == WithKeys(WithAddress(mid[u], mid), panel)
           new == [mid EXCEPT ![u] = row]
<1>1. mid[u] \in Rows
  BY RowFacts
<1>2. CASE ~mid[u].wg
  BY <1>2 DEF EnsureKeys
<1>3. CASE mid[u].wg
  <2>1. EnsureKeys(mid, u, panel) = new
    BY <1>3 DEF EnsureKeys, Tables
  <2>2. row \in Rows /\ row.ip = IF mid[u].ip = NoAddress THEN Allocate(mid) ELSE mid[u].ip
    BY <1>1, CompletedFacts
  <2> HIDE DEF row
  <2>3. new \in Tables /\ new[u] = row /\ \A v \in Users \ {u} : new[v] = mid[v]
    BY <2>2 DEF Tables
  <2>4. CASE mid[u].ip # NoAddress
    <3>1. row.ip = mid[u].ip
      BY <2>2, <2>4
    <3> QED BY <2>1, <2>3, <3>1 DEF Grants
  <2>5. CASE mid[u].ip = NoAddress
    <3>1. row.ip = Allocate(mid)
      BY <2>2, <2>5
    <3>2. t[u] = Absent \/ t[u].ip = NoAddress
      BY <2>5 DEF Grants
    <3>3. row.ip \notin Taken(t) \ {NoAddress}
      <4>1. SUFFICES ASSUME row.ip \in Taken(t), row.ip # NoAddress
                     PROVE  FALSE
        OBVIOUS
      <4>2. PICK v \in Present(t) : t[v].ip = row.ip
        BY <4>1 DEF Taken
      <4>3. v # u
        BY <3>2, <4>1, <4>2 DEF Present
      <4>4. mid[v] = t[v] /\ v \in Present(mid)
        BY <4>3 DEF Grants, Present
      <4>5. row.ip \in Taken(mid)
        BY <4>2, <4>4 DEF Taken
      <4> QED BY <3>1, <4>1, <4>5, AllocateFacts
    <3> QED BY <2>1, <2>3, <3>2, <3>3 DEF Grants
  <2> QED BY <2>4, <2>5
<1> QED BY <1>2, <1>3

\* The peers that are made of a table; they are distinct if its addresses are.
LEMMA PeersFacts ==
  ASSUME NEW t \in Tables, NEW panel \in Panels
  PROVE  /\ PeersOf(t, panel) \subseteq Peers
         /\ Unshared(t) =>
              \A x, y \in PeersOf(t, panel) : x.ip = y.ip \/ x.user = y.user => x = y
<1>1. ASSUME NEW x \in PeersOf(t, panel)
      PROVE  /\ x.user \in Present(t) /\ t[x.user] \in Rows
             /\ x = [user |-> x.user, ip |-> t[x.user].ip, pub |-> t[x.user].pub]
             /\ t[x.user].pub # NoKey /\ t[x.user].ip # NoAddress
  BY RowFacts DEF PeersOf, Present
<1>2. PeersOf(t, panel) \subseteq Peers
  BY <1>1 DEF Peers, Rows, Present
<1>3. ASSUME Unshared(t), NEW x \in PeersOf(t, panel), NEW y \in PeersOf(t, panel),
             x.ip = y.ip \/ x.user = y.user
      PROVE  x = y
  <2>1. x.ip = t[x.user].ip /\ y.ip = t[y.user].ip
    BY <1>1
  <2>2. x.user = y.user
    BY <1>1, <1>3, <2>1 DEF Unshared
  <2> QED BY <1>1, <2>2
<1> QED BY <1>2, <1>3

\* Rows that change, but neither come, go nor get another address.
LEMMA SameAddresses ==
  ASSUME NEW t \in Tables, NEW new \in Tables,
         \A u \in Users :
           /\ t[u] = Absent <=> new[u] = Absent
           /\ t[u] # Absent => new[u].ip = t[u].ip
  PROVE  Unshared(t) => Unshared(new)
<1>1. ASSUME NEW u \in Present(new)
      PROVE  u \in Present(t) /\ new[u].ip = t[u].ip
  BY DEF Present
<1> QED BY <1>1 DEF Unshared

-----------------------------------------------------------------------------
(* Pushes.                                                                 *)

\* What a push carries is a part of the table.
LEMMA PayloadFacts ==
  ASSUME main \in Tables
  PROVE  Payload \in Tables /\ (Unshared(main) => Unshared(Payload))
<1>1. ASSUME NEW u \in Users, main[u] # Absent
      PROVE  Trim(main[u]) \in Rows /\ Trim(main[u]).ip = main[u].ip
  <2>1. main[u] \in Rows
    BY <1>1, RowFacts
  <2> QED BY <2>1 DEF Trim, Rows
<1>2. Payload \in Tables
  BY <1>1 DEF Payload, Tables
<1>3. ASSUME NEW u \in Present(Payload)
      PROVE  u \in Present(main) /\ Payload[u].ip = main[u].ip
  BY <1>1 DEF Payload, Present
<1>4. Unshared(main) => Unshared(Payload)
  BY <1>3 DEF Unshared
<1> QED BY <1>2, <1>4

\* What a push makes of the node's table, on the way and in the end.
LEMMA CommittedFacts ==
  ASSUME node \in Tables, push \in Tables, NEW us \in SUBSET Users
  PROVE  /\ Committed(us) \in Tables
         /\ Unshared(push) => Unshared(Committed(Users))
         /\ Committed({}) = node
<1>1. ASSUME NEW old \in Rows \cup {Absent}, NEW new \in Rows \cup {Absent}
      PROVE  /\ Merge(old, new) \in Rows \cup {Absent}
             /\ Merge(old, new) = Absent <=> new = Absent
             /\ new # Absent => Merge(old, new).ip = new.ip
  <2>1. CASE old = Absent \/ new = Absent
    BY <2>1 DEF Merge
  <2>2. CASE old # Absent /\ new # Absent
    <3>1. old \in Rows /\ new \in Rows
      BY <2>2
    <3>2. [new EXCEPT !.priv = old.priv] \in Rows
      BY <3>1 DEF Rows
    <3>3. [new EXCEPT !.priv = old.priv].ip = new.ip
      BY <3>1 DEF Rows
    <3>4. Merge(old, new) = [new EXCEPT !.priv = old.priv]
      BY <2>2 DEF Merge
    <3> QED BY <2>2, <3>1, <3>2, <3>3, <3>4, AbsentAssumption
  <2> QED BY <2>1, <2>2
<1>2. ASSUME NEW u \in Users
      PROVE  node[u] \in Rows \cup {Absent} /\ push[u] \in Rows \cup {Absent}
  BY DEF Tables
<1>3. ASSUME NEW vs \in SUBSET Users
      PROVE  Committed(vs) \in Tables
  BY <1>1, <1>2 DEF Committed, Tables
<1>4. ASSUME NEW u \in Users
      PROVE  /\ push[u] = Absent <=> Committed(Users)[u] = Absent
             /\ push[u] # Absent => Committed(Users)[u].ip = push[u].ip
  BY <1>1, <1>2 DEF Committed
<1>5. Unshared(push) => Unshared(Committed(Users))
  BY <1>3, <1>4, SameAddresses
<1>6. Committed({}) = node
  BY DEF Committed, Tables
<1> QED BY <1>3, <1>5, <1>6

-----------------------------------------------------------------------------
(* Actions that write the table of the main panel.                         *)

\* Every handler changes one row and gives out a free address, if any; so does
\* the building of a link.
LEMMA HandlersGrant ==
  ASSUME TypeOK, NEW u \in Users,
         \/ \E wg \in BOOLEAN, home \in Panels : Create(u, wg, home) /\ main[u] = Absent
         \/ Update(u) \/ Toggle(u) \/ Delete(u) \/ BuildLinks(u) \/ Extend(u)
  PROVE  main' \in Tables /\ Grants(main, main', u)
<1> USE DEF TypeOK, OverlayTypeOK
<1>1. "main" \in Panels
  BY DEF Panels
<1>2. ASSUME NEW row \in Rows,
             \/ main[u] # Absent /\ row.ip = main[u].ip
             \/ main[u] = Absent /\ row.ip = NoAddress
      PROVE  /\ EnsureKeys([main EXCEPT ![u] = row], u, "main") \in Tables
             /\ Grants(main, EnsureKeys([main EXCEPT ![u] = row], u, "main"), u)
  <2> DEFINE mid == [main EXCEPT ![u] = row]
  <2>1. mid \in Tables /\ Grants(main, mid, u)
    BY <1>2, RowChange
  <2>2. mid[u] = row /\ row # Absent
    BY AbsentAssumption DEF Tables
  <2> HIDE DEF mid
  <2>3. EnsureKeys(mid, u, "main") \in Tables /\ Grants(main, EnsureKeys(mid, u, "main"), u)
    BY <1>1, <2>1, <2>2, EnsureFacts
  <2> QED BY <2>3 DEF mid
<1>3. ASSUME main[u] # Absent
      PROVE  /\ EnsureKeys(main, u, "main") \in Tables
             /\ Grants(main, EnsureKeys(main, u, "main"), u)
  <2>1. Grants(main, main, u)
    BY <1>3 DEF Grants
  <2> QED BY <1>1, <1>3, <2>1, EnsureFacts
<1>4. ASSUME NEW wg \in BOOLEAN, NEW home \in Panels, Create(u, wg, home), main[u] = Absent
      PROVE  main' \in Tables /\ Grants(main, main', u)
  <2> DEFINE row == [wg |-> wg, on |-> TRUE, home |-> home,
                     ip |-> NoAddress, priv |-> FALSE, pub |-> NoKey]
  <2>1. row \in Rows /\ row.ip = NoAddress
    BY DEF Rows
  <2>2. main' = EnsureKeys([main EXCEPT ![u] = row], u, "main")
    BY <1>4 DEF Create, Write
  <2> HIDE DEF row
  <2> QED BY <1>2, <1>4, <2>1, <2>2
<1>5. CASE Update(u)
  <2>1. main[u] \in Rows
    BY <1>5, RowFacts DEF Update
  <2>2. ASSUME NEW row \in {[main[u] EXCEPT !.wg = ~@], [main[u] EXCEPT !.on = ~@],
                            [main[u] EXCEPT !.home = Other(@)]}
        PROVE  row \in Rows /\ row.ip = main[u].ip
    <3>1. Other("main") \in Panels /\ Other("node") \in Panels
      <4>1. "node" # "main"
        OBVIOUS
      <4> QED BY <4>1 DEF Other, Panels
    <3>2. Other(main[u].home) \in Panels
      BY <2>1, <3>1 DEF Rows, Panels
    <3> DEFINE other == Other(main[u].home)
    <3> HIDE DEF other
    <3>3. CASE row = [main[u] EXCEPT !.home = Other(@)]
      <4>1. row = [main[u] EXCEPT !.home = other]
        BY <2>1, <3>3 DEF other
      <4>2. other \in Panels
        BY <3>2 DEF other
      <4> QED BY <2>1, <4>1, <4>2 DEF Rows
    <3>4. CASE row = [main[u] EXCEPT !.wg = ~@]
      BY <2>1, <3>4 DEF Rows
    <3>5. CASE row = [main[u] EXCEPT !.on = ~@]
      BY <2>1, <3>5 DEF Rows
    <3> QED BY <2>2, <3>3, <3>4, <3>5
  <2>3. PICK row \in {[main[u] EXCEPT !.wg = ~@], [main[u] EXCEPT !.on = ~@],
                      [main[u] EXCEPT !.home = Other(@)]} :
          main' = EnsureKeys([main EXCEPT ![u] = row], u, "main")
    BY <1>5 DEF Update, Write
  <2>4. main[u] # Absent
    BY <1>5 DEF Update
  <2> QED BY <1>2, <2>2, <2>3, <2>4
<1>6. CASE Toggle(u)
  <2>1. main[u] \in Rows
    BY <1>6, RowFacts DEF Toggle
  <2> DEFINE row == [main[u] EXCEPT !.on = ~@]
  <2>2. row \in Rows /\ row.ip = main[u].ip
    BY <2>1 DEF Rows
  <2>3. main' = [main EXCEPT ![u] = row]
    BY <1>6 DEF Toggle, Write, Tables
  <2> HIDE DEF row
  <2> QED BY <1>6, <2>2, <2>3, RowChange DEF Toggle
<1>7. CASE Delete(u)
  BY <1>7, RowChange DEF Delete, Write
<1>8. CASE BuildLinks(u)
  BY <1>3, <1>8 DEF BuildLinks
<1>9. CASE Extend(u)
  BY <1>3, <1>9 DEF Extend, Write, Present
<1> QED BY <1>4, <1>5, <1>6, <1>7, <1>8, <1>9

-----------------------------------------------------------------------------
(* The inductive invariant.                                                *)

\* Addresses are kept apart in every table that peers are made of: at the node
\* unless its table is half written, and there because the push is a table too.
PoolInv ==
  /\ Present(main) \subseteq drawn
  /\ Unshared(main)
  /\ push # NoPush => Unshared(push)
  /\ "table" \notin torn => Unshared(node)
  /\ PeersAreDistinct

OverlayInv == TypeOK /\ PoolInv

\* A step that neither the node, nor pushes, nor servers take part in.
AwayFromTheNode == UNCHANGED <<node, push, served, torn>>

\* It is enough to look at the main panel's table then.
LEMMA MainStepKeepsPool ==
  ASSUME PoolInv, AwayFromTheNode, Present(main') \subseteq drawn', Unshared(main')
  PROVE  PoolInv'
BY DEF PoolInv, AwayFromTheNode, PeersAreDistinct, Unshared, Present

\* Nor does a step of the group matter.
LEMMA SameTablesKeepPool ==
  ASSUME PoolInv, AwayFromTheNode, UNCHANGED <<main, drawn>>
  PROVE  PoolInv'
BY DEF PoolInv, AwayFromTheNode, PeersAreDistinct, Unshared, Present

\* Initially there is nobody.
LEMMA InitiallyPool == Init => OverlayInv
<1> SUFFICES ASSUME Init PROVE OverlayInv
  OBVIOUS
<1> USE DEF Init, OverlayInit
<1>1. Nobody \in Tables /\ Present(Nobody) = {}
  BY DEF Nobody, Tables, Present
<1>2. TypeOK
  <2>1. served \in [Panels -> SUBSET Peers]
    BY Zenon
  <2>2. changes \in 0..MaxChanges /\ faults \in 0..MaxFaults /\ minted \in 0..changes
    BY OverlayBounds
  <2>3. OverlayTypeOK
    BY <1>1, <2>1, <2>2 DEF OverlayTypeOK
  <2> QED BY <2>2, <2>3 DEF TypeOK
<1>3. PoolInv
  BY <1>1 DEF PoolInv, Unshared, PeersAreDistinct, Panels
<1> QED BY <1>2, <1>3 DEF OverlayInv

\* The handlers that change a user, and the building of links.
LEMMA HandlersKeepPool ==
  ASSUME OverlayInv, NEW u \in Users,
         \/ \E wg \in BOOLEAN, home \in Panels :
              Create(u, wg, home) /\ UNCHANGED <<groupVars, expired>>
         \/ (Update(u) \/ Toggle(u) \/ Delete(u) \/ BuildLinks(u))
              /\ UNCHANGED <<groupVars, expired>>
         \/ Extend(u)
  PROVE  OverlayInv' /\ Grants(main, main', u)
<1> USE DEF OverlayInv
<1>1. \/ \E wg \in BOOLEAN, home \in Panels : Create(u, wg, home) /\ main[u] = Absent
      \/ Update(u) \/ Toggle(u) \/ Delete(u) \/ BuildLinks(u) \/ Extend(u)
  BY DEF Create, PoolInv, Present
<1>2. main' \in Tables /\ Grants(main, main', u)
  BY <1>1, HandlersGrant
<1>3. Unshared(main')
  BY <1>2, GrantsKeepUnshared DEF TypeOK, OverlayTypeOK, PoolInv
<1>4. /\ AwayFromTheNode
      /\ UNCHANGED <<hash, rekeyed, unsure, faults, groupVars>>
      /\ dirty' \in {dirty, dirty \cup {"main"}}
      /\ late' \in {late, late \cup {u}}
      /\ drawn' \in {drawn, drawn \cup {u}}
      /\ expired' \in {expired, expired \ {u}}
      /\ changes' = changes \/ (changes < MaxChanges /\ changes' = changes + 1)
  BY DEF AwayFromTheNode, Create, Update, Toggle, Delete, BuildLinks, Extend, Write
<1>5. Present(main') \subseteq drawn'
  <2>1. ASSUME NEW v \in Present(main'), v # u
        PROVE  v \in drawn'
    BY <1>2, <1>4, <2>1 DEF Grants, Present, PoolInv
  <2>2. ASSUME u \in Present(main')
        PROVE  u \in drawn'
    <3>1. CASE main[u] # Absent
      BY <1>4, <3>1 DEF PoolInv, Present
    <3>2. CASE main[u] = Absent
      BY <1>1, <3>2 DEF Create, Update, Toggle, Delete, BuildLinks, Extend, Present
    <3> QED BY <3>1, <3>2
  <2> QED BY <2>1, <2>2
<1>6. PoolInv'
  BY <1>3, <1>4, <1>5, MainStepKeepsPool
<1>7. TypeOK'
  <2>1. OverlayTypeOK'
    BY <1>2, <1>4, OverlayBounds DEF TypeOK, OverlayTypeOK, AwayFromTheNode, Panels
  <2>2. minted' \in 0..changes'
    BY <1>4, OverlayBounds DEF TypeOK, OverlayTypeOK, groupVars
  <2> QED BY <1>4, <2>1, <2>2 DEF TypeOK, groupVars
<1> QED BY <1>2, <1>6, <1>7

\* Housekeeping takes nobody's address.
LEMMA SweepKeepsPool ==
  ASSUME OverlayInv, Sweep
  PROVE  /\ OverlayInv'
         /\ \A u \in Users :
              /\ main[u] = Absent <=> main'[u] = Absent
              /\ main[u] # Absent => main'[u].ip = main[u].ip
<1> USE DEF OverlayInv
<1>1. ASSUME NEW u \in Users
      PROVE  /\ main'[u] \in Rows \cup {Absent}
             /\ main[u] = Absent <=> main'[u] = Absent
             /\ main[u] # Absent => main'[u].ip = main[u].ip
  <2>1. CASE u \notin Overdue
    <3>1. main'[u] = main[u]
      BY <2>1 DEF Sweep
    <3> QED BY <3>1 DEF TypeOK, OverlayTypeOK, Tables
  <2>2. CASE u \in Overdue
    <3>1. main[u] \in Rows /\ main[u] # Absent
      BY <2>2, RowFacts DEF Overdue, Present, TypeOK, OverlayTypeOK
    <3>2. main'[u] = [main[u] EXCEPT !.on = FALSE]
      BY <2>2 DEF Sweep
    <3>3. main'[u] \in Rows /\ main'[u].ip = main[u].ip
      BY <3>1, <3>2 DEF Rows
    <3> QED BY <3>1, <3>3, AbsentAssumption
  <2> QED BY <2>1, <2>2
<1>2. main' \in Tables
  BY <1>1 DEF Sweep, Tables
<1>3. Unshared(main')
  BY <1>1, <1>2, SameAddresses DEF TypeOK, OverlayTypeOK, PoolInv
<1>4. AwayFromTheNode /\ Present(main') \subseteq drawn'
  BY <1>1 DEF Sweep, AwayFromTheNode, Present, PoolInv
<1>5. PoolInv'
  BY <1>3, <1>4, MainStepKeepsPool
<1>6. TypeOK'
  BY <1>2 DEF Sweep, TypeOK, OverlayTypeOK, groupVars, Overdue, Present
<1> QED BY <1>1, <1>5, <1>6

\* A server that is started with the peers of a table.
LEMMA StartedServers ==
  ASSUME TypeOK, NEW t \in Tables, NEW panel \in Panels,
         served' = [served EXCEPT ![panel] = PeersOf(t, panel)],
         PeersAreDistinct,
         panel = "main" => Unshared(t) /\ torn' = torn,
         panel = "node" => Unshared(t) \/ "peers" \in torn'
  PROVE  served' \in [Panels -> SUBSET Peers] /\ PeersAreDistinct'
<1>1. PeersOf(t, panel) \subseteq Peers
  BY PeersFacts
<1>2. served' \in [Panels -> SUBSET Peers]
  BY <1>1 DEF TypeOK, OverlayTypeOK
<1>3. /\ served'[panel] = PeersOf(t, panel)
      /\ \A p \in Panels \ {panel} : served'[p] = served[p]
  BY DEF TypeOK, OverlayTypeOK
<1>4. SUFFICES ASSUME NEW p \in Panels, ~(p = "node" /\ "peers" \in torn'),
                      NEW x \in served'[p], NEW y \in served'[p],
                      x.ip = y.ip \/ x.user = y.user
               PROVE  x = y
  BY <1>2 DEF PeersAreDistinct
<1>5. CASE p = panel
  <2>1. Unshared(t)
    BY <1>4, <1>5 DEF Panels
  <2> QED BY <1>3, <1>4, <1>5, <2>1, PeersFacts
<1>6. CASE p # panel
  <2>1. served'[p] = served[p]
    BY <1>3, <1>6
  <2>2. p = "node" => "peers" \notin torn
    BY <1>4, <1>6 DEF Panels
  <2> QED BY <1>4, <2>1, <2>2 DEF PeersAreDistinct
<1> QED BY <1>5, <1>6

\* Reloads and restarts.
LEMMA ReloadsKeepPool ==
  ASSUME OverlayInv, UNCHANGED <<groupVars, expired>>,
         ReloadMain \/ ReloadNode \/ \E panel \in Panels : Restart(panel)
  PROVE  OverlayInv' /\ UNCHANGED main
<1> USE DEF OverlayInv, TypeOK, OverlayTypeOK
<1>0. "main" \in Panels /\ "node" \in Panels /\ "main" # "node"
  BY DEF Panels
<1>1. CASE ReloadMain
  <2>1. served' \in [Panels -> SUBSET Peers] /\ PeersAreDistinct'
    BY <1>0, <1>1, StartedServers DEF ReloadMain, PoolInv
  <2>2. PoolInv'
    BY <1>1, <2>1 DEF ReloadMain, PoolInv, Present, Unshared
  <2>3. TypeOK'
    BY <1>1, <2>1 DEF ReloadMain, groupVars
  <2> QED BY <1>1, <2>2, <2>3 DEF ReloadMain
<1>2. CASE ReloadNode
  <2>1. served' \in [Panels -> SUBSET Peers] /\ PeersAreDistinct'
    <3>1. Unshared(node) \/ "peers" \in torn'
      BY <1>2 DEF ReloadNode, PoolInv
    <3> QED BY <1>0, <1>2, <3>1, StartedServers DEF ReloadNode, PoolInv
  <2>2. "table" \notin torn' => "table" \notin torn
    BY <1>2 DEF ReloadNode
  <2>3. PoolInv'
    BY <1>2, <2>1, <2>2 DEF ReloadNode, PoolInv, Present, Unshared
  <2>4. TypeOK'
    BY <1>2, <2>1 DEF ReloadNode, groupVars
  <2> QED BY <1>2, <2>3, <2>4 DEF ReloadNode
<1>3. ASSUME NEW panel \in Panels, Restart(panel)
      PROVE  OverlayInv' /\ UNCHANGED main
  <2>1. PoolInv'
    BY <1>3, SameTablesKeepPool DEF Restart, AwayFromTheNode
  <2>2. TypeOK'
    BY <1>3 DEF Restart, groupVars
  <2> QED BY <1>3, <2>1, <2>2 DEF Restart
<1> QED BY <1>1, <1>2, <1>3

\* A push that api_node_sync runs to the end.
LEMMA AppliedFacts ==
  ASSUME OverlayInv, Applied
  PROVE  /\ node' \in Tables /\ Unshared(node')
         /\ push \in Tables /\ push' = NoPush
<1>1. node \in Tables /\ push \in Tables
  BY DEF OverlayInv, TypeOK, OverlayTypeOK, Applied
<1> QED BY <1>1, CommittedFacts DEF Applied, OverlayInv, PoolInv

\* Pushes, and links that are built at the node.
LEMMA PushesKeepPool ==
  ASSUME OverlayInv, UNCHANGED <<groupVars, expired>>,
         StartPush \/ PushEnds \/ \E u \in Users : BuildLinksAtNode(u)
  PROVE  OverlayInv' /\ UNCHANGED main
<1> USE DEF OverlayInv, TypeOK, OverlayTypeOK
<1>0. "main" \in Panels /\ "node" \in Panels /\ "main" # "node"
  BY DEF Panels
<1>1. CASE StartPush
  <2>1. Payload \in Tables /\ Unshared(Payload)
    BY PayloadFacts DEF PoolInv
  <2>2. PoolInv'
    BY <1>1, <2>1 DEF StartPush, PoolInv, Present, Unshared, PeersAreDistinct
  <2>3. TypeOK'
    BY <1>1, <2>1 DEF StartPush, groupVars
  <2> QED BY <1>1, <2>2, <2>3 DEF StartPush
<1>2. ASSUME Applied, UNCHANGED served, torn' = torn \ {"table"},
             hash' \in {hash, push}, unsure' \in BOOLEAN, faults' \in 0..MaxFaults
      PROVE  OverlayInv' /\ UNCHANGED main
  <2>1. /\ node' \in Tables /\ Unshared(node')
        /\ push \in Tables /\ push' = NoPush
    BY <1>2, AppliedFacts
  <2>2. PeersAreDistinct'
    BY <1>2 DEF PoolInv, PeersAreDistinct
  <2>3. PoolInv'
    BY <1>2, <2>1, <2>2 DEF Applied, PoolInv, Present, Unshared
  <2>4. TypeOK'
    BY <1>0, <1>2, <2>1 DEF Applied, groupVars
  <2> QED BY <1>2, <2>3, <2>4 DEF Applied
<1>3. CASE PushDone
  BY <1>2, <1>3 DEF PushDone
<1>4. CASE AnswerLost
  BY <1>2, <1>4, OverlayBounds DEF AnswerLost
<1>5. CASE PushDuringReload
  <2>1. /\ node' \in Tables /\ Unshared(node')
        /\ push \in Tables /\ push' = NoPush
    BY <1>5, AppliedFacts DEF PushDuringReload
  <2>2. PICK us \in Stages :
          served' = [served EXCEPT !["node"] = PeersOf(Committed(us), "node")]
    BY <1>5 DEF PushDuringReload
  <2>3. Committed(us) \in Tables
    BY <2>1, CommittedFacts DEF Stages
  <2>4. served' \in [Panels -> SUBSET Peers] /\ PeersAreDistinct'
    BY <1>0, <1>5, <2>2, <2>3, StartedServers DEF PushDuringReload, PoolInv
  <2>5. PoolInv'
    BY <1>5, <2>1, <2>4 DEF PushDuringReload, Applied, PoolInv, Present, Unshared
  <2>6. TypeOK'
    BY <1>0, <1>5, <2>1, <2>4 DEF PushDuringReload, Applied, groupVars
  <2> QED BY <1>5, <2>5, <2>6 DEF PushDuringReload, Applied
<1>6. CASE PushFails
  <2>1. PICK us \in Stages :
          /\ node' = Committed(us)
          /\ IF us = {} THEN UNCHANGED <<unsure, torn>>
             ELSE unsure' = TRUE /\ torn' = torn \cup {"table"}
    BY <1>6 DEF PushFails
  <2>2. push \in Tables
    BY <1>6 DEF PushFails
  <2>3. node' \in Tables /\ (us = {} => node' = node)
    BY <2>1, <2>2, CommittedFacts DEF Stages
  <2>4. "table" \notin torn' => "table" \notin torn /\ node' = node
    BY <2>1, <2>3
  <2>5. PeersAreDistinct'
    BY <1>6, <2>1 DEF PushFails, PoolInv, PeersAreDistinct
  <2>6. PoolInv'
    BY <1>6, <2>4, <2>5 DEF PushFails, PoolInv, Present, Unshared
  <2>7. TypeOK'
    <3>1. unsure' \in BOOLEAN /\ torn' \subseteq {"table", "peers"}
      BY <2>1
    <3>2. faults' \in 0..MaxFaults
      BY <1>6, OverlayBounds DEF PushFails
    <3> QED BY <1>6, <2>3, <3>1, <3>2 DEF PushFails, groupVars
  <2> QED BY <1>6, <2>6, <2>7 DEF PushFails
<1>7. ASSUME NEW u \in Users, BuildLinksAtNode(u)
      PROVE  OverlayInv' /\ UNCHANGED main
  <2>1. Grants(node, node, u)
    BY <1>7 DEF Grants, BuildLinksAtNode
  <2>2. node' \in Tables /\ Grants(node, node', u)
    BY <1>0, <1>7, <2>1, EnsureFacts DEF BuildLinksAtNode
  <2>3. Unshared(node) => Unshared(node')
    BY <2>2, GrantsKeepUnshared
  <2>4. PoolInv'
    BY <1>7, <2>3 DEF BuildLinksAtNode, PoolInv, Present, Unshared, PeersAreDistinct
  <2>5. rekeyed' \subseteq Users /\ faults' \in 0..MaxFaults
    BY <1>7, OverlayBounds DEF BuildLinksAtNode
  <2>6. TypeOK'
    BY <1>7, <2>2, <2>5 DEF BuildLinksAtNode, groupVars
  <2> QED BY <1>7, <2>4, <2>6 DEF BuildLinksAtNode
<1> QED BY <1>1, <1>3, <1>4, <1>5, <1>6, <1>7 DEF PushEnds

-----------------------------------------------------------------------------
(* The group.                                                              *)

\* A PATCH leaves the key of the row as it is, and no row where there is none.
LEMMA UpdatedFacts ==
  ASSUME NEW row \in Groups \cup {NoGroup}, NEW read,
         NEW fields \in [members : SUBSET Users, on : BOOLEAN]
  PROVE  /\ Updated(row, read, fields) \in Groups \cup {NoGroup}
         /\ Updated(row, read, fields) = NoGroup <=> row = NoGroup
         /\ row # NoGroup => Updated(row, read, fields).key = row.key
<1> DEFINE x1 == [row EXCEPT !.members = fields.members]
           x2 == [x1 EXCEPT !.on = fields.on]
<1>1. Updated(row, read, fields) =
        IF row # NoGroup /\ row.id = read.id THEN x2 ELSE row
  BY DEF Updated
<1>2. ASSUME row # NoGroup
      PROVE  x2 \in Groups /\ x2.key = row.key
  <2>1. row \in Groups
    BY <1>2
  <2>2. x1 \in Groups /\ x1.key = row.key
    BY <2>1 DEF Groups
  <2> HIDE DEF x1
  <2> QED BY <2>2 DEF Groups
<1> HIDE DEF x2
<1> QED BY <1>1, <1>2, GroupMarksAssumption

\* Handlers of the group, and the passing of a date.
LEMMA GroupKeepsPool ==
  ASSUME OverlayInv,
         \/ \E members \in SUBSET Users : CreateGroup(members)
         \/ Rotate \/ DeleteGroup \/ StartPatch \/ FinishPatch \/ RefusePatch
         \/ \E u \in Users : Expire(u)
  PROVE  OverlayInv' /\ UNCHANGED main
<1> USE DEF OverlayInv
<1>1. /\ AwayFromTheNode
      /\ UNCHANGED <<main, drawn, hash, dirty, late, rekeyed, unsure, faults>>
      /\ \/ UNCHANGED <<changes, minted>>
         \/ /\ changes < MaxChanges /\ changes' = changes + 1
            /\ minted' \in {minted, minted + 1}
  BY DEF AwayFromTheNode, CreateGroup, Rotate, DeleteGroup, StartPatch, FinishPatch,
         RefusePatch, Expire, WriteGroup, Draw, overlayVars, groupVars
<1>2. PoolInv'
  BY <1>1, SameTablesKeepPool
<1>3. OverlayTypeOK' /\ minted' \in 0..changes' /\ 0..changes' \subseteq 0..MaxChanges
  <2>1. changes \in 0..MaxChanges /\ minted \in 0..changes
    BY DEF TypeOK, OverlayTypeOK
  <2>2. changes' \in 0..MaxChanges /\ minted' \in 0..changes'
    BY <1>1, <2>1, OverlayBounds
  <2> QED BY <1>1, <2>2, OverlayBounds DEF TypeOK, OverlayTypeOK, AwayFromTheNode
<1>4. /\ group' \in Groups \cup {NoGroup}
      /\ patch' \in Groups \cup {NoPatch}
      /\ expired' \subseteq Dated
  <2> USE DEF TypeOK
  <2>1. ASSUME NEW members \in SUBSET Users, CreateGroup(members)
        PROVE  group' \in Groups /\ UNCHANGED <<patch, expired>>
    <3>1. minted' \in 1..MaxChanges
      BY <1>3, <2>1, OverlayBounds DEF CreateGroup, Draw
    <3>2. [id |-> minted', key |-> minted', members |-> members, on |-> TRUE] \in Groups
      BY <3>1 DEF Groups
    <3> QED BY <2>1, <3>2 DEF CreateGroup, WriteGroup
  <2>2. ASSUME Rotate
        PROVE  group' \in Groups /\ UNCHANGED <<patch, expired>>
    <3>1. minted' \in 1..MaxChanges
      BY <1>3, <2>2, OverlayBounds DEF Rotate, Draw
    <3>2. group \in Groups
      BY <2>2 DEF Rotate
    <3>3. [group EXCEPT !.key = minted'] \in Groups
      BY <3>1, <3>2 DEF Groups
    <3> QED BY <2>2, <3>3 DEF Rotate, WriteGroup
  <2>3. CASE DeleteGroup
    BY <2>3 DEF DeleteGroup, WriteGroup
  <2>4. CASE StartPatch
    BY <2>4 DEF StartPatch
  <2>5. ASSUME FinishPatch
        PROVE  /\ group' \in Groups \cup {NoGroup}
               /\ patch' = NoPatch /\ UNCHANGED expired
    <3>1. PICK fields \in [members : SUBSET Present(main), on : BOOLEAN] :
            group' = Updated(group, patch, fields)
      BY <2>5 DEF FinishPatch, WriteGroup
    <3>2. group' \in Groups \cup {NoGroup}
      BY <3>1, UpdatedFacts DEF Present
    <3> QED BY <2>5, <3>2 DEF FinishPatch, WriteGroup
  <2>6. CASE RefusePatch
    BY <2>6 DEF RefusePatch
  <2>7. ASSUME NEW u \in Users, Expire(u)
        PROVE  expired' \subseteq Dated /\ UNCHANGED groupVars
    BY <2>7 DEF Expire
  <2> QED BY <2>1, <2>2, <2>3, <2>4, <2>5, <2>6, <2>7 DEF groupVars
<1> QED BY <1>1, <1>2, <1>3, <1>4 DEF TypeOK

-----------------------------------------------------------------------------
(* The theorems.                                                           *)

\* Every step keeps the invariant.
LEMMA NextKeepsPool == OverlayInv /\ [Next]_vars => OverlayInv'
<1> SUFFICES ASSUME OverlayInv, [Next]_vars PROVE OverlayInv'
  OBVIOUS
<1>1. CASE OverlayNext /\ UNCHANGED <<groupVars, expired>>
  BY <1>1, ReloadsKeepPool, PushesKeepPool, HandlersKeepPool DEF OverlayNext
<1>2. ASSUME NEW u \in Users, FetchGroup(u) PROVE OverlayInv'
  BY <1>2, HandlersKeepPool DEF FetchGroup, BuildMember
<1>3. ASSUME NEW u \in Users, Extend(u) PROVE OverlayInv'
  BY <1>3, HandlersKeepPool
<1>4. CASE Sweep
  BY <1>4, SweepKeepsPool
<1>5. CASE UNCHANGED vars
  <2>1. UNCHANGED <<overlayVars, groupVars, expired>>
    BY <1>5 DEF vars
  <2>2. TypeOK'
    BY <2>1 DEF OverlayInv, TypeOK, OverlayTypeOK, overlayVars, groupVars
  <2>3. PoolInv'
    BY <2>1, SameTablesKeepPool DEF OverlayInv, AwayFromTheNode, overlayVars
  <2> QED BY <2>2, <2>3 DEF OverlayInv
<1> QED BY <1>1, <1>2, <1>3, <1>4, <1>5, GroupKeepsPool DEF Next

(***************************************************************************)
(* All variables keep their types, and no table that peers are made of     *)
(* gives one address to two users.                                         *)
(***************************************************************************)
THEOREM OverlayInvariant == Spec => []OverlayInv
<1>1. Init => OverlayInv
  BY InitiallyPool
<1>2. OverlayInv /\ [Next]_vars => OverlayInv'
  BY NextKeepsPool
<1> QED BY <1>1, <1>2, PTL DEF Spec

\* The variables keep their types.
THEOREM TypeCorrect == Spec => []TypeOK
<1>1. OverlayInv => TypeOK
  BY DEF OverlayInv
<1> QED BY <1>1, OverlayInvariant, PTL

(***************************************************************************)
(* However many users, addresses, changes and failures: no WireGuard       *)
(* server has two peers with one address, or two of one user, but for one  *)
(* at the node that was started with half a push.                          *)
(***************************************************************************)
THEOREM PeersDistinct == Spec => []PeersAreDistinct
<1>1. OverlayInv => PeersAreDistinct
  BY DEF OverlayInv, PoolInv
<1> QED BY <1>1, OverlayInvariant, PTL

\* The keys of groups: whatever a step does, the group has the newest.
LEMMA NextKeepsKeys ==
  OverlayInv /\ RevokedKeysStayDead /\ [Next]_vars => RevokedKeysStayDead'
<1> SUFFICES ASSUME OverlayInv, RevokedKeysStayDead, [Next]_vars
             PROVE  RevokedKeysStayDead'
  OBVIOUS
<1> USE DEF RevokedKeysStayDead
<1>0. group \in Groups \cup {NoGroup}
  BY DEF OverlayInv, TypeOK
<1>1. CASE UNCHANGED <<group, minted>>
  BY <1>1
<1>2. ASSUME NEW members \in SUBSET Users, CreateGroup(members)
      PROVE  RevokedKeysStayDead'
  BY <1>2 DEF CreateGroup, WriteGroup
<1>3. CASE Rotate
  <2>1. group \in Groups
    BY <1>0, <1>3 DEF Rotate
  <2>2. [group EXCEPT !.key = minted'].key = minted'
    BY <2>1 DEF Groups
  <2> QED BY <1>3, <2>2 DEF Rotate, WriteGroup
<1>4. CASE DeleteGroup
  BY <1>4 DEF DeleteGroup, WriteGroup
<1>5. CASE FinishPatch
  <2>1. PICK fields \in [members : SUBSET Present(main), on : BOOLEAN] :
          group' = Updated(group, patch, fields)
    BY <1>5 DEF FinishPatch, WriteGroup
  <2>2. fields \in [members : SUBSET Users, on : BOOLEAN]
    BY DEF Present
  <2>3. /\ group' = NoGroup <=> group = NoGroup
        /\ group # NoGroup => group'.key = group.key
    BY <1>0, <2>1, <2>2, UpdatedFacts
  <2> QED BY <1>5, <2>3 DEF FinishPatch
<1>6. CASE UNCHANGED vars \/ (OverlayNext /\ UNCHANGED <<groupVars, expired>>)
  BY <1>1, <1>6 DEF vars, groupVars
<1>7. CASE StartPatch \/ RefusePatch \/ Sweep
  BY <1>1, <1>7 DEF StartPatch, RefusePatch, Sweep, groupVars
<1>8. ASSUME NEW u \in Users, FetchGroup(u) \/ Expire(u) \/ Extend(u)
      PROVE  RevokedKeysStayDead'
  BY <1>1, <1>8 DEF FetchGroup, BuildMember, Expire, Extend, groupVars
<1> QED BY <1>2, <1>3, <1>4, <1>5, <1>6, <1>7, <1>8 DEF Next

(***************************************************************************)
(* A key that was rotated away, or went with its group, never opens a      *)
(* group again, whatever requests overlap.                                 *)
(***************************************************************************)
THEOREM KeysStayDead == Spec => []RevokedKeysStayDead
<1>1. Init => RevokedKeysStayDead
  BY DEF Init, RevokedKeysStayDead
<1>2. OverlayInv /\ RevokedKeysStayDead /\ [Next]_vars => RevokedKeysStayDead'
  BY NextKeepsKeys
<1> QED BY <1>1, <1>2, OverlayInvariant, PTL DEF Spec

-----------------------------------------------------------------------------
(* The overlay network implements the address pool.                        *)

\* What a handler does to one row, the pool may do to the user's lease.
LEMMA GrantIsPoolStep ==
  ASSUME main \in Tables, main' \in Tables, NEW u \in Users, Grants(main, main', u)
  PROVE  Pool!Next \/ UNCHANGED Lease
<1> DEFINE new == IF main'[u] = Absent THEN Absent ELSE main'[u].ip
<1>1. \A v \in Users : Lease[v] = IF main[v] = Absent THEN Absent ELSE main[v].ip
  BY DEF Lease
<1>2. Lease' = [Lease EXCEPT ![u] = new]
  BY DEF Lease, Grants
<1>3. \A v \in Users : main[v] # Absent => main[v].ip \in Hosts \cup {NoAddress}
  BY DEF Tables, Rows
<1>4. main'[u] # Absent => main'[u].ip \in Hosts \cup {NoAddress}
  BY DEF Tables, Rows
<1>5. Absent \notin Hosts \cup {NoAddress} /\ NoAddress \notin Hosts
  BY AbsentAssumption, HostsAssumption DEF Hosts, NoAddress
<1>6. ASSUME main'[u] # Absent, main'[u].ip \notin Taken(main) \ {NoAddress}
      PROVE  Pool!Free(u, main'[u].ip)
  <2> DEFINE a == main'[u].ip
  <2>1. CASE a = NoAddress
    BY <2>1 DEF Pool!Free
  <2>2. CASE a # NoAddress
    <3>1. ASSUME NEW v \in Users \ {u}, Lease[v] = a
          PROVE  FALSE
      <4>1. main[v] # Absent /\ main[v].ip = a
        BY <1>1, <1>4, <1>5, <1>6, <3>1
      <4>2. a \in Taken(main)
        BY <4>1 DEF Taken, Present
      <4> QED BY <1>6, <2>2, <4>2
    <3> QED BY <3>1 DEF Pool!Free
  <2> QED BY <2>1, <2>2
<1>7. CASE main'[u] = Absent
  <2>1. CASE main[u] = Absent
    BY <1>1, <1>2, <1>7, <2>1 DEF Lease
  <2>2. CASE main[u] # Absent
    <3>1. Lease[u] # Absent
      BY <1>1, <1>3, <1>5, <2>2
    <3> QED BY <1>2, <1>7, <3>1 DEF Pool!Next, Pool!Leave
  <2> QED BY <2>1, <2>2
<1>8. CASE main'[u] # Absent /\ main[u] # Absent /\ main'[u].ip = main[u].ip
  BY <1>1, <1>2, <1>8 DEF Lease
<1>9. CASE /\ main'[u] # Absent
           /\ main[u] = Absent \/ main[u].ip = NoAddress
           /\ main'[u].ip \notin Taken(main) \ {NoAddress}
  <2>1. Pool!Free(u, main'[u].ip)
    BY <1>6, <1>9
  <2>2. CASE main[u] = Absent
    <3>1. Lease[u] = Absent
      BY <1>1, <2>2
    <3> QED BY <1>2, <1>4, <1>9, <2>1, <3>1 DEF Pool!Next, Pool!Join
  <2>3. CASE main[u] # Absent /\ main'[u].ip = NoAddress
    BY <1>1, <1>2, <1>9, <2>3 DEF Lease
  <2>4. CASE main[u] # Absent /\ main'[u].ip # NoAddress
    <3>1. Lease[u] = NoAddress /\ main'[u].ip \in Hosts
      BY <1>1, <1>4, <1>9, <2>4
    <3> QED BY <1>2, <1>9, <2>1, <3>1 DEF Pool!Next, Pool!Lease
  <2> QED BY <2>2, <2>3, <2>4
<1> QED BY <1>7, <1>8, <1>9 DEF Grants

\* Every step is a step of the pool, or none of its business.
LEMMA NextIsPoolNext == OverlayInv /\ [Next]_vars => [Pool!Next]_Lease
<1> SUFFICES ASSUME OverlayInv, [Next]_vars
             PROVE  Pool!Next \/ UNCHANGED Lease
  BY Zenon
<1>1. OverlayInv' /\ main \in Tables /\ main' \in Tables
  BY NextKeepsPool DEF OverlayInv, TypeOK, OverlayTypeOK
<1>2. CASE UNCHANGED main
  BY <1>2 DEF Lease
<1>3. ASSUME NEW u \in Users, Grants(main, main', u)
      PROVE  Pool!Next \/ UNCHANGED Lease
  BY <1>1, <1>3, GrantIsPoolStep
<1>4. CASE Sweep
  <2>1. \A u \in Users :
          /\ main[u] = Absent <=> main'[u] = Absent
          /\ main[u] # Absent => main'[u].ip = main[u].ip
    BY <1>4, SweepKeepsPool
  <2> QED BY <2>1 DEF Lease
<1>5. CASE OverlayNext /\ UNCHANGED <<groupVars, expired>>
  <2>1. CASE \/ ReloadMain \/ ReloadNode \/ \E panel \in Panels : Restart(panel)
             \/ StartPush \/ PushEnds \/ \E u \in Users : BuildLinksAtNode(u)
    BY <1>2, <1>5, <2>1, ReloadsKeepPool, PushesKeepPool
  <2>2. ASSUME NEW u \in Users,
               \/ \E wg \in BOOLEAN, home \in Panels : Create(u, wg, home)
               \/ Update(u) \/ Toggle(u) \/ Delete(u) \/ BuildLinks(u)
        PROVE  Pool!Next \/ UNCHANGED Lease
    BY <1>3, <1>5, <2>2, HandlersKeepPool
  <2> QED BY <1>5, <2>1, <2>2 DEF OverlayNext
<1>6. ASSUME NEW u \in Users, FetchGroup(u) \/ Extend(u)
      PROVE  Pool!Next \/ UNCHANGED Lease
  BY <1>3, <1>6, HandlersKeepPool DEF FetchGroup, BuildMember
<1>7. CASE UNCHANGED vars
  BY <1>2, <1>7 DEF vars, overlayVars
<1> QED BY <1>2, <1>4, <1>5, <1>6, <1>7, GroupKeepsPool DEF Next

(***************************************************************************)
(* The overlay network keeps the promise of an address pool: in every      *)
(* behaviour an address has one holder at a time, who keeps it.            *)
(***************************************************************************)
THEOREM OverlayImplementsPool == Spec => PoolSpec
<1>1. Init => Pool!Init
  BY DEF Init, OverlayInit, Nobody, Lease, Pool!Init
<1>2. OverlayInv /\ [Next]_vars => [Pool!Next]_Lease
  BY NextIsPoolNext
<1> QED BY <1>1, <1>2, OverlayInvariant, PTL DEF Spec, PoolSpec, Pool!Spec
=============================================================================
