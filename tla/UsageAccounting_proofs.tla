----------------------- MODULE UsageAccounting_proofs -----------------------
(***************************************************************************)
(* What UsageAccounting guarantees for every set of nodes and users and    *)
(* for every number of bytes and incidents.                                *)
(***************************************************************************)
EXTENDS UsageAccounting, TLAPS

\* The difference of two readings (get_xray_stats) is a natural number and not
\* more than the newer one.
LEMMA DeltaFacts ==
  ASSUME NEW new \in Nat, NEW old \in Nat
  PROVE  Delta(new, old) \in Nat /\ Delta(new, old) <= new
  BY DEF Delta

\* Adding two amounts, or taking differences, gives an amount.
LEMMA AmountsAreClosed ==
  ASSUME NEW a \in Amounts, NEW b \in Amounts
  PROVE  /\ Plus(a, b) \in Amounts
         /\ Deltas(a, b) \in Amounts
         /\ Zero \in Amounts
         /\ \A S : Only(S, a) \in Amounts
         /\ \A u \in Users : /\ Plus(a, b)[u] = a[u] + b[u]
                             /\ Deltas(a, b)[u] = Delta(a[u], b[u])
                             /\ Zero[u] = 0
                             /\ a[u] \in Nat
  BY DEF Amounts, Plus, Only, Deltas, Zero, Delta

\* What is still unread on a panel is an amount, in a reading or not.
LEMMA UnreadIsAnAmount ==
  ASSUME TypeOK, NEW p \in Panels
  PROVE  Fresh(p) \in Amounts /\ InReading(p) \in Amounts
<1>1. counter[p] \in Amounts /\ previous[p] \in Amounts
  BY DEF TypeOK
<1>2. CASE reading[p] = NoReading
  BY <1>1, <1>2, AmountsAreClosed DEF Fresh, InReading
<1>3. CASE reading[p] # NoReading
  <2>1. reading[p] \in Amounts
    BY <1>3 DEF TypeOK
  <2> QED BY <1>1, <1>3, <2>1, AmountsAreClosed DEF Fresh, InReading
<1> QED BY <1>2, <1>3

\* Credit keeps both of its variables well typed.
LEMMA CreditKeepsTypes ==
  ASSUME TypeOK, NEW p \in Panels, NEW d \in Amounts, Credit(p, d)
  PROVE  used' \in [Panels -> Amounts] /\ pending' \in [Panels -> Amounts]
<1>1. Plus(used[p], d) \in Amounts /\ Plus(pending[p], d) \in Amounts
  BY AmountsAreClosed DEF TypeOK
<1> QED BY <1>1 DEF Credit, TypeOK

\* The variables of the accounting keep their types under every action.
LEMMA NextKeepsTypes ==
  ASSUME TypeOK, [Next]_vars
  PROVE  TypeOK'
<1>0. Zero \in Amounts
  BY DEF Zero, Amounts
<1>1. ASSUME NEW p \in Panels, NEW u \in Users, Carry(p, u)
      PROVE  TypeOK'
  <2>1. /\ [counter[p] EXCEPT ![u] = @ + 1] \in Amounts
        /\ [carried[p] EXCEPT ![u] = @ + 1] \in Amounts
    BY DEF TypeOK, Amounts
  <2> QED BY <1>1, <2>1 DEF Carry, TypeOK
<1>2. ASSUME NEW p \in Panels, Query(p)
      PROVE  TypeOK'
  BY <1>2 DEF Query, TypeOK, historyVars
<1>3. ASSUME NEW p \in Panels, Count(p)
      PROVE  TypeOK'
  <2>1. reading[p] \in Amounts /\ previous[p] \in Amounts
    BY <1>3 DEF Count, TypeOK
  <2>2. Deltas(reading[p], previous[p]) \in Amounts
    BY <2>1, AmountsAreClosed
  <2>3. used' \in [Panels -> Amounts] /\ pending' \in [Panels -> Amounts]
    BY <1>3, <2>2, CreditKeepsTypes DEF Count
  <2> QED BY <1>3, <2>1, <2>3 DEF Count, TypeOK, historyVars
<1>4. ASSUME NEW p \in Panels, NEW done \in SUBSET Users, CountPartly(p, done)
      PROVE  TypeOK'
  <2> DEFINE deltas == Deltas(reading[p], previous[p])
  <2>1. reading[p] \in Amounts /\ previous[p] \in Amounts
    BY <1>4 DEF CountPartly, TypeOK
  <2>2. Only(done, deltas) \in Amounts /\ Only(Users \ done, deltas) \in Amounts
    BY <2>1, AmountsAreClosed
  <2>3. used' \in [Panels -> Amounts] /\ pending' \in [Panels -> Amounts]
    BY <1>4, <2>2, CreditKeepsTypes DEF CountPartly
  <2>4. Plus(lost[p], Only(Users \ done, deltas)) \in Amounts
    BY <2>2, AmountsAreClosed DEF TypeOK
  <2>5. lost' \in [Panels -> Amounts]
    BY <1>4, <2>4 DEF CountPartly, Lose, TypeOK
  <2>6. previous' \in [Panels -> Amounts] /\ reading' \in [Panels -> Amounts \cup {NoReading}]
    BY <1>4, <2>1 DEF CountPartly, TypeOK
  <2>7. /\ incidents' = incidents + 1
        /\ UNCHANGED <<counter, report, carried, forgiven, restarted>>
    BY <1>4 DEF CountPartly, Happens
  <2> QED BY <2>3, <2>5, <2>6, <2>7 DEF TypeOK
<1>5. ASSUME NEW p \in Panels, RestartXray(p)
      PROVE  TypeOK'
  <2>1. Plus(lost[p], Fresh(p)) \in Amounts
    BY UnreadIsAnAmount, AmountsAreClosed DEF TypeOK
  <2> QED BY <1>0, <1>5, <2>1 DEF RestartXray, Happens, Lose, TypeOK
<1>6. ASSUME NEW p \in Panels, Reboot(p)
      PROVE  TypeOK'
  <2>1. Plus(Fresh(p), InReading(p)) \in Amounts
    BY UnreadIsAnAmount, AmountsAreClosed
  <2>2. Plus(Plus(Fresh(p), InReading(p)), pending[p]) \in Amounts
    BY <2>1, AmountsAreClosed DEF TypeOK
  <2>3. Plus(lost[p], Plus(Plus(Fresh(p), InReading(p)), pending[p])) \in Amounts
    BY <2>2, AmountsAreClosed DEF TypeOK
  <2> QED BY <1>0, <1>6, <2>3 DEF Reboot, Happens, Lose, TypeOK
<1>7. ASSUME NEW n \in Nodes, SendReport(n)
      PROVE  TypeOK'
  BY <1>0, <1>7 DEF SendReport, TypeOK, historyVars, Panels
<1>8. ASSUME NEW n \in Nodes, MergeReport(n)
      PROVE  TypeOK'
  <2>1. n \in Panels
    BY DEF Panels
  <2>2. Plus(used[n], report[n]) \in Amounts
    BY <2>1, AmountsAreClosed DEF TypeOK
  <2> QED BY <1>0, <1>8, <2>1, <2>2 DEF MergeReport, TypeOK, historyVars, volatileVars
<1>9. ASSUME NEW n \in Nodes, LoseReport(n)
      PROVE  TypeOK'
  <2>1. n \in Panels
    BY DEF Panels
  <2>2. Plus(lost[n], report[n]) \in Amounts
    BY <2>1, AmountsAreClosed DEF TypeOK
  <2> QED BY <1>0, <1>9, <2>1, <2>2 DEF LoseReport, Happens, Lose, TypeOK, volatileVars
<1>10. ASSUME NEW u \in Users, ResetUser(u)
       PROVE  TypeOK'
  <2>1. ASSUME NEW p \in Panels
        PROVE  /\ [forgiven[p] EXCEPT ![u] = @ + used[p][u]] \in Amounts
               /\ [used[p] EXCEPT ![u] = 0] \in Amounts
    BY DEF TypeOK, Amounts
  <2>2. forgiven' \in [Panels -> Amounts] /\ used' \in [Panels -> Amounts]
    BY <1>10, <2>1 DEF ResetUser
  <2> QED BY <1>10, <2>2 DEF ResetUser, TypeOK, volatileVars
<1>11. CASE UNCHANGED vars
  BY <1>11 DEF vars, volatileVars, historyVars, TypeOK
<1> QED
  BY <1>1, <1>2, <1>3, <1>4, <1>5, <1>6, <1>7, <1>8, <1>9, <1>10, <1>11
  DEF Next, Flush

\* Every variable of the accounting keeps its type: no difference of readings
\* is ever negative, which the column update and the reports rely on.
THEOREM TypeCorrect == Spec => []TypeOK
<1>1. Init => TypeOK
  BY DEF Init, TypeOK, Zero, Amounts
<1> QED BY <1>1, NextKeepsTypes, PTL DEF Spec

-----------------------------------------------------------------------------
(* Conservation of bytes.                                                  *)

\* The bytes of user u that panel p has not counted, before and after a step,
\* in terms of its counter and its readings.
LEMMA UnreadValue ==
  ASSUME TypeOK, TypeOK', NEW p \in Panels, NEW u \in Users
  PROVE  /\ reading[p] = NoReading =>
              Unread(p, u) = Delta(counter[p][u], previous[p][u])
         /\ reading[p] # NoReading =>
              Unread(p, u) = Delta(counter[p][u], reading[p][u])
                             + Delta(reading[p][u], previous[p][u])
         /\ reading'[p] = NoReading =>
              Unread(p, u)' = Delta(counter'[p][u], previous'[p][u])
         /\ reading'[p] # NoReading =>
              Unread(p, u)' = Delta(counter'[p][u], reading'[p][u])
                              + Delta(reading'[p][u], previous'[p][u])
<1>1. \A a, b \in Nat : Delta(a, b) \in Nat
  BY DeltaFacts
<1>2. /\ counter[p][u] \in Nat /\ previous[p][u] \in Nat
      /\ counter'[p][u] \in Nat /\ previous'[p][u] \in Nat
      /\ reading[p] # NoReading => reading[p][u] \in Nat
      /\ reading'[p] # NoReading => reading'[p][u] \in Nat
  BY DEF TypeOK, Amounts
<1>3. reading[p] = NoReading => Unread(p, u) = Delta(counter[p][u], previous[p][u])
  <2>1. Delta(counter[p][u], previous[p][u]) + 0 = Delta(counter[p][u], previous[p][u])
    BY <1>2 DEF Delta
  <2> QED BY <2>1 DEF Unread, Fresh, InReading, Deltas, Zero
<1>4. reading[p] # NoReading =>
        Unread(p, u) = Delta(counter[p][u], reading[p][u])
                       + Delta(reading[p][u], previous[p][u])
  BY <1>1, <1>2 DEF Unread, Fresh, InReading, Deltas
<1>5. reading'[p] = NoReading =>
        Unread(p, u)' = Delta(counter'[p][u], previous'[p][u])
  <2>1. Delta(counter'[p][u], previous'[p][u]) + 0 = Delta(counter'[p][u], previous'[p][u])
    BY <1>2 DEF Delta
  <2> QED BY <2>1 DEF Unread, Fresh, InReading, Deltas, Zero
<1>6. reading'[p] # NoReading =>
        Unread(p, u)' = Delta(counter'[p][u], reading'[p][u])
                        + Delta(reading'[p][u], previous'[p][u])
  BY <1>1, <1>2 DEF Unread, Fresh, InReading, Deltas
<1> QED BY <1>3, <1>4, <1>5, <1>6

\* A panel's last reading is not ahead of its counter, nor the one before of
\* it, as long as no reload has restarted its Xray.
Ordered(p, u) ==
  IF reading[p] = NoReading
  THEN previous[p][u] <= counter[p][u]
  ELSE previous[p][u] <= reading[p][u] /\ reading[p][u] <= counter[p][u]

\* The variables of one panel and one user that Known and Ordered look at.
Untouched(p, u) ==
  /\ counter'[p][u] = counter[p][u]
  /\ previous'[p][u] = previous[p][u]
  /\ reading'[p] = reading[p]
  /\ pending'[p][u] = pending[p][u]
  /\ report'[p][u] = report[p][u]
  /\ used'[p][u] = used[p][u]
  /\ forgiven'[p][u] = forgiven[p][u]
  /\ lost'[p][u] = lost[p][u]

\* The balance of one user on one panel is kept by a step that does not
\* touch it.
LEMMA UntouchedBalance ==
  ASSUME TypeOK, TypeOK', NEW p \in Panels, NEW u \in Users, Untouched(p, u)
  PROVE  /\ Known(p, u)' = Known(p, u)
         /\ Ordered(p, u) => Ordered(p, u)'
<1>1. Unread(p, u)' = Unread(p, u)
  BY UnreadValue DEF Untouched
<1> QED BY <1>1 DEF Untouched, Known, Charged, Reporting, Ordered

\* All amounts of one user on one panel are natural numbers.
LEMMA Numbers ==
  ASSUME TypeOK, NEW p \in Panels, NEW u \in Users
  PROVE  /\ counter[p][u] \in Nat
         /\ previous[p][u] \in Nat
         /\ reading[p] # NoReading => reading[p] \in Amounts /\ reading[p][u] \in Nat
         /\ pending[p][u] \in Nat
         /\ report[p][u] \in Nat
         /\ used[p][u] \in Nat
         /\ carried[p][u] \in Nat
         /\ forgiven[p][u] \in Nat
         /\ lost[p][u] \in Nat
  BY DEF TypeOK, Amounts

\* Crediting a panel's users moves the amount into what is charged or what is
\* to be reported, and touches no other panel.
LEMMA CreditBalance ==
  ASSUME TypeOK, NEW p \in Panels, NEW d \in Amounts, Credit(p, d)
  PROVE  /\ \A u \in Users :
              used'[p][u] + pending'[p][u] = used[p][u] + pending[p][u] + d[u]
         /\ \A q \in Panels \ {p} : used'[q] = used[q] /\ pending'[q] = pending[q]
<1>1. ASSUME NEW u \in Users
      PROVE  used'[p][u] + pending'[p][u] = used[p][u] + pending[p][u] + d[u]
  <2>1. /\ used[p] \in Amounts /\ pending[p] \in Amounts
        /\ used[p][u] \in Nat /\ pending[p][u] \in Nat /\ d[u] \in Nat
    BY DEF TypeOK, Amounts
  <2>2. CASE p = Main
    BY <2>1, <2>2, AmountsAreClosed DEF Credit, TypeOK
  <2>3. CASE p # Main
    BY <2>1, <2>3, AmountsAreClosed DEF Credit, TypeOK
  <2> QED BY <2>2, <2>3
<1>2. ASSUME NEW q \in Panels \ {p}
      PROVE  used'[q] = used[q] /\ pending'[q] = pending[q]
  BY DEF Credit, TypeOK
<1> QED BY <1>1, <1>2

\* The balance of user u on panel p is right after a step: it stays as it is
\* or Xray has carried one more byte.  Unless a reload has restarted Xray that
\* byte is known; otherwise it may hide behind the dead process's reading.
Balanced(p, u) ==
  /\ Known(p, u)' - Known(p, u) <= carried'[p][u] - carried[p][u]
  /\ Ordered(p, u) /\ p \notin restarted' =>
       /\ Known(p, u)' - Known(p, u) = carried'[p][u] - carried[p][u]
       /\ Ordered(p, u)'

\* The two sides of the balance are natural numbers.
LEMMA BalanceNumbers ==
  ASSUME TypeOK, TypeOK', NEW p \in Panels, NEW u \in Users
  PROVE  /\ Known(p, u) \in Nat /\ Known(p, u)' \in Nat
         /\ Unread(p, u) \in Nat /\ Unread(p, u)' \in Nat
         /\ carried[p][u] \in Nat /\ carried'[p][u] \in Nat
<1>1. /\ counter[p][u] \in Nat /\ previous[p][u] \in Nat
      /\ counter'[p][u] \in Nat /\ previous'[p][u] \in Nat
      /\ reading[p] # NoReading => reading[p][u] \in Nat
      /\ reading'[p] # NoReading => reading'[p][u] \in Nat
  BY DEF TypeOK, Amounts
<1>2. Unread(p, u) \in Nat
  BY <1>1, UnreadValue DEF Delta
<1>3. Unread(p, u)' \in Nat
  BY <1>1, UnreadValue DEF Delta
<1>4. /\ used[p][u] \in Nat /\ forgiven[p][u] \in Nat /\ pending[p][u] \in Nat
      /\ report[p][u] \in Nat /\ lost[p][u] \in Nat /\ carried[p][u] \in Nat
      /\ used'[p][u] \in Nat /\ forgiven'[p][u] \in Nat /\ pending'[p][u] \in Nat
      /\ report'[p][u] \in Nat /\ lost'[p][u] \in Nat /\ carried'[p][u] \in Nat
  BY DEF TypeOK, Amounts
<1>5. Known(p, u) \in Nat
  BY <1>2, <1>4 DEF Known, Charged, Reporting
<1>6. Known(p, u)' \in Nat
  BY <1>3, <1>4 DEF Known, Charged, Reporting
<1> QED BY <1>2, <1>3, <1>4, <1>5, <1>6

\* A step that only moves bytes of user u on panel p from one place to another.
LEMMA MovedBalance ==
  ASSUME TypeOK, TypeOK', NEW p \in Panels, NEW u \in Users,
         Known(p, u)' = Known(p, u), carried'[p][u] = carried[p][u],
         Ordered(p, u) /\ p \notin restarted' => Ordered(p, u)'
  PROVE  Balanced(p, u)
BY BalanceNumbers DEF Balanced

\* Every step keeps every balance.
LEMMA NextBalanced ==
  ASSUME TypeOK, TypeOK', Next, NEW q \in Panels, NEW v \in Users
  PROVE  Balanced(q, v)
<1>0. ASSUME Untouched(q, v), carried'[q][v] = carried[q][v]
      PROVE  Balanced(q, v)
  BY <1>0, UntouchedBalance, MovedBalance
<1>n. /\ counter[q][v] \in Nat /\ previous[q][v] \in Nat
      /\ reading[q] # NoReading => reading[q][v] \in Nat
      /\ used[q][v] \in Nat /\ forgiven[q][v] \in Nat /\ pending[q][v] \in Nat
      /\ report[q][v] \in Nat /\ lost[q][v] \in Nat /\ carried[q][v] \in Nat
  BY Numbers
<1>1. ASSUME NEW p \in Panels, NEW u \in Users, Carry(p, u)
      PROVE  Balanced(q, v)
  <2>1. CASE q = p /\ v = u
    <3>1. /\ counter'[q][v] = counter[q][v] + 1
          /\ carried'[q][v] = carried[q][v] + 1
      BY <1>1, <2>1 DEF Carry, TypeOK, Amounts
    <3>2. UNCHANGED <<previous, reading, pending, report, used, forgiven, lost>>
      BY <1>1 DEF Carry
    <3>3. /\ Unread(q, v)' <= Unread(q, v) + 1
          /\ Ordered(q, v) => Unread(q, v)' = Unread(q, v) + 1
      <4>1. CASE reading[q] = NoReading
        <5>1. /\ Unread(q, v) = Delta(counter[q][v], previous[q][v])
              /\ Unread(q, v)' = Delta(counter[q][v] + 1, previous[q][v])
          BY <3>1, <3>2, <4>1, UnreadValue
        <5> QED BY <1>n, <4>1, <5>1 DEF Delta, Ordered
      <4>2. CASE reading[q] # NoReading
        <5>1. /\ Unread(q, v) = Delta(counter[q][v], reading[q][v])
                                + Delta(reading[q][v], previous[q][v])
              /\ Unread(q, v)' = Delta(counter[q][v] + 1, reading[q][v])
                                 + Delta(reading[q][v], previous[q][v])
          BY <3>1, <3>2, <4>2, UnreadValue
        <5> QED BY <1>n, <4>2, <5>1 DEF Delta, Ordered
      <4> QED BY <4>1, <4>2
    <3>4. Ordered(q, v) => Ordered(q, v)'
      BY <1>n, <3>1, <3>2 DEF Ordered
    <3>5. Known(q, v)' - Known(q, v) = Unread(q, v)' - Unread(q, v)
      BY <1>n, <3>2, BalanceNumbers DEF Known, Charged, Reporting
    <3> QED BY <3>1, <3>3, <3>4, <3>5, BalanceNumbers DEF Balanced
  <2>2. CASE q # p \/ v # u
    BY <1>0, <1>1, <2>2 DEF Carry, Untouched, TypeOK, Amounts
  <2> QED BY <2>1, <2>2
<1>2. ASSUME NEW p \in Panels, Query(p)
      PROVE  Balanced(q, v)
  <2>1. CASE q = p
    <3>1. /\ reading[q] = NoReading
          /\ reading'[q] = counter[q]
          /\ UNCHANGED <<counter, previous, pending, report, used, carried,
                         forgiven, lost>>
      BY <1>2, <2>1 DEF Query, historyVars, TypeOK
    <3>2. reading'[q] # NoReading
      BY <3>1, ReadingAssumption DEF TypeOK, Amounts
    <3>3. Unread(q, v)' = Unread(q, v)
      <4>1. /\ Unread(q, v) = Delta(counter[q][v], previous[q][v])
            /\ Unread(q, v)' = Delta(counter[q][v], counter[q][v])
                               + Delta(counter[q][v], previous[q][v])
        BY <3>1, <3>2, UnreadValue
      <4> QED BY <1>n, <4>1 DEF Delta
    <3>4. Ordered(q, v) => Ordered(q, v)'
      BY <1>n, <3>1, <3>2 DEF Ordered
    <3>5. Known(q, v)' = Known(q, v)
      BY <3>1, <3>3 DEF Known, Charged, Reporting
    <3> QED BY <3>1, <3>4, <3>5, MovedBalance
  <2>2. CASE q # p
    BY <1>0, <1>2, <2>2 DEF Query, historyVars, Untouched, TypeOK
  <2> QED BY <2>1, <2>2
<1>3. ASSUME NEW p \in Panels, Count(p)
      PROVE  Balanced(q, v)
  <2> DEFINE d == Deltas(reading[p], previous[p])
  <2>1. reading[p] # NoReading /\ reading[p] \in Amounts /\ previous[p] \in Amounts
    BY <1>3 DEF Count, TypeOK
  <2>2. d \in Amounts /\ d[v] = Delta(reading[p][v], previous[p][v]) /\ d[v] \in Nat
    BY <2>1, AmountsAreClosed
  <2>3. Credit(p, d)
    BY <1>3 DEF Count
  <2> HIDE DEF d
  <2>4. CASE q = p
    <3>1. used'[q][v] + pending'[q][v] = used[q][v] + pending[q][v] + d[v]
      BY <2>2, <2>3, <2>4, CreditBalance
    <3>2. /\ previous'[q] = reading[q]
          /\ reading'[q] = NoReading
          /\ UNCHANGED <<counter, report, carried, forgiven, lost>>
      BY <1>3, <2>4 DEF Count, historyVars, TypeOK
    <3>3. Unread(q, v)' + d[v] = Unread(q, v)
      BY <1>n, <2>1, <2>2, <2>4, <3>2, UnreadValue DEF Delta
    <3>4. Ordered(q, v) => Ordered(q, v)'
      BY <2>1, <2>4, <3>2 DEF Ordered
    <3>5. used'[q][v] \in Nat /\ pending'[q][v] \in Nat
      BY DEF TypeOK, Amounts
    <3>6. Known(q, v)' = Known(q, v)
      BY <1>n, <2>2, <3>1, <3>2, <3>3, <3>5, BalanceNumbers
      DEF Known, Charged, Reporting
    <3> QED BY <3>2, <3>4, <3>6, MovedBalance
  <2>5. CASE q # p
    <3>1. used'[q] = used[q] /\ pending'[q] = pending[q]
      BY <2>2, <2>3, <2>5, CreditBalance
    <3> QED BY <1>0, <1>3, <2>5, <3>1 DEF Count, historyVars, Untouched, TypeOK
  <2> QED BY <2>4, <2>5
<1>4. ASSUME NEW p \in Panels, NEW done \in SUBSET Users, CountPartly(p, done)
      PROVE  Balanced(q, v)
  <2> DEFINE d == Deltas(reading[p], previous[p])
             counted == Only(done, d)
             dropped == Only(Users \ done, d)
  <2>1. reading[p] # NoReading /\ reading[p] \in Amounts /\ previous[p] \in Amounts
    BY <1>4 DEF CountPartly, TypeOK
  <2>2. d \in Amounts /\ d[v] = Delta(reading[p][v], previous[p][v]) /\ d[v] \in Nat
    BY <2>1, AmountsAreClosed
  <2>3. counted \in Amounts /\ dropped \in Amounts
    BY <2>2, AmountsAreClosed
  <2>4. counted[v] \in Nat /\ dropped[v] \in Nat /\ counted[v] + dropped[v] = d[v]
    BY <2>2 DEF Only
  <2>5. Credit(p, counted) /\ Lose(p, dropped)
    BY <1>4 DEF CountPartly
  <2> HIDE DEF d, counted, dropped
  <2>6. CASE q = p
    <3>1. used'[q][v] + pending'[q][v] = used[q][v] + pending[q][v] + counted[v]
      BY <2>3, <2>5, <2>6, CreditBalance
    <3>2. /\ previous'[q] = reading[q]
          /\ reading'[q] = NoReading
          /\ UNCHANGED <<counter, report, carried, forgiven>>
      BY <1>4, <2>6 DEF CountPartly, TypeOK
    <3>3. lost'[q][v] = lost[q][v] + dropped[v]
      BY <2>5, <2>6 DEF Lose, Plus, TypeOK
    <3>4. Unread(q, v)' + d[v] = Unread(q, v)
      BY <1>n, <2>1, <2>2, <2>6, <3>2, UnreadValue DEF Delta
    <3>5. Ordered(q, v) => Ordered(q, v)'
      BY <2>1, <2>6, <3>2 DEF Ordered
    <3>6. used'[q][v] \in Nat /\ pending'[q][v] \in Nat
      BY DEF TypeOK, Amounts
    <3>7. Known(q, v)' = Known(q, v)
      BY <1>n, <2>2, <2>4, <3>1, <3>2, <3>3, <3>4, <3>6, BalanceNumbers
      DEF Known, Charged, Reporting
    <3> QED BY <3>2, <3>5, <3>7, MovedBalance
  <2>7. CASE q # p
    <3>1. used'[q] = used[q] /\ pending'[q] = pending[q]
      BY <2>3, <2>5, <2>7, CreditBalance
    <3> QED BY <1>0, <1>4, <2>5, <2>7, <3>1
            DEF CountPartly, Lose, Untouched, TypeOK
  <2> QED BY <2>6, <2>7
<1>5. ASSUME NEW p \in Panels, RestartXray(p)
      PROVE  Balanced(q, v)
  <2>1. CASE q = p
    <3>1. /\ counter'[q][v] = 0
          /\ lost'[q][v] = lost[q][v] + Fresh(q)[v]
          /\ UNCHANGED <<previous, reading, pending, report, used, carried,
                         forgiven>>
          /\ q \in restarted'
      BY <1>5, <2>1 DEF RestartXray, Lose, Plus, Zero, TypeOK
    <3>2. InReading(q) \in Amounts /\ Fresh(q) \in Amounts
      BY UnreadIsAnAmount
    <3>3. InReading(q)[v] \in Nat /\ Fresh(q)[v] \in Nat
      BY <3>2 DEF Amounts
    <3>4. Unread(q, v)' = InReading(q)[v]
      <4>1. CASE reading[q] = NoReading
        <5>1. Unread(q, v)' = Delta(0, previous[q][v])
          BY <3>1, <4>1, UnreadValue
        <5>2. InReading(q)[v] = 0
          BY <4>1 DEF InReading, Zero
        <5> QED BY <1>n, <5>1, <5>2 DEF Delta
      <4>2. CASE reading[q] # NoReading
        <5>1. Unread(q, v)' = Delta(0, reading[q][v])
                              + Delta(reading[q][v], previous[q][v])
          BY <3>1, <4>2, UnreadValue
        <5>2. InReading(q)[v] = Delta(reading[q][v], previous[q][v])
          BY <4>2 DEF InReading, Deltas
        <5> QED BY <1>n, <4>2, <5>1, <5>2 DEF Delta
      <4> QED BY <4>1, <4>2
    <3>5. Known(q, v)' = Known(q, v)
      BY <1>n, <3>1, <3>3, <3>4 DEF Known, Charged, Reporting, Unread
    <3> QED BY <3>1, <3>5, MovedBalance
  <2>2. CASE q # p
    BY <1>0, <1>5, <2>2 DEF RestartXray, Lose, Untouched, TypeOK
  <2> QED BY <2>1, <2>2
<1>6. ASSUME NEW p \in Panels, Reboot(p)
      PROVE  Balanced(q, v)
  <2>1. CASE q = p
    <3>1. /\ counter'[q][v] = 0 /\ previous'[q][v] = 0
          /\ reading'[q] = NoReading
          /\ pending'[q][v] = 0
          /\ UNCHANGED <<report, used, carried, forgiven>>
      BY <1>6, <2>1 DEF Reboot, Zero, TypeOK
    <3>2. lost'[q][v] = lost[q][v] + (Unread(q, v) + pending[q][v])
      BY <1>6, <2>1 DEF Reboot, Lose, Plus, TypeOK, Unread
    <3>3. Unread(q, v)' = 0
      BY <3>1, UnreadValue DEF Delta
    <3>4. Ordered(q, v)'
      BY <3>1 DEF Ordered
    <3>5. Known(q, v)' = Known(q, v)
      BY <1>n, <3>1, <3>2, <3>3, BalanceNumbers DEF Known, Charged, Reporting
    <3> QED BY <3>1, <3>4, <3>5, MovedBalance
  <2>2. CASE q # p
    BY <1>0, <1>6, <2>2 DEF Reboot, Lose, Untouched, TypeOK
  <2> QED BY <2>1, <2>2
\* The actions of a node's report and the reset leave the readings alone.
<1>7. ASSUME UNCHANGED <<counter, previous, reading, carried>>,
             Charged(q, v)' + Reporting(q, v)' + lost'[q][v]
               = Charged(q, v) + Reporting(q, v) + lost[q][v]
      PROVE  Balanced(q, v)
  <2>1. Unread(q, v)' = Unread(q, v)
    BY <1>7, UnreadValue
  <2>2. Ordered(q, v) => Ordered(q, v)'
    BY <1>7 DEF Ordered
  <2>3. /\ Charged(q, v) \in Nat /\ Reporting(q, v) \in Nat
        /\ Charged(q, v)' \in Nat /\ Reporting(q, v)' \in Nat
        /\ lost'[q][v] \in Nat
    <3>1. /\ used'[q][v] \in Nat /\ forgiven'[q][v] \in Nat
          /\ pending'[q][v] \in Nat /\ report'[q][v] \in Nat /\ lost'[q][v] \in Nat
      BY DEF TypeOK, Amounts
    <3> QED BY <1>n, <3>1 DEF Charged, Reporting
  <2>4. Known(q, v)' = Known(q, v)
    BY <1>7, <1>n, <2>1, <2>3, BalanceNumbers DEF Known
  <2> QED BY <1>7, <2>2, <2>4, MovedBalance
<1>8. ASSUME NEW n \in Nodes, SendReport(n)
      PROVE  Balanced(q, v)
  <2>0. n \in Panels
    BY DEF Panels
  <2>1. CASE q = n
    <3>1. /\ pending'[q][v] = 0 /\ report'[q][v] = pending[q][v]
          /\ report[q][v] = 0
          /\ UNCHANGED <<counter, previous, reading, used, carried, forgiven, lost>>
      BY <1>8, <2>1 DEF SendReport, Zero, TypeOK, historyVars
    <3> QED BY <1>7, <1>n, <3>1 DEF Charged, Reporting
  <2>2. CASE q # n
    BY <1>0, <1>8, <2>0, <2>2 DEF SendReport, Untouched, TypeOK, historyVars
  <2> QED BY <2>1, <2>2
<1>9. ASSUME NEW n \in Nodes, MergeReport(n)
      PROVE  Balanced(q, v)
  <2>0. n \in Panels
    BY DEF Panels
  <2>1. CASE q = n
    <3>1. /\ used'[q][v] = used[q][v] + report[q][v] /\ report'[q][v] = 0
          /\ UNCHANGED <<counter, previous, reading, pending, carried, forgiven, lost>>
      BY <1>9, <2>1 DEF MergeReport, Zero, Plus, TypeOK, historyVars, volatileVars
    <3> QED BY <1>7, <1>n, <3>1 DEF Charged, Reporting
  <2>2. CASE q # n
    BY <1>0, <1>9, <2>0, <2>2
    DEF MergeReport, Untouched, TypeOK, historyVars, volatileVars
  <2> QED BY <2>1, <2>2
<1>10. ASSUME NEW n \in Nodes, LoseReport(n)
       PROVE  Balanced(q, v)
  <2>0. n \in Panels
    BY DEF Panels
  <2>1. CASE q = n
    <3>1. /\ lost'[q][v] = lost[q][v] + report[q][v] /\ report'[q][v] = 0
          /\ UNCHANGED <<counter, previous, reading, pending, used, carried, forgiven>>
      BY <1>10, <2>1 DEF LoseReport, Lose, Zero, Plus, TypeOK, volatileVars
    <3> QED BY <1>7, <1>n, <3>1 DEF Charged, Reporting
  <2>2. CASE q # n
    BY <1>0, <1>10, <2>0, <2>2
    DEF LoseReport, Lose, Untouched, TypeOK, volatileVars
  <2> QED BY <2>1, <2>2
<1>11. ASSUME NEW u \in Users, ResetUser(u)
       PROVE  Balanced(q, v)
  <2>1. /\ UNCHANGED <<counter, previous, reading, pending, report, carried, lost>>
        /\ forgiven'[q] = [forgiven[q] EXCEPT ![u] = @ + used[q][u]]
        /\ used'[q] = [used[q] EXCEPT ![u] = 0]
    BY <1>11 DEF ResetUser, volatileVars
  <2>2. used[q] \in Amounts /\ forgiven[q] \in Amounts
    BY DEF TypeOK
  <2>3. used'[q][v] + forgiven'[q][v] = used[q][v] + forgiven[q][v]
    BY <1>n, <2>1, <2>2 DEF Amounts
  <2> QED BY <1>7, <2>1, <2>3 DEF Charged, Reporting
<1> QED
  BY <1>1, <1>2, <1>3, <1>4, <1>5, <1>6, <1>8, <1>9, <1>10, <1>11 DEF Next, Flush

(***************************************************************************)
(* The inductive invariant: besides the balances, readings are ordered as  *)
(* long as no reload has restarted Xray, which is what makes the balances  *)
(* exact there.                                                            *)
(***************************************************************************)
ReadingsOrdered == \A p \in Panels \ restarted, u \in Users : Ordered(p, u)
AccountingInv == TypeOK /\ NeverOvercharged /\ NothingVanishes /\ ReadingsOrdered

\* A new installation has carried, read and charged nothing.
LEMMA InitiallyAccounted == Init => AccountingInv
<1> SUFFICES ASSUME Init PROVE AccountingInv
  OBVIOUS
<1>1. TypeOK
  BY DEF Init, TypeOK, Zero, Amounts
<1>2. ASSUME NEW p \in Panels, NEW u \in Users
      PROVE  Known(p, u) = 0 /\ carried[p][u] = 0 /\ Ordered(p, u)
  <2>1. /\ counter[p][u] = 0 /\ previous[p][u] = 0 /\ reading[p] = NoReading
        /\ pending[p][u] = 0 /\ report[p][u] = 0 /\ used[p][u] = 0
        /\ carried[p][u] = 0 /\ forgiven[p][u] = 0 /\ lost[p][u] = 0
    BY DEF Init, Zero
  <2>2. Unread(p, u) = 0
    BY <2>1 DEF Unread, Fresh, InReading, Deltas, Delta, Zero
  <2> QED BY <2>1, <2>2 DEF Known, Charged, Reporting, Ordered
<1> QED BY <1>1, <1>2 DEF AccountingInv, NeverOvercharged, NothingVanishes,
                          ReadingsOrdered

\* Every step keeps the invariant.
LEMMA NextKeepsAccounts == AccountingInv /\ [Next]_vars => AccountingInv'
<1> SUFFICES ASSUME AccountingInv, [Next]_vars PROVE AccountingInv'
  OBVIOUS
<1>1. TypeOK /\ TypeOK'
  BY NextKeepsTypes DEF AccountingInv
<1>2. CASE Next
  <2>1. restarted \subseteq restarted'
    BY <1>2 DEF Next, Carry, Flush, Query, Count, CountPartly, RestartXray,
                Reboot, SendReport, MergeReport, LoseReport, ResetUser,
                historyVars
  <2>2. ASSUME NEW p \in Panels, NEW u \in Users
        PROVE  /\ Known(p, u)' <= carried'[p][u]
               /\ p \notin restarted' => /\ Known(p, u)' = carried'[p][u]
                                         /\ Ordered(p, u)'
    <3>1. Balanced(p, u)
      BY <1>1, <1>2, NextBalanced
    <3>2. Known(p, u) <= carried[p][u]
      BY DEF AccountingInv, NeverOvercharged
    <3>3. p \notin restarted' => Known(p, u) = carried[p][u] /\ Ordered(p, u)
      BY <2>1 DEF AccountingInv, NothingVanishes, ReadingsOrdered
    <3> QED BY <1>1, <3>1, <3>2, <3>3, BalanceNumbers DEF Balanced
  <2> QED BY <1>1, <2>2 DEF AccountingInv, NeverOvercharged, NothingVanishes,
                            ReadingsOrdered
<1>3. CASE UNCHANGED vars
  <2>1. ASSUME NEW p \in Panels, NEW u \in Users
        PROVE  /\ Known(p, u)' = Known(p, u)
               /\ Ordered(p, u) => Ordered(p, u)'
    <3>1. Untouched(p, u)
      BY <1>3 DEF vars, volatileVars, historyVars, Untouched
    <3> QED BY <1>1, <3>1, UntouchedBalance
  <2>2. carried' = carried /\ restarted' = restarted
    BY <1>3 DEF vars, historyVars
  <2> QED BY <1>1, <2>1, <2>2 DEF AccountingInv, NeverOvercharged,
                                  NothingVanishes, ReadingsOrdered
<1> QED BY <1>2, <1>3

\* No byte is charged twice, on any panel and for any user, however reloads,
\* reboots, failing flushes, lost reports and resets interleave.
THEOREM NoByteIsChargedTwice == Spec => []NeverOvercharged
<1>1. AccountingInv => NeverOvercharged
  BY DEF AccountingInv
<1> QED BY <1>1, InitiallyAccounted, NextKeepsAccounts, PTL DEF Spec

\* On a panel whose Xray no reload has restarted no byte is lost except in a
\* recorded incident.
THEOREM NoByteVanishes == Spec => []NothingVanishes
<1>1. AccountingInv => NothingVanishes
  BY DEF AccountingInv
<1> QED BY <1>1, InitiallyAccounted, NextKeepsAccounts, PTL DEF Spec
=============================================================================
